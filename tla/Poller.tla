------------------------------- MODULE Poller -------------------------------
(***************************************************************************)
(* Poller<Data> (lego_fw/src/Poller.hpp): one worker thread in work() reads *)
(* all sensors into a shadow buffer, compares it with the visible one, and *)
(* swaps the two under swap_mutex_ when they differ; any number of consumer *)
(* threads block in copyTo on the condition variable and copy the visible  *)
(* buffer; any thread may call end().                                      *)
(*                                                                         *)
(* One action per step between two points where another thread can run:    *)
(* every field of a reading is read, and copied, in a step of its own, so  *)
(* that a torn copy would be visible, and references bound before a swap   *)
(* (shadow, visible, buffers_[shadow_idx_ ^ 0x1]) are kept in variables.   *)
(* Time is abstracted: a sleep ends, and a timeout fires, at any moment.   *)
(***************************************************************************)
EXTENDS Integers

CONSTANTS
    Consumers,    \* threads that call copyTo
    NumFields,    \* number of fields that Data::update reads, one by one
    Value,        \* values of a field
    Same(_, _),   \* Data::operator==, which may ignore fields
    Worker,       \* the thread in work()
    Free,         \* swap_mutex_ has no owner
    Pending       \* dst of a caller whose call has not returned

Field == 1 .. NumFields
Data == [Field -> Value]

ASSUME ThreadsAssumption ==
    /\ Worker \notin Consumers
    /\ Free \notin Consumers \cup {Worker}

ASSUME DataAssumption ==
    /\ NumFields \in Nat \ {0}
    /\ \A a, b \in Data : Same(a, b) \in BOOLEAN

VARIABLES
    sensor,       \* what the hardware would report now, field by field
    buffers,      \* buffers_
    shadow_idx,   \* shadow_idx_
    new_data,     \* new_data_
    working,      \* working_
    swap_mutex,   \* owner of swap_mutex_
    wpc,          \* where the worker is
    wref,         \* index of the buffer that the reference `shadow' denotes
    wfield,       \* next field that Data::update reads
    cpc,          \* where each consumer is
    timed,        \* whether its call has a timeout
    src,          \* index of the buffer it copies from
    cfield,       \* next field it copies
    dst           \* the Data object it passed to copyTo

shared == <<buffers, shadow_idx, new_data, swap_mutex>>
wvars == <<wpc, wref, wfield>>
cvars == <<cpc, timed, src, cfield, dst>>
vars == <<sensor, buffers, shadow_idx, new_data, working, swap_mutex,
          wpc, wref, wfield, cpc, timed, src, cfield, dst>>

\* "off": not in work(); "failed": work() returned because update() threw.
WorkerPC == {"off", "enter", "loop", "update", "lock", "flip", "raise",
             "notify", "sleep", "failed"}

\* "out": not in copyTo; "waiting": in the condition variable's wait set;
\* "woken", "expired": out of the wait set, not yet owner of the mutex again.
ConsumerPC == {"out", "lock", "test", "waiting", "woken", "expired", "copy"}

TypeOK ==
    /\ sensor \in Data
    /\ buffers \in [{0, 1} -> Data]
    /\ shadow_idx \in {0, 1}
    /\ new_data \in BOOLEAN
    /\ working \in BOOLEAN
    /\ swap_mutex \in Consumers \cup {Worker, Free}
    /\ wpc \in WorkerPC
    /\ wref \in {0, 1}
    /\ wfield \in 1 .. NumFields + 1
    /\ cpc \in [Consumers -> ConsumerPC]
    /\ timed \in [Consumers -> BOOLEAN]
    /\ src \in [Consumers -> {0, 1}]
    /\ cfield \in [Consumers -> 1 .. NumFields + 1]
    /\ dst \in [Consumers -> Data]

\* Both buffers are copies of the Data object given to the constructor.  A
\* CraneData that was never updated holds arbitrary values, so any will do.
Init ==
    /\ sensor \in Data
    /\ \E d \in Data : buffers = [b \in {0, 1} |-> d]
    /\ shadow_idx = 0
    /\ new_data = FALSE
    /\ working = FALSE
    /\ swap_mutex = Free
    /\ wpc = "off"
    /\ wref = 0
    /\ wfield = 1
    /\ cpc = [c \in Consumers |-> "out"]
    /\ timed = [c \in Consumers |-> FALSE]
    /\ src = [c \in Consumers |-> 0]
    /\ cfield = [c \in Consumers |-> 1]
    /\ dst \in [Consumers -> Data]

------------------------------------------------------------------------------
(* The hardware, and the thread that calls end().                          *)

SensorChange ==
    /\ \E f \in Field, v \in Value : sensor' = [sensor EXCEPT ![f] = v]
    /\ UNCHANGED <<shared, working, wvars, cvars>>

End ==
    /\ working' = FALSE
    /\ UNCHANGED <<sensor, shared, wvars, cvars>>

------------------------------------------------------------------------------
(* The worker: work(), readSensors() and swap().                           *)

\* A thread calls work().  It may have been called, and have returned, before.
CallWork ==
    /\ wpc \in {"off", "failed"}
    /\ wpc' = "enter"
    /\ UNCHANGED <<sensor, shared, working, wref, wfield, cvars>>

\* working_.store(true) -- also when end() was called in the meantime.
SetWorking ==
    /\ wpc = "enter"
    /\ working' = TRUE
    /\ wpc' = "loop"
    /\ UNCHANGED <<sensor, shared, wref, wfield, cvars>>

\* Seeded fault: the loop never looks at working_.
LoopForever ==
    /\ wpc = "loop"
    /\ wpc' = "update"
    /\ wref' = shadow_idx
    /\ wfield' = 1
    /\ UNCHANGED <<sensor, shared, working, cvars>>

\* The loop's condition; readSensors() then binds its two references.
Loop ==
    /\ wpc = "loop"
    /\ IF working
       THEN /\ wpc' = "update"
            /\ wref' = shadow_idx
            /\ wfield' = 1
       ELSE /\ wpc' = "off"
            /\ UNCHANGED <<wref, wfield>>
    /\ UNCHANGED <<sensor, shared, working, cvars>>

\* shadow.update() reads its next field from the hardware.
ReadField ==
    /\ wpc = "update"
    /\ wfield \in Field
    /\ buffers' = [buffers EXCEPT ![wref][wfield] = sensor[wfield]]
    /\ wfield' = wfield + 1
    /\ UNCHANGED <<sensor, shadow_idx, new_data, working, swap_mutex,
                   wpc, wref, cvars>>

\* readSensors() is left; its references are gone.
Unbind == wref' = 0 /\ wfield' = 1

\* The device throws instead: work() logs and returns, working_ stays true.
ReadThrows ==
    /\ wpc = "update"
    /\ wfield \in Field
    /\ wpc' = "failed"
    /\ Unbind
    /\ UNCHANGED <<sensor, shared, working, cvars>>

\* Seeded fault: no swap while the previous reading has not been taken.
CompareUnlessPending ==
    /\ wpc = "update"
    /\ wfield = NumFields + 1
    /\ IF Same(buffers[wref], buffers[1 - wref]) \/ new_data
       THEN wpc' = "sleep" /\ Unbind
       ELSE wpc' = "lock" /\ UNCHANGED <<wref, wfield>>
    /\ UNCHANGED <<sensor, shared, working, cvars>>

\* if (shadow != visible) swap();
Compare ==
    /\ wpc = "update"
    /\ wfield = NumFields + 1
    /\ IF Same(buffers[wref], buffers[1 - wref])
       THEN wpc' = "sleep" /\ Unbind
       ELSE wpc' = "lock" /\ UNCHANGED <<wref, wfield>>
    /\ UNCHANGED <<sensor, shared, working, cvars>>

\* Seeded fault: the swap does not wait for the mutex.
LockSwapUnguarded ==
    /\ wpc = "lock"
    /\ swap_mutex' = Worker
    /\ wpc' = "flip"
    /\ UNCHANGED <<sensor, buffers, shadow_idx, new_data, working,
                   wref, wfield, cvars>>

\* swap() acquires swap_mutex_ ...
LockSwap ==
    /\ wpc = "lock"
    /\ swap_mutex = Free
    /\ swap_mutex' = Worker
    /\ wpc' = "flip"
    /\ UNCHANGED <<sensor, buffers, shadow_idx, new_data, working,
                   wref, wfield, cvars>>

\* Seeded fault: the index is incremented instead of toggled.
FlipIncrements ==
    /\ wpc = "flip"
    /\ shadow_idx' = shadow_idx + 1
    /\ wpc' = "raise"
    /\ UNCHANGED <<sensor, buffers, new_data, working, swap_mutex,
                   wref, wfield, cvars>>

\* ... exchanges the roles of the buffers ...
Flip ==
    /\ wpc = "flip"
    /\ shadow_idx' = 1 - shadow_idx
    /\ wpc' = "raise"
    /\ UNCHANGED <<sensor, buffers, new_data, working, swap_mutex,
                   wref, wfield, cvars>>

\* ... raises new_data_ and releases the mutex on return.
Raise ==
    /\ wpc = "raise"
    /\ new_data' = TRUE
    /\ swap_mutex' = Free
    /\ wpc' = "notify"
    /\ UNCHANGED <<sensor, buffers, shadow_idx, working, wref, wfield, cvars>>

\* Seeded fault: the notification is forgotten.
NotifyNobody ==
    /\ wpc = "notify"
    /\ wpc' = "sleep"
    /\ Unbind
    /\ UNCHANGED <<sensor, shared, working, cvars>>

\* cond.notify_one(), called without the mutex: one waiting consumer, if any.
Notify ==
    /\ wpc = "notify"
    /\ wpc' = "sleep"
    /\ \/ \E c \in Consumers : /\ cpc[c] = "waiting"
                               /\ cpc' = [cpc EXCEPT ![c] = "woken"]
       \/ /\ \A c \in Consumers : cpc[c] # "waiting"
          /\ UNCHANGED cpc
    /\ Unbind
    /\ UNCHANGED <<sensor, shared, working, timed, src, cfield, dst>>

\* sleep_for(period_) is over.
Sleep ==
    /\ wpc = "sleep"
    /\ wpc' = "loop"
    /\ UNCHANGED <<sensor, shared, working, wref, wfield, cvars>>

WorkerStep ==
    \/ SetWorking \/ Loop \/ ReadField \/ Compare
    \/ LockSwap \/ Flip \/ Raise \/ Notify \/ Sleep

------------------------------------------------------------------------------
(* A consumer: copyTo().                                                   *)

CallCopyTo(c) ==
    /\ cpc[c] = "out"
    /\ cpc' = [cpc EXCEPT ![c] = "lock"]
    /\ \E t \in BOOLEAN : timed' = [timed EXCEPT ![c] = t]
    /\ UNCHANGED <<sensor, shared, working, wvars, src, cfield, dst>>

\* Seeded fault: the ^ 0x1 is missing.
StartCopyOfShadow(c) ==
    /\ cpc' = [cpc EXCEPT ![c] = "copy"]
    /\ src' = [src EXCEPT ![c] = shadow_idx]
    /\ cfield' = [cfield EXCEPT ![c] = 1]

\* Evaluate buffers_[shadow_idx_ ^ 0x1] and start copying it into dst.
StartCopy(c) ==
    /\ cpc' = [cpc EXCEPT ![c] = "copy"]
    /\ src' = [src EXCEPT ![c] = 1 - shadow_idx]
    /\ cfield' = [cfield EXCEPT ![c] = 1]

\* Seeded fault: a wait without predicate, a woken thread does not test again.
LockCopyUntested(c) ==
    /\ swap_mutex = Free
    /\ swap_mutex' = c
    /\ \/ /\ cpc[c] = "lock"
          /\ cpc' = [cpc EXCEPT ![c] = "test"]
          /\ UNCHANGED <<src, cfield>>
       \/ /\ cpc[c] \in {"woken", "expired"}
          /\ StartCopy(c)
    /\ UNCHANGED <<sensor, buffers, shadow_idx, new_data, working, wvars,
                   timed, dst>>

\* Seeded fault: the wait starts over after a timeout.
LockCopyWaitsAgain(c) ==
    /\ cpc[c] \in {"lock", "woken", "expired"}
    /\ swap_mutex = Free
    /\ swap_mutex' = c
    /\ cpc' = [cpc EXCEPT ![c] = "test"]
    /\ UNCHANGED <<sensor, buffers, shadow_idx, new_data, working, wvars,
                   timed, src, cfield, dst>>

\* Acquire swap_mutex_: on entry, or again after leaving the wait set.  After
\* a timeout the predicate's value no longer matters, copyTo copies anyway.
LockCopy(c) ==
    /\ swap_mutex = Free
    /\ swap_mutex' = c
    /\ \/ /\ cpc[c] \in {"lock", "woken"}
          /\ cpc' = [cpc EXCEPT ![c] = "test"]
          /\ UNCHANGED <<src, cfield>>
       \/ /\ cpc[c] = "expired"
          /\ StartCopy(c)
    /\ UNCHANGED <<sensor, buffers, shadow_idx, new_data, working, wvars,
                   timed, dst>>

\* The predicate, under the mutex: copy, or release the mutex and wait.
Test(c) ==
    /\ cpc[c] = "test"
    /\ \/ /\ new_data
          /\ StartCopy(c)
          /\ UNCHANGED swap_mutex
       \/ /\ ~new_data
          /\ cpc' = [cpc EXCEPT ![c] = "waiting"]
          /\ swap_mutex' = Free
          /\ UNCHANGED <<src, cfield>>
    /\ UNCHANGED <<sensor, buffers, shadow_idx, new_data, working, wvars,
                   timed, dst>>

\* The wait ends without a notification.
SpuriousWake(c) ==
    /\ cpc[c] = "waiting"
    /\ cpc' = [cpc EXCEPT ![c] = "woken"]
    /\ UNCHANGED <<sensor, shared, working, wvars, timed, src, cfield, dst>>

\* The timeout of wait_for is reached.
Timeout(c) ==
    /\ cpc[c] = "waiting"
    /\ timed[c]
    /\ cpc' = [cpc EXCEPT ![c] = "expired"]
    /\ UNCHANGED <<sensor, shared, working, wvars, timed, src, cfield, dst>>

\* dst = buffers_[...], field by field.
CopyField(c) ==
    /\ cpc[c] = "copy"
    /\ cfield[c] \in Field
    /\ dst' = [dst EXCEPT ![c][cfield[c]] = buffers[src[c]][cfield[c]]]
    /\ cfield' = [cfield EXCEPT ![c] = @ + 1]
    /\ UNCHANGED <<sensor, shared, working, wvars, cpc, timed, src>>

\* copyTo returns; its arguments and references are gone.
Leave(c) ==
    /\ cpc' = [cpc EXCEPT ![c] = "out"]
    /\ timed' = [timed EXCEPT ![c] = FALSE]
    /\ src' = [src EXCEPT ![c] = 0]
    /\ cfield' = [cfield EXCEPT ![c] = 1]

\* Seeded fault: new_data_ is not reset.
FinishCopyKeepsFlag(c) ==
    /\ cpc[c] = "copy"
    /\ cfield[c] = NumFields + 1
    /\ swap_mutex' = Free
    /\ Leave(c)
    /\ UNCHANGED <<sensor, buffers, shadow_idx, new_data, working, wvars, dst>>

\* new_data_.store(false); the mutex is released on return.
FinishCopy(c) ==
    /\ cpc[c] = "copy"
    /\ cfield[c] = NumFields + 1
    /\ new_data' = FALSE
    /\ swap_mutex' = Free
    /\ Leave(c)
    /\ UNCHANGED <<sensor, buffers, shadow_idx, working, wvars, dst>>

ConsumerStep(c) ==
    LockCopy(c) \/ Test(c) \/ Timeout(c) \/ CopyField(c) \/ FinishCopy(c)

------------------------------------------------------------------------------
Next ==
    \/ SensorChange
    \/ End
    \/ CallWork
    \/ SetWorking
    \/ Loop
    \/ ReadField
    \/ ReadThrows
    \/ Compare
    \/ LockSwap
    \/ Flip
    \/ Raise
    \/ Notify
    \/ Sleep
    \/ \E c \in Consumers :
          \/ CallCopyTo(c)
          \/ LockCopy(c)
          \/ Test(c)
          \/ SpuriousWake(c)
          \/ Timeout(c)
          \/ CopyField(c)
          \/ FinishCopy(c)

Spec == Init /\ [][Next]_vars

(* Fairness.  Every thread keeps running, and a thread that keeps trying to *)
(* acquire swap_mutex_ gets it: the owners hold it for a few instructions  *)
(* and then sleep, or wait, for milliseconds with the mutex free.  The     *)
(* deadline of a timed wait is absolute, so spurious wake-ups cannot put   *)
(* the timeout off forever.  Nothing is assumed of the hardware, of the    *)
(* callers of work(), copyTo() and end(), or of update() throwing.         *)
FairSpec ==
    /\ Spec
    /\ WF_vars(WorkerStep)
    /\ SF_vars(LockSwap)
    /\ \A c \in Consumers : /\ WF_vars(ConsumerStep(c))
                            /\ SF_vars(LockCopy(c))
                            /\ SF_vars(Timeout(c))

------------------------------------------------------------------------------
(* Safety.                                                                 *)

Visible == buffers[1 - shadow_idx]

\* The worker never writes a field of the buffer that a consumer is copying,
\* although update() runs without the mutex (Poller.hpp:77-79 against :40).
NoRace ==
    \A c \in Consumers : wpc = "update" /\ cpc[c] = "copy" => src[c] # wref

\* What a consumer has copied so far agrees with the published reading, even
\* though the worker may complete a whole update in the middle of the copy:
\* no caller ever gets fields of two readings.
CopyIntact ==
    \A c \in Consumers : cpc[c] = "copy" =>
        \A f \in 1 .. cfield[c] - 1 : dst[c][f] = Visible[f]

\* A reading announced by new_data_ is not overlooked while somebody waits for
\* one: the worker is about to notify, or some consumer is on its way to
\* evaluate the predicate or to copy (notify_one is called after the mutex was
\* released, Poller.hpp:81-82).
NoLostWakeup ==
    new_data /\ (\E c \in Consumers : cpc[c] = "waiting") =>
        \/ wpc = "notify"
        \/ \E c \in Consumers : cpc[c] \in {"woken", "expired", "test", "copy"}

\* copyTo without timeout copies only a reading that no other consumer has
\* taken since it was published, also when several consumers compete for it.
UntimedGetsFresh ==
    \A c \in Consumers : cpc[c] = "copy" /\ ~timed[c] => new_data

(* The poller implements the one-slot channel.  The swap takes effect when *)
(* new_data_ is raised, a call when new_data_ is lowered.                  *)
Slot == IF wpc = "raise" THEN buffers[shadow_idx] ELSE Visible
Mode == [c \in Consumers |-> IF cpc[c] = "out" THEN "idle"
                             ELSE IF timed[c] THEN "timed" ELSE "untimed"]
Got == [c \in Consumers |-> IF cpc[c] = "out" THEN dst[c] ELSE Pending]

Chan == INSTANCE SnapshotChannel WITH
    slot <- Slot, fresh <- new_data, mode <- Mode, got <- Got

\* Buffers, mutex and condition variable together behave as the slot and the
\* flag of SnapshotChannel: published readings are complete and differ from
\* the one they replace, and each return of copyTo yields the slot and clears
\* the flag in one indivisible step.
ImplementsChannel == Chan!Spec

------------------------------------------------------------------------------
(* Liveness, under FairSpec.                                               *)

\* A published reading does not stay untaken while consumers wait.
WaitersServed ==
    (new_data /\ \E c \in Consumers : cpc[c] = "waiting") ~> ~new_data

\* A call with a timeout returns, whatever the worker does or does not do.
TimedCallReturns ==
    \A c \in Consumers : (cpc[c] # "out" /\ timed[c]) ~> (cpc[c] = "out")

\* If end() takes effect for good -- no work() overwrites it -- work() returns.
EndStopsWorker ==
    <>[]~working => <>[](wpc \in {"off", "failed"})

WorkerAlive == working /\ wpc \notin {"off", "enter", "failed"}

\* If the hardware settles on a reading while the worker runs, the visible
\* reading eventually compares equal to it, and remains so.
StableReadingPublished ==
    \A d \in Data : <>[](sensor = d /\ WorkerAlive) => <>[]Same(d, Visible)

\* What docs.md:40-41 and :53 say: the poller provides "the newest data".
NewestReadingPublished ==
    \A d \in Data : <>[](sensor = d /\ WorkerAlive) => <>[](Visible = d)
==============================================================================
