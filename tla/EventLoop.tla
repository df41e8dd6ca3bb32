------------------------------ MODULE EventLoop ------------------------------
(***************************************************************************)
(* EventLoop and State (lego_fw/src/EventLoop.hpp, State.hpp): the thread  *)
(* in run() enters states, performs their actions, asks the poller for a   *)
(* reading and follows the first transition whose condition holds, while   *)
(* any other thread may call stop().                                       *)
(*                                                                         *)
(* The poller is the one-slot channel of SnapshotChannel, which Poller is  *)
(* proved to implement.  The states, built by addAction, addTransition and *)
(* setTimeout before run() is called, are constants.                       *)
(***************************************************************************)
EXTENDS Integers, Sequences

CONSTANTS
    States,         \* the State objects
    NoState,        \* nullptr
    Action,         \* the callables given to addAction
    Actions,        \* actions_ of each state
    Transitions,    \* transitions_ of each state
    Timed,          \* states whose timeout_ is set
    MaxElapsed,     \* durations that no condition tells apart are cut off here
    Loop,           \* the thread in run()
    Data,           \* readings
    Same(_, _),     \* Data::operator==
    Pending         \* the value of the loop's data during copyTo

\* elapsed_time in units of no importance; the system clock can be set back
\* while a state is active, all negative durations are -1.
Duration == -1 .. MaxElapsed

\* A condition is the set of readings and durations for which it holds.
Transition == [cond : SUBSET (Data \X Duration), to : States \cup {NoState}]

ASSUME MachineAssumption ==
    /\ NoState \notin States
    /\ Actions \in [States -> Seq(Action)]
    /\ Transitions \in [States -> Seq(Transition)]
    /\ Timed \subseteq States
    /\ MaxElapsed \in Nat

VARIABLES
    slot, fresh, mode, got,    \* the channel
    running,        \* running_, not initialised by the constructor
    lpc,            \* where the loop is
    current,        \* current_state
    previous,       \* previous_state
    act,            \* the next action of current to perform
    elapsed,        \* system time since current was entered
    performed,      \* history: the actions performed since current was reached
    asked           \* history: stop() was called during this call of run()

Chan == INSTANCE SnapshotChannel WITH Consumers <- {Loop}

chan == <<slot, fresh, mode, got>>
place == <<current, previous, act, performed>>
vars == <<slot, fresh, mode, got, running, lpc, current, previous, act,
          elapsed, performed, asked>>

\* "called": before running_ is set; "check": at the loop's condition.
LoopPC == {"out", "called", "check", "enter", "call", "wait", "next", "exit"}

TypeOK ==
    /\ Chan!TypeOK
    /\ running \in BOOLEAN
    /\ lpc \in LoopPC
    /\ current \in States \cup {NoState}
    /\ previous \in States \cup {NoState}
    /\ act \in Nat \ {0}
    /\ elapsed \in Duration
    /\ performed \in Seq(Action)
    /\ asked \in BOOLEAN

Init ==
    /\ Chan!Init
    /\ running \in BOOLEAN
    /\ lpc = "out"
    /\ current = NoState
    /\ previous = NoState
    /\ act = 1
    /\ elapsed = 0
    /\ performed = <<>>
    /\ asked = FALSE

------------------------------------------------------------------------------
(* The other threads, and the clock.                                       *)

\* The poller publishes a reading.
Publish ==
    /\ Chan!Publish
    /\ UNCHANGED <<running, lpc, place, elapsed, asked>>

Stop ==
    /\ running' = FALSE
    /\ asked' = (lpc # "out")
    /\ UNCHANGED <<chan, lpc, place, elapsed>>

\* Seeded fault: now and time_entered_ are swapped in the subtraction.
ClockBackwards ==
    /\ \E d \in Duration : elapsed' = -d
    /\ UNCHANGED <<chan, running, lpc, place, asked>>

\* Time passes, or somebody sets the system's clock.
Clock ==
    /\ elapsed' \in Duration
    /\ UNCHANGED <<chan, running, lpc, place, asked>>

------------------------------------------------------------------------------
(* run().                                                                  *)

CallRun(start) ==
    /\ lpc = "out"
    /\ lpc' = "called"
    /\ current' = start
    /\ asked' = FALSE
    /\ UNCHANGED <<chan, running, previous, act, elapsed, performed>>

\* running_.store(true), also after a stop(); the local data is uninitialised.
SetRunning ==
    /\ lpc = "called"
    /\ lpc' = "check"
    /\ running' = TRUE
    /\ got' \in [{Loop} -> Data]
    /\ previous' = NoState
    /\ performed' = <<>>
    /\ UNCHANGED <<slot, fresh, mode, current, act, elapsed, asked>>

\* Seeded fault: the loop does not look at running_.
CheckIgnoresStop ==
    /\ lpc = "check"
    /\ IF current # NoState
       THEN IF previous # current
            THEN lpc' = "enter" /\ act' = 1 /\ elapsed' = 0
            ELSE lpc' = "call" /\ UNCHANGED <<act, elapsed>>
       ELSE lpc' = "exit" /\ UNCHANGED <<act, elapsed>>
    /\ UNCHANGED <<chan, running, current, previous, performed, asked>>

\* The loop's condition; enter() notes the time.
Check ==
    /\ lpc = "check"
    /\ IF running /\ current # NoState
       THEN IF previous # current
            THEN lpc' = "enter" /\ act' = 1 /\ elapsed' = 0
            ELSE lpc' = "call" /\ UNCHANGED <<act, elapsed>>
       ELSE lpc' = "exit" /\ UNCHANGED <<act, elapsed>>
    /\ UNCHANGED <<chan, running, current, previous, performed, asked>>

\* enter() performs the next action of the state.
Act ==
    /\ lpc = "enter"
    /\ act \in DOMAIN Actions[current]
    /\ performed' = Append(performed, Actions[current][act])
    /\ act' = act + 1
    /\ UNCHANGED <<chan, running, lpc, current, previous, elapsed, asked>>

\* Seeded fault: previous_state is not updated.
EnteredForgotten ==
    /\ lpc = "enter"
    /\ act \notin DOMAIN Actions[current]
    /\ lpc' = "call"
    /\ UNCHANGED <<chan, running, place, elapsed, asked>>

\* enter() returns.
Entered ==
    /\ lpc = "enter"
    /\ act \notin DOMAIN Actions[current]
    /\ previous' = current
    /\ lpc' = "call"
    /\ UNCHANGED <<chan, running, current, act, performed, elapsed, asked>>

\* Seeded fault: the state's timeout is not passed on.
CallWithoutTimeout ==
    /\ lpc = "call"
    /\ Chan!Call(Loop, "untimed")
    /\ lpc' = "wait"
    /\ UNCHANGED <<running, place, elapsed, asked>>

\* Seeded fault: timeout_ is not nullptr in a state without timeout.
CallAlwaysTimed ==
    /\ lpc = "call"
    /\ Chan!Call(Loop, "timed")
    /\ lpc' = "wait"
    /\ UNCHANGED <<running, place, elapsed, asked>>

\* poller_.copyTo(data, current_state->getTimeout()) is called ...
Call ==
    /\ lpc = "call"
    /\ Chan!Call(Loop, IF current \in Timed THEN "timed" ELSE "untimed")
    /\ lpc' = "wait"
    /\ UNCHANGED <<running, place, elapsed, asked>>

\* ... and returns.
Return ==
    /\ lpc = "wait"
    /\ Chan!Return(Loop)
    /\ lpc' = "next"
    /\ UNCHANGED <<running, place, elapsed, asked>>

\* Condition k of state s holds and none before it does.
FirstApplicable(s, k, reading, duration) ==
    /\ <<reading, duration>> \in Transitions[s][k].cond
    /\ \A j \in 1 .. k - 1 : <<reading, duration>> \notin Transitions[s][j].cond

\* State s stays, or goes to t: State::next() returns t.
Successor(s, t, reading, duration) ==
    \/ \E k \in DOMAIN Transitions[s] :
          /\ FirstApplicable(s, k, reading, duration)
          /\ t = Transitions[s][k].to
    \/ /\ \A k \in DOMAIN Transitions[s] :
             <<reading, duration>> \notin Transitions[s][k].cond
       /\ t = s

\* Seeded fault: previous_state follows current_state at once.
NextStateNotEntered ==
    /\ lpc = "next"
    /\ \E t \in States \cup {NoState} :
          /\ Successor(current, t, got[Loop], elapsed)
          /\ current' = t
          /\ previous' = t
          /\ performed' = IF t = current THEN performed ELSE <<>>
    /\ lpc' = "check"
    /\ UNCHANGED <<chan, running, act, elapsed, asked>>

\* current_state = current_state->next(data).  The history starts afresh when
\* another state is reached.
NextState ==
    /\ lpc = "next"
    /\ \E t \in States \cup {NoState} :
          /\ Successor(current, t, got[Loop], elapsed)
          /\ current' = t
          /\ performed' = IF t = current THEN performed ELSE <<>>
    /\ lpc' = "check"
    /\ UNCHANGED <<chan, running, previous, act, elapsed, asked>>

\* An action or a condition throws: run() is left, running_ keeps its value.
Throw ==
    /\ \/ lpc = "enter" /\ act \in DOMAIN Actions[current]
       \/ lpc = "next" /\ Transitions[current] # <<>>
    /\ lpc' = "out"
    /\ UNCHANGED <<chan, running, place, elapsed, asked>>

\* run() returns.
Exit ==
    /\ lpc = "exit"
    /\ running' = FALSE
    /\ lpc' = "out"
    /\ UNCHANGED <<chan, place, elapsed, asked>>

LoopStep ==
    \/ SetRunning \/ Check \/ Act \/ Entered \/ Call \/ Return \/ NextState
    \/ Exit

Next ==
    \/ Publish
    \/ Stop
    \/ Clock
    \/ \E s \in States \cup {NoState} : CallRun(s)
    \/ SetRunning
    \/ Check
    \/ Act
    \/ Entered
    \/ Call
    \/ Return
    \/ NextState
    \/ Throw
    \/ Exit

Spec == Init /\ [][Next]_vars

(* Fairness.  The thread in run() keeps running, actions and conditions    *)
(* terminate, and a call of copyTo that can return does: Poller has        *)
(* TimedCallReturns for states with a timeout and WaitersServed for those  *)
(* without.  Nothing is assumed of the poller, of the clock, of the        *)
(* callers of run() and stop(), or of callbacks throwing.                  *)
FairSpec == Spec /\ WF_vars(LoopStep)

------------------------------------------------------------------------------
(* Safety.                                                                 *)

\* Whenever the loop asks for a reading or decides on one, the actions of the
\* current state have been performed exactly once, in the order in which they
\* were added, since the state was reached: not again when the state stays or
\* a transition leads back to it at once, and never those of two states.
ActionsOncePerVisit ==
    lpc \in {"call", "wait", "next"} => performed = Actions[current]

------------------------------------------------------------------------------
(* Liveness, under FairSpec.                                               *)

\* What EventLoop.hpp:39-41 and docs.md:60-61 say: stop() stops run().
StopTerminates == asked ~> (lpc = "out")

\* A stop() that is not overwritten ends run(), unless the loop blocks for good
\* in copyTo without a timeout (the FIXME at EventLoop.hpp:29-33) and no reading
\* is published any more: that is the only obstacle.
StopTerminatesUnlessBlocked ==
    <>[]~running =>
        <>[](\/ lpc = "out"
             \/ lpc = "wait" /\ current \notin Timed /\ ~fresh)

\* State s is left once this is the reading and enough time has passed.
Leaves(s, reading) ==
    \E t \in (States \cup {NoState}) \ {s} :
        Successor(s, t, reading, MaxElapsed)

\* The reading is published while the loop runs, it remains the newest, and
\* yet the loop, which nobody stops, ends up in s for good.
StuckIn(s, reading) ==
    <>(/\ fresh
       /\ [](running /\ lpc # "out" /\ slot = reading)
       /\ <>[](current = s /\ elapsed = MaxElapsed))

\* What State.hpp:26-29 and docs.md:24-25 say: the published reading triggers
\* the transitions whose conditions it satisfies, the loop does not remain in
\* a state that it should leave.
SatisfiedConditionTaken ==
    \A s \in States, d \in Data : Leaves(s, d) => ~StuckIn(s, d)

\* In states with a timeout this is so, whether or not the reading was already
\* delivered to an earlier state and whether or not another one comes.
TimedConditionTaken ==
    \A s \in Timed, d \in Data : Leaves(s, d) => ~StuckIn(s, d)
==============================================================================
