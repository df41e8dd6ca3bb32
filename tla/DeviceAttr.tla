------------------------------ MODULE DeviceAttr ------------------------------
(***************************************************************************)
(* Attributes of devices (ev3dev.cpp:141-190, 279-392): threads read and   *)
(* write files that the kernel creates and removes, through streams that   *)
(* stay open in two caches which all threads share.  A cache is protected  *)
(* by a mutex during the lookup only; the reference it returns is used     *)
(* afterwards, when other threads may already have dropped the item.       *)
(*                                                                         *)
(* A stream that is destroyed while a thread has a reference to it is      *)
(* undefined behaviour: that thread ends up in "undefined".                *)
(***************************************************************************)
EXTENDS LruCache, FiniteSets

CONSTANTS
    Threads,
    Attributes,     \* the files, identified by their paths
    NoAttr,         \* no file: the thread is not in a call
    Operations      \* the operations that are called

\* get_attr_string and get_attr_line differ in the text they take only.
Readers == {"get_int", "get_text"}
Writers == {"set_int", "set_string"}

ASSUME AttributesAssumption ==
    /\ IsFiniteSet(Attributes)
    /\ NoAttr \notin Attributes
    /\ Operations \subseteq Readers \cup Writers

VARIABLES
    present,    \* the files that exist
    cache,      \* the list of each of the two caches, "in" and "out"
    stream,     \* state of the file in each stream; "closed" if there is none
    pc,         \* where each thread is in its call
    op,         \* its operation
    attr,       \* its file
    attempt,    \* the loop variable of get_attr_int and set_attr_int
    result,     \* how its last call ended
    dangling,   \* threads whose reference denotes a destroyed stream
    gap,        \* history: the file was absent at some time during the call
    since       \* history: files looked up in the same cache since the thread was

vars == <<present, cache, stream, pc, op, attr, attempt, result, dangling, gap, since>>
call == <<op, attr, attempt>>

Cache == {"in", "out"}

\* "lookup": in the cache's function; "open": in fstream_open; "use": has an
\* open stream; "close": a write failed and is to be tried again.
Busy == {"lookup", "open", "use", "close"}
HasReference == {"open", "use", "close"}

Result == {"none", "value", "default", "done", "not_supported",
           "no_such_device", "enodev", "refused"}

TypeOK ==
    /\ present \subseteq Attributes
    /\ cache \in [Cache -> Seq(Attributes)]
    /\ stream \in [Cache -> [Attributes -> {"closed", "good", "stale"}]]
    /\ pc \in [Threads -> Busy \cup {"idle", "undefined"}]
    /\ op \in [Threads -> Readers \cup Writers]
    /\ attr \in [Threads -> Attributes \cup {NoAttr}]
    /\ \A t \in Threads : pc[t] \in Busy => attr[t] \in Attributes
    /\ attempt \in [Threads -> 0 .. 1]
    /\ result \in [Threads -> Result]
    /\ dangling \subseteq Threads
    /\ gap \in [Threads -> BOOLEAN]
    /\ since \in [Threads -> SUBSET Attributes]

Init ==
    /\ present \in SUBSET Attributes
    /\ cache = [c \in Cache |-> <<>>]
    /\ stream = [c \in Cache |-> [a \in Attributes |-> "closed"]]
    /\ pc = [t \in Threads |-> "idle"]
    /\ op \in [Threads -> Operations]
    /\ attr = [t \in Threads |-> NoAttr]
    /\ attempt = [t \in Threads |-> 0]
    /\ result = [t \in Threads |-> "none"]
    /\ dangling = {}
    /\ gap = [t \in Threads |-> FALSE]
    /\ since = [t \in Threads |-> {}]

CacheOf(t) == IF op[t] \in Readers THEN "in" ELSE "out"

\* The file behind the thread's reference.
File(t) == stream[CacheOf(t)][attr[t]]
SetFile(t, s) == stream' = [stream EXCEPT ![CacheOf(t)][attr[t]] = s]

------------------------------------------------------------------------------
(* The kernel.                                                             *)

\* A device is unplugged, or a driver withdraws an attribute: accesses
\* through streams that are open already fail from now on with ENODEV.
Remove(a) ==
    /\ a \in present
    /\ present' = present \ {a}
    /\ stream' = [c \in Cache |-> [stream[c] EXCEPT
                     ![a] = IF @ = "good" THEN "stale" ELSE @]]
    /\ gap' = [t \in Threads |-> gap[t] \/ attr[t] = a]
    /\ UNCHANGED <<cache, pc, call, result, dangling, since>>

\* The attribute appears (again): streams that were open remain stale.
Create(a) ==
    /\ a \notin present
    /\ present' = present \cup {a}
    /\ UNCHANGED <<cache, stream, pc, call, result, dangling, gap, since>>

------------------------------------------------------------------------------
(* The operations.                                                         *)

\* The device is not connected: _path is empty.
Refuse(t, o) ==
    /\ pc[t] = "idle"
    /\ op' = [op EXCEPT ![t] = o]
    /\ result' = [result EXCEPT ![t] = "not_supported"]
    /\ gap' = [gap EXCEPT ![t] = FALSE]
    /\ UNCHANGED <<present, cache, stream, pc, attr, attempt, dangling, since>>

\* A thread calls an operation of a device it holds the mutex of
\* (CraneControl.hpp:40-50): no other thread is at the same file.
Call(t, o, a) ==
    /\ pc[t] = "idle"
    /\ \A u \in Threads : attr[u] # a
    /\ pc' = [pc EXCEPT ![t] = "lookup"]
    /\ op' = [op EXCEPT ![t] = o]
    /\ attr' = [attr EXCEPT ![t] = a]
    /\ attempt' = [attempt EXCEPT ![t] = 0]
    /\ result' = [result EXCEPT ![t] = "none"]
    /\ gap' = [gap EXCEPT ![t] = a \notin present]
    /\ UNCHANGED <<present, cache, stream, dangling, since>>

\* ifstream_cache or ofstream_cache, which destroys what it drops.
Lookup(t) ==
    LET c == CacheOf(t)
        lost == Evicted(cache[c], attr[t])
        Shares(u) == pc[u] \in HasReference /\ CacheOf(u) = c
    IN  /\ pc[t] = "lookup"
        /\ pc' = [pc EXCEPT ![t] = "open"]
        /\ cache' = [cache EXCEPT ![c] = Access(cache[c], attr[t])]
        /\ stream' = [stream EXCEPT ![c] =
                         [a \in Attributes |-> IF a \in lost THEN "closed" ELSE @[a]]]
        /\ dangling' = dangling \cup {u \in Threads : Shares(u) /\ attr[u] \in lost}
        /\ since' = [u \in Threads |->
                        IF u = t THEN {}
                        ELSE IF Shares(u) THEN since[u] \cup {attr[t]} ELSE since[u]]
        /\ UNCHANGED <<present, call, result, gap>>

Return(t, r) ==
    /\ pc' = [pc EXCEPT ![t] = "idle"]
    /\ attr' = [attr EXCEPT ![t] = NoAttr]
    /\ attempt' = [attempt EXCEPT ![t] = 0]
    /\ result' = [result EXCEPT ![t] = r]
    /\ since' = [since EXCEPT ![t] = {}]
    /\ UNCHANGED op

\* ifstream_open or ofstream_open: a stream that is open is only cleared and,
\* if it is for reading, set to the beginning; otherwise the file is opened.
Open(t) ==
    /\ pc[t] = "open"
    /\ t \notin dangling
    /\ IF File(t) = "closed" /\ attr[t] \notin present
       THEN /\ Return(t, "no_such_device")
            /\ UNCHANGED stream
       ELSE /\ SetFile(t, IF File(t) = "closed" THEN "good" ELSE File(t))
            /\ pc' = [pc EXCEPT ![t] = "use"]
            /\ UNCHANGED <<call, result, since>>
    /\ UNCHANGED <<present, cache, dangling, gap>>

\* operator>> or getline.  The kernel refuses to read a stale file; the
\* stream notes that and does not throw, since nothing calls exceptions().
\* The variable keeps its initial value, 0 or "", and the handler in
\* get_attr_int (ev3dev.cpp:293-301) is never reached.
Read(t) ==
    /\ pc[t] = "use"
    /\ t \notin dangling
    /\ op[t] \in Readers
    /\ Return(t, IF File(t) = "stale" THEN "default" ELSE "value")
    /\ UNCHANGED <<present, cache, stream, dangling, gap>>

\* operator<<, the kernel takes the value.
Write(t) ==
    /\ pc[t] = "use"
    /\ t \notin dangling
    /\ op[t] \in Writers
    /\ File(t) = "good"
    /\ Return(t, "done")
    /\ UNCHANGED <<present, cache, stream, dangling, gap>>

\* The kernel refuses the value with another error (EINVAL, EBUSY).
WriteRefused(t) ==
    /\ pc[t] = "use"
    /\ t \notin dangling
    /\ op[t] \in Writers
    /\ File(t) = "good"
    /\ Return(t, "refused")
    /\ UNCHANGED <<present, cache, stream, dangling, gap>>

\* Seeded fault: the error is passed on at the first attempt too.
WriteStaleThrows(t) ==
    /\ pc[t] = "use"
    /\ t \notin dangling
    /\ op[t] \in Writers
    /\ File(t) = "stale"
    /\ Return(t, "enodev")
    /\ UNCHANGED <<present, cache, stream, dangling, gap>>

\* The write fails with ENODEV: set_attr_int tries once more, set_attr_string
\* does not and leaves the stale stream in the cache.
WriteStale(t) ==
    /\ pc[t] = "use"
    /\ t \notin dangling
    /\ op[t] \in Writers
    /\ File(t) = "stale"
    /\ IF op[t] = "set_int" /\ attempt[t] = 0
       THEN /\ pc' = [pc EXCEPT ![t] = "close"]
            /\ UNCHANGED <<call, result, since>>
       ELSE Return(t, "enodev")
    /\ UNCHANGED <<present, cache, stream, dangling, gap>>

\* Seeded fault: the attempt is not counted.
CloseUncounted(t) ==
    /\ pc[t] = "close"
    /\ t \notin dangling
    /\ SetFile(t, "closed")
    /\ pc' = [pc EXCEPT ![t] = "lookup"]
    /\ UNCHANGED <<present, cache, call, result, dangling, gap, since>>

\* Seeded fault: the attempt is counted twice.
CloseCountsTwice(t) ==
    /\ pc[t] = "close"
    /\ t \notin dangling
    /\ SetFile(t, "closed")
    /\ attempt' = [attempt EXCEPT ![t] = @ + 2]
    /\ pc' = [pc EXCEPT ![t] = "lookup"]
    /\ UNCHANGED <<present, cache, op, attr, result, dangling, gap, since>>

\* os.close(), and the second attempt.
Close(t) ==
    /\ pc[t] = "close"
    /\ t \notin dangling
    /\ SetFile(t, "closed")
    /\ attempt' = [attempt EXCEPT ![t] = @ + 1]
    /\ pc' = [pc EXCEPT ![t] = "lookup"]
    /\ UNCHANGED <<present, cache, op, attr, result, dangling, gap, since>>

\* The thread touches a stream that does not exist any more.
UseDestroyed(t) ==
    /\ pc[t] \in HasReference
    /\ t \in dangling
    /\ pc' = [pc EXCEPT ![t] = "undefined"]
    /\ UNCHANGED <<present, cache, stream, call, result, dangling, gap, since>>

------------------------------------------------------------------------------
Step(t) == Lookup(t) \/ Open(t) \/ Read(t) \/ Write(t) \/ WriteRefused(t)
           \/ WriteStale(t) \/ Close(t) \/ UseDestroyed(t)

Next ==
    \/ \E a \in Attributes : Remove(a) \/ Create(a)
    \/ \E t \in Threads, o \in Operations :
          Refuse(t, o) \/ \E a \in Attributes : Call(t, o, a)
    \/ \E t \in Threads : Step(t)

Spec == Init /\ [][Next]_vars

\* Threads are scheduled.  Nothing is assumed of the kernel or of callers.
FairSpec == Spec /\ \A t \in Threads : WF_vars(Step(t))

------------------------------------------------------------------------------
(* Properties.                                                             *)

(* No thread touches a stream that another thread's lookup destroyed.  It  *)
(* holds as long as the files in use fit into the cache (ev3dev.cpp:141-155: *)
(* the reference leaves the scope of the mutex).                           *)
NoUseAfterEviction == \A t \in Threads : pc[t] # "undefined"

(* However many files there are, a stream is destroyed in a thread's hands *)
(* only if other threads have looked up at least CacheSize other files in  *)
(* that cache since the thread looked it up (ev3dev.cpp:102-120).          *)
StreamOutlivesUse ==
    \A t \in Threads :
        t \in dangling => Cardinality(since[t] \ {attr[t]}) >= CacheSize

(* A call that reports that there is no device is right: the file was      *)
(* absent at some time during the call, even if the cache held a stale     *)
(* stream.  set_attr_string makes an exception, it has no second attempt   *)
(* (ev3dev.cpp:315-332, 364-371).                                          *)
AbsentExplainsFailure ==
    \A t \in Threads :
        /\ result[t] \in {"no_such_device", "enodev"}
        /\ op[t] # "set_string"
        => gap[t]

(* The comment at ev3dev.cpp:294-296: a stale stream is closed and         *)
(* get_attr_int tries again, so that a read of an attribute that is there  *)
(* during the whole call gets the attribute's value.                       *)
ReadRecovers ==
    \A t \in Threads :
        op[t] = "get_int" /\ result[t] = "default" => gap[t]

(* Calls return, whatever the kernel does: the second attempt is the last  *)
(* (ev3dev.cpp:315, 323).                                                  *)
CallsReturn ==
    \A t \in Threads : pc[t] \in Busy ~> pc[t] \in {"idle", "undefined"}
===============================================================================
