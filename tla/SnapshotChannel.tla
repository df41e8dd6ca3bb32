--------------------------- MODULE SnapshotChannel ---------------------------
(***************************************************************************)
(* What Poller<Data> promises to the threads that call copyTo: a slot that *)
(* always holds one complete reading of the sensors, overwritten whenever  *)
(* a reading that compares unequal is taken, and a single "fresh" flag.    *)
(*                                                                         *)
(*   - a call without timeout returns only while the flag is up;           *)
(*   - a call with timeout may return at any time, fresh or not;           *)
(*   - either way the caller gets the contents of the slot at the moment   *)
(*     of the return and the flag goes down.                               *)
(*                                                                         *)
(* Readings are conflated: the slot has no history, so a reading that is   *)
(* overwritten before anybody takes it is lost.  Nothing here mentions     *)
(* buffers, mutexes, or condition variables: Poller.tla has those and is   *)
(* shown to implement this module.                                         *)
(***************************************************************************)

CONSTANTS
    Consumers,    \* threads that call copyTo
    Data,         \* readings of the sensors
    Same(_, _),   \* the reading type's operator==
    Pending       \* the value of a caller's dst while its call is in progress

VARIABLES
    slot,         \* the published reading
    fresh,        \* published since the last return of copyTo
    mode,         \* mode[c]: "idle", or the kind of call c is blocked in
    got           \* got[c]: the caller's dst

vars == <<slot, fresh, mode, got>>

TypeOK ==
    /\ slot \in Data
    /\ fresh \in BOOLEAN
    /\ mode \in [Consumers -> {"idle", "timed", "untimed"}]
    /\ got \in [Consumers -> Data \cup {Pending}]

\* The constructor fills both buffers with the same reading and reports
\* nothing as new.  Every caller owns a Data object from the start.
Init ==
    /\ slot \in Data
    /\ fresh = FALSE
    /\ mode = [c \in Consumers |-> "idle"]
    /\ got \in [Consumers -> Data]

\* A reading that differs from the published one replaces it.
Publish ==
    \E d \in Data :
        /\ ~Same(d, slot)
        /\ slot' = d
        /\ fresh' = TRUE
        /\ UNCHANGED <<mode, got>>

\* c calls copyTo: with a timeout, or with nullptr and hence without one.
Call(c, kind) ==
    /\ mode[c] = "idle"
    /\ mode' = [mode EXCEPT ![c] = kind]
    /\ got' = [got EXCEPT ![c] = Pending]
    /\ UNCHANGED <<slot, fresh>>

\* The call returns.
Return(c) ==
    /\ mode[c] # "idle"
    /\ mode[c] = "untimed" => fresh
    /\ got' = [got EXCEPT ![c] = slot]
    /\ fresh' = FALSE
    /\ mode' = [mode EXCEPT ![c] = "idle"]
    /\ UNCHANGED slot

Next ==
    \/ Publish
    \/ \E c \in Consumers : \/ \E kind \in {"timed", "untimed"} : Call(c, kind)
                            \/ Return(c)

Spec == Init /\ [][Next]_vars
==============================================================================
