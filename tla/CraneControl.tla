----------------------------- MODULE CraneControl -----------------------------
(***************************************************************************)
(* The devices of a crane, shared by threads (CraneControl.hpp, Safe.hpp). *)
(* motor(), color_sensor() and touch_sensor() return a handle that holds   *)
(* the device's mutex until it is destroyed: at the end of the statement,  *)
(* as in CraneData.hpp:26, or of the scope of a variable, as in            *)
(* draft.cpp:27.  What is done in between is a series of accesses to       *)
(* attributes, and a method of a sensor makes several of them.             *)
(***************************************************************************)
EXTENDS Integers, Sequences

CONSTANTS
    Threads,
    Devices,
    Modes,          \* of sensors
    NoMode,
    Nobody,         \* the mutex is free
    Statements      \* what threads do with one handle

\* Write the mode, read a value, or access an attribute that has no mode.
Access == [op : {"set_mode", "value", "other"}, mode : Modes \cup {NoMode}]
SetMode(m) == [op |-> "set_mode", mode |-> m]
Value == [op |-> "value", mode |-> NoMode]
Other == [op |-> "other", mode |-> NoMode]

ASSUME ControlAssumption ==
    /\ Statements \subseteq [dev : Devices, accesses : Seq(Access)]
    /\ Statements # {}
    /\ Nobody \notin Threads
    /\ NoMode \notin Modes

VARIABLES
    owner,      \* of each device's mutex
    at,         \* where each thread is: "out", "lock" or "hold"
    stmt,       \* what it does
    step,       \* the next access
    mode,       \* the mode of each device
    wanted,     \* the mode that the thread has set through this handle
    seen        \* history: the mode in which it has read a value since

cvars == <<owner, at, stmt, step, mode, wanted, seen>>

CTypeOK ==
    /\ owner \in [Devices -> Threads \cup {Nobody}]
    /\ at \in [Threads -> {"out", "lock", "hold"}]
    /\ stmt \in [Threads -> Statements]
    /\ step \in [Threads -> Nat \ {0}]
    /\ mode \in [Devices -> Modes \cup {NoMode}]
    /\ wanted \in [Threads -> Modes \cup {NoMode}]
    /\ seen \in [Threads -> Modes \cup {NoMode}]

CInit ==
    /\ owner = [d \in Devices |-> Nobody]
    /\ at = [t \in Threads |-> "out"]
    /\ stmt = [t \in Threads |-> CHOOSE s \in Statements : TRUE]
    /\ step = [t \in Threads |-> 1]
    /\ mode = [d \in Devices |-> NoMode]
    /\ wanted = [t \in Threads |-> NoMode]
    /\ seen = [t \in Threads |-> NoMode]

\* The thread asks for a handle.
Ask(t, s) ==
    /\ at[t] = "out"
    /\ at' = [at EXCEPT ![t] = "lock"]
    /\ stmt' = [stmt EXCEPT ![t] = s]
    /\ step' = [step EXCEPT ![t] = 1]
    /\ wanted' = [wanted EXCEPT ![t] = NoMode]
    /\ seen' = [seen EXCEPT ![t] = NoMode]
    /\ UNCHANGED <<owner, mode>>

\* Seeded fault: Safe keeps the mutex without locking it.
HandleUnlocked(t) ==
    /\ at[t] = "lock"
    /\ owner' = [owner EXCEPT ![stmt[t].dev] = t]
    /\ at' = [at EXCEPT ![t] = "hold"]
    /\ UNCHANGED <<stmt, step, mode, wanted, seen>>

\* The constructor of Safe locks the mutex.
Handle(t) ==
    /\ at[t] = "lock"
    /\ owner[stmt[t].dev] = Nobody
    /\ owner' = [owner EXCEPT ![stmt[t].dev] = t]
    /\ at' = [at EXCEPT ![t] = "hold"]
    /\ UNCHANGED <<stmt, step, mode, wanted, seen>>

\* An access through operator->.
Use(t) ==
    /\ at[t] = "hold"
    /\ step[t] \in DOMAIN stmt[t].accesses
    /\ LET a == stmt[t].accesses[step[t]]
           d == stmt[t].dev
       IN  CASE a.op = "set_mode" ->
                    /\ mode' = [mode EXCEPT ![d] = a.mode]
                    /\ wanted' = [wanted EXCEPT ![t] = a.mode]
                    /\ seen' = [seen EXCEPT ![t] = NoMode]
             [] a.op = "value" ->
                    /\ seen' = [seen EXCEPT ![t] = mode[d]]
                    /\ UNCHANGED <<mode, wanted>>
             [] OTHER -> UNCHANGED <<mode, wanted, seen>>
    /\ step' = [step EXCEPT ![t] = @ + 1]
    /\ UNCHANGED <<owner, at, stmt>>

\* Seeded fault: each access has a handle of its own.
ReleaseEarly(t) ==
    /\ at[t] = "hold"
    /\ owner' = [owner EXCEPT ![stmt[t].dev] = Nobody]
    /\ at' = [at EXCEPT ![t] = IF step[t] \in DOMAIN stmt[t].accesses
                               THEN "lock" ELSE "out"]
    /\ UNCHANGED <<stmt, step, mode, wanted, seen>>

\* The handle is destroyed, after the last access or because one has thrown.
Release(t) ==
    /\ at[t] = "hold"
    /\ owner' = [owner EXCEPT ![stmt[t].dev] = Nobody]
    /\ at' = [at EXCEPT ![t] = "out"]
    /\ UNCHANGED <<stmt, step, mode, wanted, seen>>

CNext ==
    \E t \in Threads :
        \/ \E s \in Statements : Ask(t, s)
        \/ Handle(t)
        \/ Use(t)
        \/ Release(t)

CSpec == CInit /\ [][CNext]_cvars

------------------------------------------------------------------------------
\* No two threads are at the same device: what DeviceAttr takes for granted
\* when it lets no two threads be at the same file.
ExclusiveAccess ==
    \A t, u \in Threads :
        at[t] = "hold" /\ at[u] = "hold" /\ stmt[t].dev = stmt[u].dev => t = u

\* A value that a thread reads after having set a mode was measured in that
\* mode, although another thread may use the sensor in another one: one handle
\* covers both accesses of is_pressed() (ev3dev.h:314) and its like.
ValueOfMode ==
    \A t \in Threads :
        at[t] = "hold" /\ wanted[t] # NoMode /\ seen[t] # NoMode
            => seen[t] = wanted[t]
==============================================================================
