-------------------------- MODULE CraneControlProofs --------------------------
(* Proofs about CraneControl, for any threads, devices and statements.     *)
EXTENDS CraneControl, TLAPS

\* The thread with a handle is the one that the mutex belongs to.
Owning == \A t \in Threads : at[t] = "hold" => owner[stmt[t].dev] = t

\* Whoever has set the mode of a device through its handle still has it.
KeepsMode ==
    \A t \in Threads :
        at[t] = "hold" /\ wanted[t] # NoMode => mode[stmt[t].dev] = wanted[t]

\* A handle that is not there yet has set nothing.
Unused == \A t \in Threads : at[t] = "lock" => wanted[t] = NoMode

CInv == CTypeOK /\ Owning /\ KeepsMode /\ Unused /\ ValueOfMode

LEMMA ControlInit == CInit => CInv
BY ControlAssumption DEF ControlAssumption, CInit, CInv, CTypeOK, Owning, KeepsMode, Unused, ValueOfMode

\* An access changes the mode and what the thread knows of it in step.
LEMMA UseEffect ==
    ASSUME CTypeOK, NEW t \in Threads, Use(t)
    PROVE  /\ CTypeOK'
           /\ UNCHANGED <<owner, at, stmt>>
           /\ \A u \in Threads \ {t} : wanted'[u] = wanted[u] /\ seen'[u] = seen[u]
           /\ \A d \in Devices \ {stmt[t].dev} : mode'[d] = mode[d]
           /\ \/ wanted'[t] = mode'[stmt[t].dev] /\ seen'[t] = NoMode
              \/ /\ UNCHANGED <<mode, wanted>>
                 /\ seen'[t] \in {seen[t], mode[stmt[t].dev]}
<1> DEFINE a == stmt[t].accesses[step[t]]
           d == stmt[t].dev
<1>1. d \in Devices /\ a \in Access
  BY ControlAssumption DEF ControlAssumption, CTypeOK, Use
<1>2. CASE a.op = "set_mode"
  <2>1. /\ mode' = [mode EXCEPT ![d] = a.mode]
        /\ wanted' = [wanted EXCEPT ![t] = a.mode]
        /\ seen' = [seen EXCEPT ![t] = NoMode]
    BY <1>2 DEF Use
  <2> QED
    BY <1>1, <2>1 DEF CTypeOK, Use, Access
<1>3. CASE a.op = "value"
  <2>1. /\ UNCHANGED <<mode, wanted>>
        /\ seen' = [seen EXCEPT ![t] = mode[d]]
    BY <1>3 DEF Use
  <2> QED
    BY <1>1, <2>1 DEF CTypeOK, Use
<1>4. CASE a.op = "other"
  <2>1. UNCHANGED <<mode, wanted, seen>>
    BY <1>4 DEF Use
  <2> QED
    BY <1>1, <2>1 DEF CTypeOK, Use
<1> QED
  BY <1>1, <1>2, <1>3, <1>4 DEF Access

LEMMA ControlStep == CInv /\ [CNext]_cvars => CInv'
<1> SUFFICES ASSUME CInv, [CNext]_cvars PROVE CInv'
  OBVIOUS
<1>0. \A u \in Threads : stmt[u].dev \in Devices
  BY ControlAssumption DEF ControlAssumption, CInv, CTypeOK
<1>1. ASSUME NEW t \in Threads, NEW s \in Statements, Ask(t, s)
      PROVE  CInv'
  BY <1>1 DEF CInv, CTypeOK, Owning, KeepsMode, Unused, ValueOfMode, Ask
<1>2. ASSUME NEW t \in Threads, Handle(t)
      PROVE  CInv'
  <2>1. CTypeOK' /\ Owning'
    BY <1>0, <1>2, ControlAssumption
       DEF ControlAssumption, CInv, CTypeOK, Owning, Handle
  <2>2. KeepsMode' /\ Unused' /\ ValueOfMode'
    BY <1>2 DEF CInv, CTypeOK, KeepsMode, Unused, ValueOfMode, Handle
  <2> QED
    BY <2>1, <2>2 DEF CInv
<1>3. ASSUME NEW t \in Threads, Use(t)
      PROVE  CInv'
  <2>1. at[t] = "hold"
    BY <1>3 DEF Use
  \* The other threads are at other devices.
  <2>2. \A u \in Threads \ {t} : at[u] = "hold" => stmt[u].dev # stmt[t].dev
    BY <2>1 DEF CInv, Owning
  <2>3. CTypeOK' /\ Owning'
    BY <1>3, UseEffect DEF CInv, Owning
  <2>4. KeepsMode' /\ Unused' /\ ValueOfMode'
    BY <1>0, <1>3, <2>1, <2>2, UseEffect DEF CInv, KeepsMode, Unused, ValueOfMode
  <2> QED
    BY <2>3, <2>4 DEF CInv
<1>4. ASSUME NEW t \in Threads, Release(t)
      PROVE  CInv'
  <2>1. CTypeOK'
    BY <1>0, <1>4 DEF CInv, CTypeOK, Release
  <2>2. Owning'
    BY <1>0, <1>4 DEF CInv, CTypeOK, Owning, Release
  <2>3. KeepsMode' /\ Unused' /\ ValueOfMode'
    BY <1>4 DEF CInv, CTypeOK, KeepsMode, Unused, ValueOfMode, Release
  <2> QED
    BY <2>1, <2>2, <2>3 DEF CInv
<1>5. CASE UNCHANGED cvars
  BY <1>5 DEF cvars, CInv, CTypeOK, Owning, KeepsMode, Unused, ValueOfMode
<1> QED
  BY <1>1, <1>2, <1>3, <1>4, <1>5 DEF CNext

------------------------------------------------------------------------------
\* Whatever threads do with handles, no two are at one device at a time.
THEOREM ExclusiveAccessHolds == CSpec => []ExclusiveAccess
<1>1. CInv => ExclusiveAccess
  BY DEF CInv, Owning, ExclusiveAccess
<1> QED
  BY <1>1, ControlInit, ControlStep, PTL DEF CSpec

\* Whatever other threads do, a method of a sensor reads its value in the mode
\* that it has set.
THEOREM ValueOfModeHolds == CSpec => []ValueOfMode
<1>1. CInv => ValueOfMode
  BY DEF CInv
<1> QED
  BY <1>1, ControlInit, ControlStep, PTL DEF CSpec
==============================================================================
