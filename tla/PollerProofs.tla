---------------------------- MODULE PollerProofs ----------------------------
(***************************************************************************)
(* Proofs about Poller, for any number of consumers and of fields, any set *)
(* of values and any comparison of readings.                               *)
(***************************************************************************)
EXTENDS Poller, TLAPS

(* The inductive invariant.                                                *)

\* Who owns swap_mutex_ follows from where the threads are.
MutexInv ==
    /\ swap_mutex = Worker <=> wpc \in {"flip", "raise"}
    /\ \A c \in Consumers : swap_mutex = c <=> cpc[c] \in {"test", "copy"}

\* `shadow', bound before the update, still denotes the shadow buffer.
RefInv == wpc \in {"update", "lock", "flip"} => wref = shadow_idx

\* A copy in progress is one of the visible buffer, with nothing torn.
CopyInv ==
    \A c \in Consumers : cpc[c] = "copy" =>
        /\ src[c] = 1 - shadow_idx
        /\ \A f \in 1 .. cfield[c] - 1 : dst[c][f] = Visible[f]

\* Between the comparison and the notification the buffers differ.
DiffInv ==
    /\ wpc \in {"lock", "flip"} => ~Same(buffers[shadow_idx], Visible)
    /\ wpc = "raise" => ~Same(Visible, buffers[shadow_idx])

\* Only a call with a timeout expires; only such a call copies an old reading.
TimeoutInv ==
    \A c \in Consumers :
        /\ cpc[c] = "expired" => timed[c]
        /\ cpc[c] = "copy" /\ ~timed[c] => new_data

IInv == TypeOK /\ MutexInv /\ RefInv /\ CopyInv /\ DiffInv /\ TimeoutInv
------------------------------------------------------------------------------
(* Types.                                                                  *)

LEMMA NumFieldsType == NumFields \in Nat \ {0}
BY DataAssumption DEF DataAssumption

LEMMA TypeInit == Init => TypeOK
<1> SUFFICES ASSUME Init PROVE TypeOK
  OBVIOUS
<1>1. buffers \in [{0, 1} -> Data]
  BY DEF Init
<1>2. wfield \in 1 .. NumFields + 1 /\ wpc \in WorkerPC
  BY NumFieldsType DEF Init, WorkerPC
<1>3. cfield \in [Consumers -> 1 .. NumFields + 1]
  BY NumFieldsType DEF Init
<1>4. cpc \in [Consumers -> ConsumerPC]
  BY DEF Init, ConsumerPC
<1> QED
  BY <1>1, <1>2, <1>3, <1>4 DEF Init, TypeOK

LEMMA TypeStep == TypeOK /\ [Next]_vars => TypeOK'
<1> SUFFICES ASSUME TypeOK, [Next]_vars PROVE TypeOK'
  OBVIOUS
<1> USE NumFieldsType DEF TypeOK, shared, wvars, cvars
<1>1. CASE SensorChange
  BY <1>1 DEF SensorChange, Data, Field
<1>2. CASE End
  BY <1>2 DEF End, WorkerPC, ConsumerPC
<1>3. CASE CallWork
  BY <1>3 DEF CallWork, WorkerPC, ConsumerPC
<1>4. CASE SetWorking
  BY <1>4 DEF SetWorking, WorkerPC, ConsumerPC
<1>5. CASE Loop
  BY <1>5 DEF Loop, WorkerPC, ConsumerPC
<1>6. CASE ReadField
  <2>1. sensor[wfield] \in Value
    BY <1>6 DEF ReadField, Data, Field
  <2>2. [buffers[wref] EXCEPT ![wfield] = sensor[wfield]] \in Data
    BY <1>6, <2>1 DEF ReadField, Data, Field
  <2>3. buffers' \in [{0, 1} -> Data]
    BY <1>6, <2>2 DEF ReadField
  <2>4. wfield' \in 1 .. NumFields + 1
    BY <1>6 DEF ReadField, Field
  <2> QED
    BY <1>6, <2>3, <2>4 DEF ReadField, WorkerPC
<1>7. CASE ReadThrows
  BY <1>7 DEF ReadThrows, Unbind, WorkerPC, ConsumerPC
<1>8. CASE Compare
  BY <1>8 DEF Compare, Unbind, WorkerPC, ConsumerPC
<1>9. CASE LockSwap
  BY <1>9 DEF LockSwap, WorkerPC, ConsumerPC
<1>10. CASE Flip
  BY <1>10 DEF Flip, WorkerPC, ConsumerPC
<1>11. CASE Raise
  BY <1>11 DEF Raise, WorkerPC, ConsumerPC
<1>12. CASE Notify
  BY <1>12 DEF Notify, Unbind, WorkerPC, ConsumerPC
<1>13. CASE Sleep
  BY <1>13 DEF Sleep, WorkerPC, ConsumerPC
<1>14. ASSUME NEW c \in Consumers, CallCopyTo(c)
      PROVE  TypeOK'
  BY <1>14 DEF CallCopyTo, WorkerPC, ConsumerPC
<1>15. ASSUME NEW c \in Consumers, LockCopy(c)
      PROVE  TypeOK'
  BY <1>15 DEF LockCopy, StartCopy, WorkerPC, ConsumerPC
<1>16. ASSUME NEW c \in Consumers, Test(c)
      PROVE  TypeOK'
  BY <1>16 DEF Test, StartCopy, WorkerPC, ConsumerPC
<1>17. ASSUME NEW c \in Consumers, SpuriousWake(c)
      PROVE  TypeOK'
  BY <1>17 DEF SpuriousWake, WorkerPC, ConsumerPC
<1>18. ASSUME NEW c \in Consumers, Timeout(c)
      PROVE  TypeOK'
  BY <1>18 DEF Timeout, WorkerPC, ConsumerPC
<1>19. ASSUME NEW c \in Consumers, CopyField(c)
      PROVE  TypeOK'
  BY <1>19 DEF CopyField, Data, Field
<1>20. ASSUME NEW c \in Consumers, FinishCopy(c)
      PROVE  TypeOK'
  <2>1. cfield' \in [Consumers -> 1 .. NumFields + 1]
    BY <1>20 DEF FinishCopy, Leave
  <2>2. cpc' \in [Consumers -> ConsumerPC] /\ timed' \in [Consumers -> BOOLEAN]
    BY <1>20 DEF FinishCopy, Leave, ConsumerPC
  <2> QED
    BY <1>20, <2>1, <2>2 DEF FinishCopy, Leave
<1>21. CASE UNCHANGED vars
  BY <1>21 DEF vars
<1> QED
  BY <1>1, <1>2, <1>3, <1>4, <1>5, <1>6, <1>7, <1>8, <1>9, <1>10, <1>11,
     <1>12, <1>13, <1>14, <1>15, <1>16, <1>17, <1>18, <1>19, <1>20, <1>21
     DEF Next

\* Every variable keeps its type, for any number of consumers and fields.
THEOREM TypeCorrect == Spec => []TypeOK
BY TypeInit, TypeStep, PTL DEF Spec

------------------------------------------------------------------------------
(* The parts of the inductive invariant.                                   *)

LEMMA MutexStep == TypeOK /\ MutexInv /\ [Next]_vars => MutexInv'
<1> SUFFICES ASSUME TypeOK, MutexInv, [Next]_vars PROVE MutexInv'
  OBVIOUS
<1> USE ThreadsAssumption DEF ThreadsAssumption, TypeOK, MutexInv,
                              shared, wvars, cvars
<1>1. CASE SensorChange
  BY <1>1 DEF SensorChange
<1>2. CASE End
  BY <1>2 DEF End
<1>3. CASE CallWork
  BY <1>3 DEF CallWork
<1>4. CASE SetWorking
  BY <1>4 DEF SetWorking
<1>5. CASE Loop
  BY <1>5 DEF Loop
<1>6. CASE ReadField
  BY <1>6 DEF ReadField
<1>7. CASE ReadThrows
  BY <1>7 DEF ReadThrows, Unbind
<1>8. CASE Compare
  BY <1>8 DEF Compare, Unbind
<1>9. CASE LockSwap
  BY <1>9 DEF LockSwap
<1>10. CASE Flip
  BY <1>10 DEF Flip
<1>11. CASE Raise
  BY <1>11 DEF Raise
<1>12. CASE Notify
  BY <1>12 DEF Notify, Unbind
<1>13. CASE Sleep
  BY <1>13 DEF Sleep
<1>14. ASSUME NEW c \in Consumers, CallCopyTo(c)
      PROVE  MutexInv'
  BY <1>14 DEF CallCopyTo
<1>15. ASSUME NEW c \in Consumers, LockCopy(c)
      PROVE  MutexInv'
  BY <1>15 DEF LockCopy, StartCopy
<1>16. ASSUME NEW c \in Consumers, Test(c)
      PROVE  MutexInv'
  BY <1>16 DEF Test, StartCopy
<1>17. ASSUME NEW c \in Consumers, SpuriousWake(c)
      PROVE  MutexInv'
  BY <1>17 DEF SpuriousWake
<1>18. ASSUME NEW c \in Consumers, Timeout(c)
      PROVE  MutexInv'
  BY <1>18 DEF Timeout
<1>19. ASSUME NEW c \in Consumers, CopyField(c)
      PROVE  MutexInv'
  BY <1>19 DEF CopyField
<1>20. ASSUME NEW c \in Consumers, FinishCopy(c)
      PROVE  MutexInv'
  BY <1>20 DEF FinishCopy, Leave
<1>21. CASE UNCHANGED vars
  BY <1>21 DEF vars
<1> QED
  BY <1>1, <1>2, <1>3, <1>4, <1>5, <1>6, <1>7, <1>8, <1>9, <1>10, <1>11,
     <1>12, <1>13, <1>14, <1>15, <1>16, <1>17, <1>18, <1>19, <1>20, <1>21
     DEF Next

LEMMA RefStep == RefInv /\ [Next]_vars => RefInv'
<1> SUFFICES ASSUME RefInv, [Next]_vars PROVE RefInv'
  OBVIOUS
<1> USE DEF RefInv, shared, wvars, cvars
<1>1. CASE SensorChange
  BY <1>1 DEF SensorChange
<1>2. CASE End
  BY <1>2 DEF End
<1>3. CASE CallWork
  BY <1>3 DEF CallWork
<1>4. CASE SetWorking
  BY <1>4 DEF SetWorking
<1>5. CASE Loop
  BY <1>5 DEF Loop
<1>6. CASE ReadField
  BY <1>6 DEF ReadField
<1>7. CASE ReadThrows
  BY <1>7 DEF ReadThrows, Unbind
<1>8. CASE Compare
  BY <1>8 DEF Compare, Unbind
<1>9. CASE LockSwap
  BY <1>9 DEF LockSwap
<1>10. CASE Flip
  BY <1>10 DEF Flip
<1>11. CASE Raise
  BY <1>11 DEF Raise
<1>12. CASE Notify
  BY <1>12 DEF Notify, Unbind
<1>13. CASE Sleep
  BY <1>13 DEF Sleep
<1>14. ASSUME NEW c \in Consumers, CallCopyTo(c)
      PROVE  RefInv'
  BY <1>14 DEF CallCopyTo
<1>15. ASSUME NEW c \in Consumers, LockCopy(c)
      PROVE  RefInv'
  BY <1>15 DEF LockCopy, StartCopy
<1>16. ASSUME NEW c \in Consumers, Test(c)
      PROVE  RefInv'
  BY <1>16 DEF Test, StartCopy
<1>17. ASSUME NEW c \in Consumers, SpuriousWake(c)
      PROVE  RefInv'
  BY <1>17 DEF SpuriousWake
<1>18. ASSUME NEW c \in Consumers, Timeout(c)
      PROVE  RefInv'
  BY <1>18 DEF Timeout
<1>19. ASSUME NEW c \in Consumers, CopyField(c)
      PROVE  RefInv'
  BY <1>19 DEF CopyField
<1>20. ASSUME NEW c \in Consumers, FinishCopy(c)
      PROVE  RefInv'
  BY <1>20 DEF FinishCopy, Leave
<1>21. CASE UNCHANGED vars
  BY <1>21 DEF vars
<1> QED
  BY <1>1, <1>2, <1>3, <1>4, <1>5, <1>6, <1>7, <1>8, <1>9, <1>10, <1>11,
     <1>12, <1>13, <1>14, <1>15, <1>16, <1>17, <1>18, <1>19, <1>20, <1>21
     DEF Next

\* The worker writes the buffer that nobody copies (ReadField), and the
\* buffers change roles only while nobody copies (Flip).
LEMMA CopyStep ==
    TypeOK /\ MutexInv /\ RefInv /\ CopyInv /\ [Next]_vars => CopyInv'
<1> SUFFICES ASSUME TypeOK, MutexInv, RefInv, CopyInv, [Next]_vars
             PROVE  CopyInv'
  OBVIOUS
<1> USE DEF TypeOK, CopyInv, Visible, shared, wvars, cvars
<1>1. CASE SensorChange
  BY <1>1 DEF SensorChange
<1>2. CASE End
  BY <1>2 DEF End
<1>3. CASE CallWork
  BY <1>3 DEF CallWork
<1>4. CASE SetWorking
  BY <1>4 DEF SetWorking
<1>5. CASE Loop
  BY <1>5 DEF Loop
<1>6. CASE ReadField
  BY <1>6 DEF ReadField, RefInv
<1>7. CASE ReadThrows
  BY <1>7 DEF ReadThrows, Unbind
<1>8. CASE Compare
  BY <1>8 DEF Compare, Unbind
<1>9. CASE LockSwap
  BY <1>9 DEF LockSwap
<1>10. CASE Flip
  <2>1. \A c \in Consumers : cpc[c] # "copy"
    BY <1>10, ThreadsAssumption DEF Flip, MutexInv, ThreadsAssumption
  <2> QED
    BY <1>10, <2>1 DEF Flip
<1>11. CASE Raise
  BY <1>11 DEF Raise
<1>12. CASE Notify
  BY <1>12 DEF Notify, Unbind
<1>13. CASE Sleep
  BY <1>13 DEF Sleep
<1>14. ASSUME NEW c \in Consumers, CallCopyTo(c)
      PROVE  CopyInv'
  BY <1>14 DEF CallCopyTo
<1>15. ASSUME NEW c \in Consumers, LockCopy(c)
      PROVE  CopyInv'
  BY <1>15 DEF LockCopy, StartCopy
<1>16. ASSUME NEW c \in Consumers, Test(c)
      PROVE  CopyInv'
  BY <1>16 DEF Test, StartCopy
<1>17. ASSUME NEW c \in Consumers, SpuriousWake(c)
      PROVE  CopyInv'
  BY <1>17 DEF SpuriousWake
<1>18. ASSUME NEW c \in Consumers, Timeout(c)
      PROVE  CopyInv'
  BY <1>18 DEF Timeout
<1>19. ASSUME NEW c \in Consumers, CopyField(c)
      PROVE  CopyInv'
  <2>1. \A d \in Consumers \ {c} : dst'[d] = dst[d] /\ cfield'[d] = cfield[d]
    BY <1>19 DEF CopyField
  <2>2. dst'[c] = [dst[c] EXCEPT ![cfield[c]] = Visible[cfield[c]]]
    BY <1>19 DEF CopyField
  <2>3. \A f \in 1 .. cfield'[c] - 1 : f \in 1 .. cfield[c] - 1 \/ f = cfield[c]
    BY <1>19 DEF CopyField
  <2>4. dst[c] \in [Field -> Value] /\ cfield[c] \in Field
    BY <1>19 DEF CopyField, Data
  <2>5. 1 .. cfield[c] - 1 \subseteq Field
    BY <2>4, NumFieldsType DEF Field
  <2>6. \A f \in 1 .. cfield[c] - 1 : dst[c][f] = Visible[f] /\ f # cfield[c]
    BY <1>19 DEF CopyField
  <2>7. \A f \in 1 .. cfield'[c] - 1 : dst'[c][f] = Visible[f]
    BY <2>2, <2>3, <2>4, <2>5, <2>6
  <2> QED
    BY <1>19, <2>1, <2>7 DEF CopyField
<1>20. ASSUME NEW c \in Consumers, FinishCopy(c)
      PROVE  CopyInv'
  BY <1>20 DEF FinishCopy, Leave
<1>21. CASE UNCHANGED vars
  BY <1>21 DEF vars
<1> QED
  BY <1>1, <1>2, <1>3, <1>4, <1>5, <1>6, <1>7, <1>8, <1>9, <1>10, <1>11,
     <1>12, <1>13, <1>14, <1>15, <1>16, <1>17, <1>18, <1>19, <1>20, <1>21
     DEF Next

LEMMA DiffStep ==
    TypeOK /\ RefInv /\ DiffInv /\ [Next]_vars => DiffInv'
<1> SUFFICES ASSUME TypeOK, RefInv, DiffInv, [Next]_vars PROVE DiffInv'
  OBVIOUS
<1> USE DEF TypeOK, RefInv, DiffInv, Visible, shared, wvars, cvars
<1>1. CASE SensorChange
  BY <1>1 DEF SensorChange
<1>2. CASE End
  BY <1>2 DEF End
<1>3. CASE CallWork
  BY <1>3 DEF CallWork
<1>4. CASE SetWorking
  BY <1>4 DEF SetWorking
<1>5. CASE Loop
  BY <1>5 DEF Loop
<1>6. CASE ReadField
  BY <1>6 DEF ReadField
<1>7. CASE ReadThrows
  BY <1>7 DEF ReadThrows, Unbind
<1>8. CASE Compare
  BY <1>8 DEF Compare, Unbind
<1>9. CASE LockSwap
  BY <1>9 DEF LockSwap
<1>10. CASE Flip
  BY <1>10 DEF Flip
<1>11. CASE Raise
  BY <1>11 DEF Raise
<1>12. CASE Notify
  BY <1>12 DEF Notify, Unbind
<1>13. CASE Sleep
  BY <1>13 DEF Sleep
<1>14. ASSUME NEW c \in Consumers, CallCopyTo(c)
      PROVE  DiffInv'
  BY <1>14 DEF CallCopyTo
<1>15. ASSUME NEW c \in Consumers, LockCopy(c)
      PROVE  DiffInv'
  BY <1>15 DEF LockCopy, StartCopy
<1>16. ASSUME NEW c \in Consumers, Test(c)
      PROVE  DiffInv'
  BY <1>16 DEF Test, StartCopy
<1>17. ASSUME NEW c \in Consumers, SpuriousWake(c)
      PROVE  DiffInv'
  BY <1>17 DEF SpuriousWake
<1>18. ASSUME NEW c \in Consumers, Timeout(c)
      PROVE  DiffInv'
  BY <1>18 DEF Timeout
<1>19. ASSUME NEW c \in Consumers, CopyField(c)
      PROVE  DiffInv'
  BY <1>19 DEF CopyField
<1>20. ASSUME NEW c \in Consumers, FinishCopy(c)
      PROVE  DiffInv'
  BY <1>20 DEF FinishCopy, Leave
<1>21. CASE UNCHANGED vars
  BY <1>21 DEF vars
<1> QED
  BY <1>1, <1>2, <1>3, <1>4, <1>5, <1>6, <1>7, <1>8, <1>9, <1>10, <1>11,
     <1>12, <1>13, <1>14, <1>15, <1>16, <1>17, <1>18, <1>19, <1>20, <1>21
     DEF Next

LEMMA TimeoutStep ==
    TypeOK /\ MutexInv /\ TimeoutInv /\ [Next]_vars => TimeoutInv'
<1> SUFFICES ASSUME TypeOK, MutexInv, TimeoutInv, [Next]_vars
             PROVE  TimeoutInv'
  OBVIOUS
<1> USE DEF TypeOK, TimeoutInv, shared, wvars, cvars
<1>1. CASE SensorChange
  BY <1>1 DEF SensorChange
<1>2. CASE End
  BY <1>2 DEF End
<1>3. CASE CallWork
  BY <1>3 DEF CallWork
<1>4. CASE SetWorking
  BY <1>4 DEF SetWorking
<1>5. CASE Loop
  BY <1>5 DEF Loop
<1>6. CASE ReadField
  BY <1>6 DEF ReadField
<1>7. CASE ReadThrows
  BY <1>7 DEF ReadThrows, Unbind
<1>8. CASE Compare
  BY <1>8 DEF Compare, Unbind
<1>9. CASE LockSwap
  BY <1>9 DEF LockSwap
<1>10. CASE Flip
  BY <1>10 DEF Flip
<1>11. CASE Raise
  BY <1>11 DEF Raise
<1>12. CASE Notify
  BY <1>12 DEF Notify, Unbind
<1>13. CASE Sleep
  BY <1>13 DEF Sleep
<1>14. ASSUME NEW c \in Consumers, CallCopyTo(c)
      PROVE  TimeoutInv'
  BY <1>14 DEF CallCopyTo
<1>15. ASSUME NEW c \in Consumers, LockCopy(c)
      PROVE  TimeoutInv'
  BY <1>15 DEF LockCopy, StartCopy
<1>16. ASSUME NEW c \in Consumers, Test(c)
      PROVE  TimeoutInv'
  BY <1>16 DEF Test, StartCopy
<1>17. ASSUME NEW c \in Consumers, SpuriousWake(c)
      PROVE  TimeoutInv'
  BY <1>17 DEF SpuriousWake
<1>18. ASSUME NEW c \in Consumers, Timeout(c)
      PROVE  TimeoutInv'
  BY <1>18 DEF Timeout
<1>19. ASSUME NEW c \in Consumers, CopyField(c)
      PROVE  TimeoutInv'
  BY <1>19 DEF CopyField
<1>20. ASSUME NEW c \in Consumers, FinishCopy(c)
      PROVE  TimeoutInv'
  BY <1>20 DEF FinishCopy, Leave, MutexInv
<1>21. CASE UNCHANGED vars
  BY <1>21 DEF vars
<1> QED
  BY <1>1, <1>2, <1>3, <1>4, <1>5, <1>6, <1>7, <1>8, <1>9, <1>10, <1>11,
     <1>12, <1>13, <1>14, <1>15, <1>16, <1>17, <1>18, <1>19, <1>20, <1>21
     DEF Next

LEMMA InvInit == Init => IInv
<1> SUFFICES ASSUME Init PROVE IInv
  OBVIOUS
<1>1. TypeOK
  BY TypeInit
<1>2. MutexInv
  BY ThreadsAssumption DEF ThreadsAssumption, Init, MutexInv
<1>3. RefInv /\ CopyInv /\ DiffInv /\ TimeoutInv
  BY DEF Init, RefInv, CopyInv, DiffInv, TimeoutInv
<1> QED
  BY <1>1, <1>2, <1>3 DEF IInv

LEMMA InvStep == IInv /\ [Next]_vars => IInv'
BY TypeStep, MutexStep, RefStep, CopyStep, DiffStep, TimeoutStep DEF IInv

THEOREM Invariance == Spec => []IInv
BY InvInit, InvStep, PTL DEF Spec

------------------------------------------------------------------------------
(* Safety.                                                                 *)

\* The worker never writes the buffer that a consumer copies.
THEOREM NoRaceHolds == Spec => []NoRace
<1>1. IInv => NoRace
  BY DEF IInv, TypeOK, RefInv, CopyInv, NoRace
<1> QED
  BY <1>1, Invariance, PTL

\* No caller of copyTo gets fields of two different readings.
THEOREM CopyIntactHolds == Spec => []CopyIntact
<1>1. IInv => CopyIntact
  BY DEF IInv, CopyInv, CopyIntact
<1> QED
  BY <1>1, Invariance, PTL

\* Without a timeout, copyTo yields only what nobody has taken yet.
THEOREM UntimedGetsFreshHolds == Spec => []UntimedGetsFresh
<1>1. IInv => UntimedGetsFresh
  BY DEF IInv, TimeoutInv, UntimedGetsFresh
<1> QED
  BY <1>1, Invariance, PTL

LEMMA NoLostWakeupStep ==
    TypeOK /\ NoLostWakeup /\ [Next]_vars => NoLostWakeup'
<1> SUFFICES ASSUME TypeOK, NoLostWakeup, [Next]_vars PROVE NoLostWakeup'
  OBVIOUS
<1> USE DEF TypeOK, NoLostWakeup, shared, wvars, cvars
<1>1. CASE SensorChange
  BY <1>1 DEF SensorChange
<1>2. CASE End
  BY <1>2 DEF End
<1>3. CASE CallWork
  BY <1>3 DEF CallWork
<1>4. CASE SetWorking
  BY <1>4 DEF SetWorking
<1>5. CASE Loop
  BY <1>5 DEF Loop
<1>6. CASE ReadField
  BY <1>6 DEF ReadField
<1>7. CASE ReadThrows
  BY <1>7 DEF ReadThrows, Unbind
<1>8. CASE Compare
  BY <1>8 DEF Compare, Unbind
<1>9. CASE LockSwap
  BY <1>9 DEF LockSwap
<1>10. CASE Flip
  BY <1>10 DEF Flip
<1>11. CASE Raise
  BY <1>11 DEF Raise
<1>12. CASE Notify
  BY <1>12 DEF Notify, Unbind
<1>13. CASE Sleep
  BY <1>13 DEF Sleep
<1>14. ASSUME NEW c \in Consumers, CallCopyTo(c)
      PROVE  NoLostWakeup'
  BY <1>14 DEF CallCopyTo
<1>15. ASSUME NEW c \in Consumers, LockCopy(c)
      PROVE  NoLostWakeup'
  BY <1>15 DEF LockCopy, StartCopy
<1>16. ASSUME NEW c \in Consumers, Test(c)
      PROVE  NoLostWakeup'
  BY <1>16 DEF Test, StartCopy
<1>17. ASSUME NEW c \in Consumers, SpuriousWake(c)
      PROVE  NoLostWakeup'
  BY <1>17 DEF SpuriousWake
<1>18. ASSUME NEW c \in Consumers, Timeout(c)
      PROVE  NoLostWakeup'
  BY <1>18 DEF Timeout
<1>19. ASSUME NEW c \in Consumers, CopyField(c)
      PROVE  NoLostWakeup'
  BY <1>19 DEF CopyField
<1>20. ASSUME NEW c \in Consumers, FinishCopy(c)
      PROVE  NoLostWakeup'
  BY <1>20 DEF FinishCopy, Leave
<1>21. CASE UNCHANGED vars
  BY <1>21 DEF vars
<1> QED
  BY <1>1, <1>2, <1>3, <1>4, <1>5, <1>6, <1>7, <1>8, <1>9, <1>10, <1>11,
     <1>12, <1>13, <1>14, <1>15, <1>16, <1>17, <1>18, <1>19, <1>20, <1>21
     DEF Next

\* Although notify_one is called without the mutex, a reading that is announced
\* while consumers wait always has a thread on its way to take it.
THEOREM NoLostWakeupHolds == Spec => []NoLostWakeup
<1>1. Init => NoLostWakeup
  BY DEF Init, NoLostWakeup
<1>2. TypeOK /\ NoLostWakeup /\ [Next]_vars => NoLostWakeup'
  BY NoLostWakeupStep
<1> QED
  BY <1>1, <1>2, TypeCorrect, PTL DEF Spec

------------------------------------------------------------------------------
(* Refinement.  The slot changes only in Raise, a call begins in CallCopyTo *)
(* and takes effect in FinishCopy; every other step is a stuttering step.  *)

LEMMA ChanInit == Init => Chan!Init
<1> SUFFICES ASSUME Init PROVE Chan!Init
  OBVIOUS
<1>1. Slot \in Data /\ new_data = FALSE
  BY DEF Init, Slot, Visible
<1>2. Mode = [c \in Consumers |-> "idle"]
  BY DEF Init, Mode
<1>3. Got \in [Consumers -> Data]
  BY DEF Init, Got
<1> QED
  BY <1>1, <1>2, <1>3 DEF Chan!Init, Slot, Mode, Got

\* The steps that the channel does not show.
Silent ==
    \/ SensorChange \/ End \/ CallWork \/ SetWorking \/ Loop \/ ReadField
    \/ ReadThrows \/ Compare \/ LockSwap \/ Flip \/ Notify \/ Sleep
    \/ \E c \in Consumers : \/ LockCopy(c) \/ Test(c) \/ SpuriousWake(c)
                            \/ Timeout(c) \/ CopyField(c)

LEMMA SilentStutters ==
    ASSUME IInv, Silent
    PROVE  Slot' = Slot /\ new_data' = new_data /\ Mode' = Mode /\ Got' = Got
<1> USE DEF IInv, TypeOK, Visible, Slot, Mode, Got, shared, wvars, cvars
<1>1. CASE SensorChange
  BY <1>1 DEF SensorChange
<1>2. CASE End
  BY <1>2 DEF End
<1>3. CASE CallWork
  BY <1>3 DEF CallWork
<1>4. CASE SetWorking
  BY <1>4 DEF SetWorking
<1>5. CASE Loop
  BY <1>5 DEF Loop
<1>6. CASE ReadField
  BY <1>6 DEF ReadField, RefInv
<1>7. CASE ReadThrows
  BY <1>7 DEF ReadThrows, Unbind
<1>8. CASE Compare
  BY <1>8 DEF Compare, Unbind
<1>9. CASE LockSwap
  BY <1>9 DEF LockSwap
<1>10. CASE Flip
  BY <1>10 DEF Flip
<1>11. CASE Notify
  BY <1>11 DEF Notify, Unbind
<1>12. CASE Sleep
  BY <1>12 DEF Sleep
<1>13. ASSUME NEW c \in Consumers, LockCopy(c) \/ Test(c)
       PROVE  Slot' = Slot /\ new_data' = new_data /\ Mode' = Mode /\ Got' = Got
  BY <1>13 DEF LockCopy, Test, StartCopy
<1>14. ASSUME NEW c \in Consumers, SpuriousWake(c) \/ Timeout(c)
       PROVE  Slot' = Slot /\ new_data' = new_data /\ Mode' = Mode /\ Got' = Got
  BY <1>14 DEF SpuriousWake, Timeout
<1>15. ASSUME NEW c \in Consumers, CopyField(c)
       PROVE  Slot' = Slot /\ new_data' = new_data /\ Mode' = Mode /\ Got' = Got
  BY <1>15 DEF CopyField
<1> QED
  BY <1>1, <1>2, <1>3, <1>4, <1>5, <1>6, <1>7, <1>8, <1>9, <1>10, <1>11,
     <1>12, <1>13, <1>14, <1>15 DEF Silent

LEMMA RaisePublishes == ASSUME IInv, Raise PROVE Chan!Publish
<1> USE DEF IInv, TypeOK, Visible, Slot, Mode, Got, cvars
<1>1. Slot' \in Data /\ ~Same(Slot', Slot) /\ new_data' = TRUE
  BY DEF Raise, DiffInv
<1>2. Mode' = Mode /\ Got' = Got
  BY DEF Raise
<1> QED
  BY <1>1, <1>2 DEF Chan!Publish

LEMMA CallCopyToCalls ==
    ASSUME IInv, NEW c \in Consumers, CallCopyTo(c)
    PROVE  Chan!Call(c, IF timed'[c] THEN "timed" ELSE "untimed")
<1> USE DEF IInv, TypeOK, Visible, Slot, Mode, Got, shared, wvars
<1>1. PICK t \in BOOLEAN : timed' = [timed EXCEPT ![c] = t]
  BY DEF CallCopyTo
<1> DEFINE kind == IF t THEN "timed" ELSE "untimed"
<1>2. Slot' = Slot /\ new_data' = new_data /\ Mode[c] = "idle"
  BY DEF CallCopyTo
<1>3. Mode' = [Mode EXCEPT ![c] = kind]
  BY <1>1 DEF CallCopyTo
<1>4. Got' = [Got EXCEPT ![c] = Pending]
  BY DEF CallCopyTo
<1>5. timed'[c] = t
  BY <1>1
<1> HIDE DEF IInv, TypeOK, Visible, Slot, Mode, Got, shared, wvars
<1> QED
  BY <1>2, <1>3, <1>4, <1>5 DEF Chan!Call

\* What has been copied is the slot, and only the flag or a timeout led here.
LEMMA FinishCopyReturns ==
    ASSUME IInv, NEW c \in Consumers, FinishCopy(c)
    PROVE  Chan!Return(c)
<1> USE DEF IInv, TypeOK, Visible, Slot, Mode, Got, wvars, FinishCopy, Leave
<1>1. Slot = Visible /\ Slot' = Slot
  BY ThreadsAssumption DEF MutexInv, ThreadsAssumption
<1>2. dst[c] = Visible
  <2>1. dst[c] \in [Field -> Value] /\ Visible \in [Field -> Value]
    BY DEF Data
  <2>2. \A f \in Field : dst[c][f] = Visible[f]
    BY NumFieldsType DEF CopyInv, Field
  <2> QED
    BY <2>1, <2>2
<1>3. Got' = [Got EXCEPT ![c] = Slot]
  BY <1>1, <1>2
<1>4. Mode' = [Mode EXCEPT ![c] = "idle"] /\ Mode[c] # "idle"
  OBVIOUS
<1>5. Mode[c] = "untimed" => new_data
  BY DEF TimeoutInv
<1>6. new_data' = FALSE
  OBVIOUS
<1> QED
  BY <1>1, <1>3, <1>4, <1>5, <1>6 DEF Chan!Return

LEMMA ChanStep == IInv /\ [Next]_vars => [Chan!Next]_(Chan!vars)
<1> SUFFICES ASSUME IInv, [Next]_vars PROVE [Chan!Next]_(Chan!vars)
  OBVIOUS
<1>1. CASE Silent
  BY <1>1, SilentStutters DEF Chan!vars
<1>2. CASE Raise
  BY <1>2, RaisePublishes DEF Chan!Next
<1>3. ASSUME NEW c \in Consumers, CallCopyTo(c)
      PROVE  Chan!Next
  BY <1>3, CallCopyToCalls DEF Chan!Next
<1>4. ASSUME NEW c \in Consumers, FinishCopy(c)
      PROVE  Chan!Next
  BY <1>4, FinishCopyReturns DEF Chan!Next
<1>5. CASE UNCHANGED vars
  BY <1>5 DEF vars, Chan!vars, Slot, Mode, Got, Visible
<1> QED
  BY <1>1, <1>2, <1>3, <1>4, <1>5 DEF Next, Silent

\* The double buffer, the mutex, the flag and the condition variable together
\* behave as a single slot that is published and taken atomically.
THEOREM Refinement == Spec => ImplementsChannel
<1>1. Init => Chan!Init
  BY ChanInit
<1>2. IInv /\ [Next]_vars => [Chan!Next]_(Chan!vars)
  BY ChanStep
<1> QED
  BY <1>1, <1>2, Invariance, PTL DEF Spec, ImplementsChannel, Chan!Spec
=============================================================================
