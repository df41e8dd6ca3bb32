---------------------------- MODULE ProgramProofs ----------------------------
(***************************************************************************)
(* Proofs about Program: a program with the poller as it is behaves like   *)
(* one with the channel, for any machine, readings and comparison.  What    *)
(* was proved of Application, of EventLoop and of Poller thus holds of the  *)
(* program that is put together from them.                                  *)
(***************************************************************************)
EXTENDS Program, PollerProofs

(* The inductive invariant: that of Poller, and where the threads are.     *)

\* The machine waits for copyTo while it is in copyTo, and work() is called
\* after main() has started.
Link ==
    /\ lpc = "wait" <=> cpc[Runner] # "out"
    /\ main = "start" => wpc = "off"

ProgInv == IInv /\ Link

LEMMA RunnerIs == Runner \in Consumers /\ \A c \in Consumers : c = Runner
BY RunnerAssumption DEF RunnerAssumption

------------------------------------------------------------------------------
(* What Poller promises.                                                   *)

\* All steps but one are steps of Poller.
LEMMA PollerSteps == [ProgNext]_progvars => [Next]_vars \/ Prepare
<1> SUFFICES ASSUME [ProgNext]_progvars PROVE [Next]_vars \/ Prepare
  OBVIOUS
<1>1. CASE PollerRuns
  BY <1>1 DEF PollerRuns, WorkerStep, Next
<1>2. CASE HardwareChanges
  BY <1>2 DEF HardwareChanges, Next
<1>3. CASE StartThread \/ EndPoller
  BY <1>3 DEF StartThread, EndPoller, Next
<1>4. CASE CallPoller \/ InCopyTo \/ PollerReturns \/ WakesUp
  BY <1>4, RunnerIs DEF CallPoller, InCopyTo, PollerReturns, WakesUp, Next
<1>5. CASE MachineRuns \/ MachineDisturbed
  BY <1>5 DEF MachineRuns, MachineDisturbed
<1>6. CASE UNCHANGED progvars
  BY <1>6 DEF progvars
<1> QED
  BY <1>1, <1>2, <1>3, <1>4, <1>5, <1>6 DEF ProgNext, MainRuns

\* The other one overwrites the data of a thread that is not in copyTo.
LEMMA PrepareInv ==
    ASSUME IInv, Prepare, cpc[Runner] = "out"
    PROVE  IInv'
<1>1. /\ UNCHANGED <<sensor, buffers, shadow_idx, new_data, swap_mutex, working,
                     wpc, wref, wfield, cpc, timed, src, cfield>>
      /\ dst' \in [Consumers -> Data]
  BY DEF Prepare, shared, wvars
<1>2. TypeOK' /\ MutexInv' /\ RefInv' /\ DiffInv' /\ TimeoutInv'
  BY <1>1 DEF IInv, TypeOK, MutexInv, RefInv, DiffInv, TimeoutInv, Visible
<1>3. CopyInv'
  BY <1>1, RunnerIs DEF CopyInv
<1> QED
  BY <1>2, <1>3 DEF IInv

LEMMA LinkStep == IInv /\ Link /\ [ProgNext]_progvars => Link'
<1> SUFFICES ASSUME IInv, Link, [ProgNext]_progvars PROVE Link'
  OBVIOUS
<1> USE RunnerIs DEF IInv, TypeOK, Link, cvars, shared, wvars, vars
<1>1. CASE PollerRuns
  BY <1>1 DEF PollerRuns, WorkerStep, SetWorking, Loop, ReadField, Compare, LockSwap, Flip,
     Raise, Notify, Sleep, ReadThrows, Unbind
<1>2. CASE HardwareChanges
  BY <1>2 DEF HardwareChanges, SensorChange, machine
<1>3. CASE StartThread \/ EndPoller
  BY <1>3 DEF StartThread, EndPoller, CallWork, End, outside
<1>4. CASE Prepare
  BY <1>4 DEF Prepare, App!SetRunning
<1>5. CASE CallPoller
  BY <1>5 DEF CallPoller, CallCopyTo, inside
<1>6. CASE InCopyTo \/ WakesUp
  BY <1>6 DEF InCopyTo, WakesUp, LockCopy, Test, StartCopy, Timeout, CopyField, SpuriousWake,
     machine
<1>7. CASE PollerReturns
  BY <1>7 DEF PollerReturns, FinishCopy, Leave, inside
<1>8. CASE MachineRuns
  BY <1>8 DEF MachineRuns, App!RunMachine, App!CallRun, App!RunReturns, App!Exit, App!Join,
     App!Perform, App!Act, App!Check, App!Entered, App!NextState, App!vars
<1>9. CASE MachineDisturbed
  BY <1>9 DEF MachineDisturbed, App!Abandon, App!Throw, App!StopMachine, App!Stop,
     App!TimePasses, App!Clock, App!control
<1>10. CASE UNCHANGED progvars
  BY <1>10 DEF progvars, machine
<1> QED
  BY <1>1, <1>2, <1>3, <1>4, <1>5, <1>6, <1>7, <1>8, <1>9, <1>10 DEF ProgNext, MainRuns

LEMMA ProgInvInit == ProgInit => ProgInv
BY InvInit, RunnerIs DEF ProgInit, Init, App!AppInit, App!Init, ProgInv, Link

LEMMA ProgInvStep == ProgInv /\ [ProgNext]_progvars => ProgInv'
<1> SUFFICES ASSUME ProgInv, [ProgNext]_progvars PROVE ProgInv'
  OBVIOUS
<1>1. Prepare => cpc[Runner] = "out"
  BY DEF Prepare, App!SetRunning, ProgInv, Link
<1>2. IInv'
  BY <1>1, PollerSteps, InvStep, PrepareInv DEF ProgInv
<1> QED
  BY <1>2, LinkStep DEF ProgInv

LEMMA ProgInvariance == ProgSpec => []ProgInv
BY ProgInvInit, ProgInvStep, PTL DEF ProgSpec

------------------------------------------------------------------------------
(* Refinement.                                                             *)

\* Application sees nothing of a step that leaves these alone.
LEMMA Unseen ==
    ASSUME Slot' = Slot, new_data' = new_data, Mode' = Mode, Got' = Got,
           UNCHANGED <<machine, working, Place>>
    PROVE  UNCHANGED App!allvars
BY DEF App!allvars, machine

\* The channel's part of the steps, in the names of Application.
LEMMA SameChannel ==
    /\ Chan!Publish => App!Chan!Publish
    /\ Chan!Return(Runner) => App!Chan!Return(Runner)
    /\ \A kind : Chan!Call(Runner, kind) => App!Chan!Call(Runner, kind)
BY DEF Chan!Publish, App!Chan!Publish, Chan!Return, App!Chan!Return, Chan!Call, App!Chan!Call

LEMMA InitRefines == ProgInit => App!AppInit
BY DEF ProgInit

LEMMA WorkRefines ==
    ASSUME ProgInv, PollerRuns
    PROVE  App!AppNext \/ UNCHANGED App!allvars
<1>0. /\ App!Alive /\ main # "start"
      /\ UNCHANGED <<running, lpc, current, previous, act, elapsed, performed,
                     asked, start, main, motor>>
      /\ taken' = IF wpc = "raise" THEN TRUE ELSE taken
  BY DEF PollerRuns, ProgInv, Link, WorkerStep, SetWorking, Loop, ReadField, Compare,
     LockSwap, Flip, Raise, Notify, Sleep, ReadThrows
<1>s. ASSUME Silent PROVE Slot' = Slot /\ new_data' = new_data /\ Mode' = Mode /\ Got' = Got
  BY <1>s, SilentStutters DEF ProgInv
<1>1. CASE SetWorking
  <2>1. /\ Place = "called" /\ Place' = "loop" /\ working' = TRUE /\ taken' = taken
    BY <1>0, <1>1 DEF SetWorking, Place
  <2> QED
    BY <1>0, <1>1, <1>s, <2>1 DEF Silent, App!StartWork, App!vars, App!AppNext
<1>2. CASE Loop
  <2>1. /\ Place = "loop" /\ Place' = IF working THEN "update" ELSE "off"
        /\ working' = working /\ taken' = taken
    BY <1>0, <1>2 DEF Loop, Place
  <2> QED
    BY <1>0, <1>2, <1>s, <2>1 DEF Silent, App!TestWorking, App!vars, App!AppNext
<1>3. CASE ReadThrows
  <2>1. /\ Place = "update" /\ Place' = "failed" /\ working' = working /\ taken' = taken
    BY <1>0, <1>3 DEF ReadThrows, Place
  <2> QED
    BY <1>0, <1>3, <1>s, <2>1 DEF Silent, App!PollerFails, App!vars, App!AppNext
<1>4. CASE Compare
  <2>1. /\ Place = "update" /\ Place' \in {"loop", "update"}
        /\ working' = working /\ taken' = taken
    BY <1>0, <1>4 DEF Compare, Place
  <2>2. CASE Place' = "loop"
    BY <1>0, <1>4, <1>s, <2>1, <2>2 DEF Silent, App!NothingNew, App!vars, App!AppNext
  <2>3. CASE Place' = Place
    BY <1>0, <1>4, <1>s, <2>1, <2>3, Unseen DEF Silent, machine
  <2> QED
    BY <2>1, <2>2, <2>3
<1>5. CASE Raise
  <2>1. /\ Place = "update" /\ Place' = "loop" /\ working' = working /\ taken' = TRUE
    BY <1>0, <1>5 DEF Raise, Place
  <2>2. App!Chan!Publish
    BY <1>5, RaisePublishes, SameChannel DEF ProgInv
  <2> QED
    BY <1>0, <2>1, <2>2 DEF App!PublishReading, App!Publish, App!place, App!AppNext
<1>6. CASE ReadField \/ LockSwap \/ Flip \/ Notify \/ Sleep
  <2>1. Place' = Place /\ working' = working /\ taken' = taken
    BY <1>0, <1>6 DEF ReadField, LockSwap, Flip, Notify, Sleep, Place
  <2> QED
    BY <1>0, <1>6, <1>s, <2>1, Unseen DEF Silent, machine
<1> QED
  BY <1>1, <1>2, <1>3, <1>4, <1>5, <1>6 DEF PollerRuns, WorkerStep

\* The machine's calls of copyTo, each step of which is one of its own.
LEMMA CopyRefines ==
    ASSUME ProgInv, CallPoller \/ InCopyTo \/ WakesUp \/ PollerReturns
    PROVE  App!AppNext \/ UNCHANGED App!allvars
<1>1. CASE CallPoller
  <2>1. timed'[Runner] = (current \in Timed)
    BY <1>1 DEF CallPoller
  <2>2. App!Chan!Call(Runner, IF current \in Timed THEN "timed" ELSE "untimed")
    BY <1>1, <2>1, RunnerIs, CallCopyToCalls, SameChannel DEF CallPoller, ProgInv
  <2>3. UNCHANGED <<Place, working>>
    BY <1>1 DEF CallPoller, CallCopyTo, wvars, inside, Place
  <2>4. App!Call
    BY <1>1, <2>2 DEF CallPoller, inside, App!Call, App!place
  <2> QED
    BY <1>1, <2>3, <2>4 DEF CallPoller, inside, App!RunStep, App!control, App!AppNext
<1>2. CASE InCopyTo \/ WakesUp
  <2>1. Silent /\ UNCHANGED <<machine, working, wpc>>
    BY <1>2, RunnerIs DEF InCopyTo, WakesUp, Silent, LockCopy, Test, Timeout, CopyField,
       SpuriousWake, wvars
  <2> QED
    BY <2>1, SilentStutters, Unseen DEF ProgInv, Place, machine
<1>3. CASE PollerReturns
  <2>1. App!Chan!Return(Runner)
    BY <1>3, RunnerIs, FinishCopyReturns, SameChannel DEF PollerReturns, ProgInv
  <2>2. UNCHANGED <<Place, working>>
    BY <1>3 DEF PollerReturns, FinishCopy, wvars, inside, Place
  <2>3. lpc = "wait"
    BY <1>3 DEF PollerReturns, FinishCopy, ProgInv, Link
  <2>4. App!Return
    BY <1>3, <2>1, <2>3 DEF PollerReturns, inside, App!Return, App!place
  <2> QED
    BY <1>3, <2>2, <2>4 DEF PollerReturns, inside, App!RunStep, App!control, App!AppNext
<1> QED
  BY <1>1, <1>2, <1>3

LEMMA MainRefines ==
    ASSUME ProgInv, StartThread \/ EndPoller \/ Prepare
    PROVE  App!AppNext
<1>1. CASE StartThread
  <2>1. UNCHANGED <<Slot, new_data, Mode, Got>>
    BY <1>1, SilentStutters DEF StartThread, Silent, ProgInv
  <2>2. Place' = "called"
    BY <1>1 DEF StartThread, CallWork, Place
  <2> QED
    BY <1>1, <2>1, <2>2
       DEF StartThread, CallWork, outside, App!StartThread, App!vars, App!AppNext
<1>2. CASE EndPoller
  <2>1. UNCHANGED <<Slot, new_data, Mode, Got>>
    BY <1>2, SilentStutters DEF EndPoller, Silent, ProgInv
  <2>2. Place' = Place
    BY <1>2 DEF EndPoller, End, wvars, Place
  <2> QED
    BY <1>2, <2>1, <2>2 DEF EndPoller, End, outside, App!End, App!vars, App!AppNext
<1>3. CASE Prepare
  <2>1. UNCHANGED <<Place, working>>
    BY <1>3 DEF Prepare, wvars, Place
  <2> QED
    BY <1>3, <2>1 DEF Prepare, App!RunStep, App!control, App!AppNext
<1> QED
  BY <1>1, <1>2, <1>3

\* Where the poller stays as it is, a step is one of Application's own.
LEMMA MachineRefines ==
    ASSUME ProgInv, MachineRuns \/ MachineDisturbed
    PROVE  App!AppNext
<1>1. UNCHANGED vars
  BY DEF MachineRuns, MachineDisturbed
<1>2. CASE App!RunMachine \/ App!RunReturns \/ App!Join \/ App!Perform
  BY <1>2 DEF App!AppNext
<1>3. CASE /\ main = "run" /\ UNCHANGED <<start, main, taken, motor>>
           /\ App!Check \/ App!Entered \/ App!NextState
  <2>1. UNCHANGED <<Place, working>>
    BY <1>1, <1>3 DEF vars, Place
  <2> QED
    BY <1>3, <2>1 DEF App!RunStep, App!control, App!AppNext
<1>4. CASE MachineDisturbed
  BY <1>4 DEF MachineDisturbed, App!AppNext
<1> QED
  BY <1>2, <1>3, <1>4 DEF MachineRuns

LEMMA StepRefines ==
    ProgInv /\ [ProgNext]_progvars => [App!AppNext]_(App!allvars)
<1> SUFFICES ASSUME ProgInv, [ProgNext]_progvars
             PROVE  App!AppNext \/ UNCHANGED App!allvars
  OBVIOUS
<1>1. CASE HardwareChanges
  <2>1. Silent /\ UNCHANGED <<machine, working, wpc>>
    BY <1>1 DEF HardwareChanges, Silent, SensorChange, wvars
  <2> QED
    BY <2>1, SilentStutters, Unseen DEF ProgInv, Place, machine
<1>2. CASE UNCHANGED progvars
  BY <1>2, Unseen DEF progvars, vars, Place, machine, Slot, Mode, Got, Visible
<1> QED
  BY <1>1, <1>2, WorkRefines, CopyRefines, MainRefines, MachineRefines
     DEF ProgNext, MainRuns

\* A program behaves like Application: that the poller has buffers, a mutex and
\* a condition variable, and that a call of copyTo is many steps of two threads,
\* cannot be noticed by the machine or by main().
THEOREM ProgramRefinement == ProgSpec => ImplementsApplication
BY InitRefines, StepRefines, ProgInvariance, PTL
   DEF ProgSpec, ImplementsApplication, App!AppSpec

------------------------------------------------------------------------------
(* What was proved of Application.  AP is App together with its proofs; the *)
(* prover does not know that the definitions of both are the same.          *)

AP == INSTANCE ApplicationProofs WITH
    Loop <- Runner, slot <- Slot, fresh <- new_data, mode <- Mode, got <- Got,
    poller <- Place

LEMMA SameSpec == App!AppSpec <=> AP!AppSpec
BY
   DEF App!AppSpec, AP!AppSpec, App!AppInit, AP!AppInit, App!AppNext,
       AP!AppNext, App!allvars, AP!allvars, App!vars, AP!vars, App!chan,
       AP!chan, App!place, AP!place, App!control, AP!control, App!Init,
       AP!Init, App!Chan!Init, AP!Chan!Init, App!Chan!Publish,
       AP!Chan!Publish, App!Chan!Call, AP!Chan!Call, App!Chan!Return,
       AP!Chan!Return, App!StartThread, AP!StartThread, App!RunMachine,
       AP!RunMachine, App!Perform, AP!Perform, App!RunStep, AP!RunStep,
       App!Abandon, AP!Abandon, App!RunReturns, AP!RunReturns, App!End,
       AP!End, App!Join, AP!Join, App!StartWork, AP!StartWork,
       App!TestWorking, AP!TestWorking, App!PublishReading,
       AP!PublishReading, App!NothingNew, AP!NothingNew, App!PollerFails,
       AP!PollerFails, App!StopMachine, AP!StopMachine, App!TimePasses,
       AP!TimePasses, App!CallRun, AP!CallRun, App!SetRunning,
       AP!SetRunning, App!Check, AP!Check, App!Act, AP!Act, App!Entered,
       AP!Entered, App!Call, AP!Call, App!Return, AP!Return,
       App!NextState, AP!NextState, App!Throw, AP!Throw, App!Exit,
       AP!Exit, App!Publish, AP!Publish, App!Stop, AP!Stop, App!Clock,
       AP!Clock, App!Successor, AP!Successor, App!FirstApplicable,
       AP!FirstApplicable, App!Duration, AP!Duration, App!Alive, AP!Alive

LEMMA Constants == AP!MachineAssumption /\ AP!ProgramAssumption
BY ConstantsAssumption
   DEF ConstantsAssumption, App!MachineAssumption, AP!MachineAssumption,
       App!ProgramAssumption, AP!ProgramAssumption, App!Transition, AP!Transition,
       App!Duration, AP!Duration, App!Commands, AP!Commands

LEMMA RefinesAP == ProgSpec => AP!AppSpec
BY ProgramRefinement, SameSpec DEF ImplementsApplication

\* With the real poller too: no condition is evaluated on values that nobody has
\* read, end() is not overwritten, and actions are performed once per visit.
THEOREM ProgramKeepsPromises ==
    ProgSpec => [](App!DecidesOnReadings /\ App!EndPersists /\ App!ActionsOncePerVisit)
<1>1. AP!AppSpec => []AP!DecidesOnReadings
  BY AP!DecidesOnReadingsHolds, Constants DEF AP!MachineAssumption, AP!ProgramAssumption
<1>2. AP!AppSpec => []AP!EndPersists
  BY AP!EndPersistsHolds, Constants DEF AP!MachineAssumption, AP!ProgramAssumption
<1>3. AP!AppSpec => []AP!ActionsOncePerVisit
  BY AP!RunsEventLoop, AP!ActionsOncePerVisitHolds, Constants
     DEF AP!MachineAssumption, AP!ProgramAssumption
<1>4. AP!DecidesOnReadings => App!DecidesOnReadings
  BY DEF AP!DecidesOnReadings, App!DecidesOnReadings, AP!WaitsForReading, App!WaitsForReading
<1>5. AP!EndPersists => App!EndPersists
  BY DEF AP!EndPersists, App!EndPersists, AP!WaitsForReading, App!WaitsForReading
<1>6. AP!ActionsOncePerVisit => App!ActionsOncePerVisit
  BY DEF AP!ActionsOncePerVisit, App!ActionsOncePerVisit
<1> QED
  BY <1>1, <1>2, <1>3, <1>4, <1>5, <1>6, RefinesAP, PTL

\* If the states of the machine stop what others leave running, the motors that
\* run are those of the current state, also with the real poller.
THEOREM ProgramForeverOnlyWhereStarted ==
    ASSUME App!StopsWhatRuns
    PROVE  ProgSpec => []App!ForeverOnlyWhereStarted
<1>1. AP!StopsWhatRuns
  BY DEF AP!StopsWhatRuns, App!StopsWhatRuns, AP!Follows, App!Follows, AP!RunsOn, App!RunsOn
<1>2. AP!AppSpec => []AP!ForeverOnlyWhereStarted
  BY <1>1, AP!ForeverOnlyWhereStartedHolds, Constants
     DEF AP!MachineAssumption, AP!ProgramAssumption
<1>3. AP!ForeverOnlyWhereStarted => App!ForeverOnlyWhereStarted
  BY DEF AP!ForeverOnlyWhereStarted, App!ForeverOnlyWhereStarted, AP!RunsOn, App!RunsOn
<1> QED
  BY <1>2, <1>3, RefinesAP, PTL

------------------------------------------------------------------------------
(* What was proved of Poller.                                              *)

\* In a program that overwrites its data before it asks for the first reading,
\* nothing is lost of what Poller promises.
THEOREM ProgramKeepsPoller ==
    ProgSpec => [](NoRace /\ CopyIntact /\ UntimedGetsFresh /\ NoLostWakeup)
<1>1. IInv => NoRace /\ CopyIntact /\ UntimedGetsFresh
  BY DEF IInv, TypeOK, RefInv, CopyInv, TimeoutInv, NoRace, CopyIntact, UntimedGetsFresh
<1>2. ProgInit => NoLostWakeup
  BY DEF ProgInit, Init, NoLostWakeup
<1>3. ProgInv /\ NoLostWakeup /\ [ProgNext]_progvars => NoLostWakeup'
  <2>1. Prepare /\ NoLostWakeup => NoLostWakeup'
    BY DEF Prepare, NoLostWakeup, shared, wvars
  <2> QED
    BY <2>1, PollerSteps, NoLostWakeupStep DEF ProgInv, IInv
<1> QED
  BY <1>1, <1>2, <1>3, ProgInvariance, PTL DEF ProgSpec, ProgInv

\* Actions and conditions, which may take long or throw, are executed without
\* swap_mutex_, and it is free of this thread when main() joins the other one.
CallbacksUnlocked == lpc # "wait" => swap_mutex # Runner

\* No callback and no exception keeps the mutex that the poller needs.
THEOREM CallbacksUnlockedHolds == ProgSpec => []CallbacksUnlocked
<1>1. ProgInv => CallbacksUnlocked
  BY RunnerIs DEF ProgInv, IInv, MutexInv, Link, CallbacksUnlocked
<1> QED
  BY <1>1, ProgInvariance, PTL
==============================================================================
