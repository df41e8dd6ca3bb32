-------------------------- MODULE ApplicationProofs --------------------------
(***************************************************************************)
(* Proofs about Application, for any program: any machine, start states,   *)
(* motors and commands.  That Application only restricts when the machine  *)
(* may step carries the theorems about EventLoop over.                     *)
(***************************************************************************)
EXTENDS Application, EventLoopProofs

(* The inductive invariant.                                                *)

\* main() is in run() as long as the loop is somewhere.
Where == main = "run" <=> lpc # "out"

\* The call that the loop waits in has a timeout if the state has one.
Asking ==
    lpc = "wait" => mode[Loop] = IF current \in Timed THEN "timed" ELSE "untimed"

\* Readings come from a poller that has begun to work.
Begun ==
    /\ fresh => taken
    /\ taken => poller \notin {"none", "called"}
    /\ main = "start" => poller = "none"

\* Before the first reading the loop does not get past the start state.
Waiting ==
    ~taken /\ WaitsForReading /\ lpc # "out" =>
        /\ current = start
        /\ lpc # "next"
        /\ lpc = "exit" => asked
        /\ lpc \in {"check", "enter", "call", "wait"} => running \/ asked

\* Unless somebody stopped it, run() returns after the first reading.
Ending ==
    main \in {"end", "join", "returned"} /\ WaitsForReading /\ ~asked => taken

Parts == Where /\ Asking /\ Begun /\ Waiting /\ Ending /\ EndPersists

AppInv == AppTypeOK /\ IInv /\ Parts

------------------------------------------------------------------------------
(* The machine of an application is an EventLoop.                          *)

LEMMA InitRefines == AppInit => Init
BY DEF AppInit

LEMMA StepRefines == start \in Starts /\ [AppNext]_allvars => [Next]_vars
<1> SUFFICES ASSUME start \in Starts, [AppNext]_allvars PROVE [Next]_vars
  OBVIOUS
<1>1. CASE \/ StartThread \/ End \/ Join \/ StartWork \/ TestWorking
           \/ NothingNew \/ PollerFails
  BY <1>1 DEF StartThread, End, Join, StartWork, TestWorking, NothingNew, PollerFails
<1>2. CASE RunMachine
  <2>1. start \in States \cup {NoState}
    BY ProgramAssumption DEF ProgramAssumption
  <2> QED
    BY <1>2, <2>1 DEF RunMachine, Next
<1>3. CASE Perform \/ RunStep \/ Abandon \/ RunReturns
  BY <1>3 DEF Perform, RunStep, Abandon, RunReturns, Next
<1>4. CASE PublishReading \/ StopMachine \/ TimePasses
  BY <1>4 DEF PublishReading, StopMachine, TimePasses, Next
<1>5. CASE UNCHANGED allvars
  BY <1>5 DEF allvars, vars
<1> QED
  BY <1>1, <1>2, <1>3, <1>4, <1>5 DEF AppNext

------------------------------------------------------------------------------
(* Types.                                                                  *)

LEMMA AppTypeInit == AppInit => AppTypeOK
<1> SUFFICES ASSUME AppInit PROVE AppTypeOK
  OBVIOUS
<1>1. TypeOK
  BY TypeInit, InitRefines
<1> QED
  BY <1>1 DEF AppInit, AppTypeOK, MainPC, PollerPC, Commands

\* The motor gets a command.
LEMMA MotorType ==
    ASSUME AppTypeOK, NotNull, Perform
    PROVE  motor' \in [Motors -> Commands]
<1>1. current \in States /\ act \in DOMAIN Actions[current]
  BY DEF Perform, Act, NotNull
<1>2. Actions[current][act] \in Action
  BY <1>1, ActionsType
<1>3. Command[Actions[current][act]] \in Motors \X Commands
  BY <1>2, ProgramAssumption DEF ProgramAssumption
<1> QED
  BY <1>3 DEF Perform, AppTypeOK

LEMMA AppTypeStep == AppTypeOK /\ IInv /\ [AppNext]_allvars => AppTypeOK'
<1> SUFFICES ASSUME AppTypeOK, IInv, [AppNext]_allvars PROVE AppTypeOK'
  OBVIOUS
<1>0. TypeOK'
  BY StepRefines, TypeStep DEF AppTypeOK, IInv
<1> USE <1>0 DEF AppTypeOK, MainPC, PollerPC, control
<1>1. CASE StartThread \/ RunMachine \/ End \/ Join
  BY <1>1 DEF StartThread, RunMachine, End, Join
<1>2. CASE Perform
  BY <1>2, MotorType DEF Perform, IInv
<1>3. CASE RunStep \/ Abandon \/ RunReturns \/ StopMachine \/ TimePasses
  BY <1>3 DEF RunStep, Abandon, RunReturns, StopMachine, TimePasses
<1>4. CASE StartWork \/ TestWorking \/ PublishReading \/ NothingNew \/ PollerFails
  BY <1>4 DEF StartWork, TestWorking, PublishReading, NothingNew, PollerFails
<1>5. CASE UNCHANGED allvars
  BY <1>5 DEF allvars
<1> QED
  BY <1>1, <1>2, <1>3, <1>4, <1>5 DEF AppNext

------------------------------------------------------------------------------
(* The other parts, action by action.                                      *)

LEMMA PartsInit == AppInit => Parts
BY DEF AppInit, Init, Chan!Init, Parts, Where, Asking, Begun, Waiting, Ending, EndPersists

LEMMA RunStepParts ==
    ASSUME AppTypeOK, NotNull, Parts, RunStep
    PROVE  Parts'
<1> USE DEF Parts, Where, Asking, Begun, Waiting, Ending, EndPersists,
            WaitsForReading, RunStep, control, chan, place
<1>1. CASE SetRunning
  BY <1>1 DEF SetRunning
<1>2. CASE Check
  BY <1>2 DEF Check
<1>3. CASE Entered
  BY <1>3 DEF Entered
<1>4. CASE Call
  <2>1. mode \in [{Loop} -> {"idle", "timed", "untimed"}]
    BY DEF AppTypeOK, TypeOK, Chan!TypeOK
  <2> QED
    BY <1>4, <2>1 DEF Call, Chan!Call
<1>5. CASE Return
  \* An untimed call returns with a fresh reading, hence not before the first.
  <2>1. WaitsForReading => taken
    BY <1>5 DEF Return, Chan!Return
  <2> QED
    BY <1>5, <2>1 DEF Return, Chan!Return
<1>6. CASE NextState
  BY <1>6 DEF NextState
<1> QED
  BY <1>1, <1>2, <1>3, <1>4, <1>5, <1>6

LEMMA PartsStep ==
    AppTypeOK /\ NotNull /\ Parts /\ [AppNext]_allvars => Parts'
<1> SUFFICES ASSUME AppTypeOK, NotNull, Parts, [AppNext]_allvars PROVE Parts'
  OBVIOUS
<1> USE DEF Parts, Where, Asking, Begun, Waiting, Ending, EndPersists,
            WaitsForReading, vars, chan, place, control
<1>1. CASE StartThread
  BY <1>1 DEF StartThread
<1>2. CASE RunMachine
  BY <1>2 DEF RunMachine, CallRun
<1>3. CASE Perform
  BY <1>3 DEF Perform, Act
<1>4. CASE RunStep
  BY <1>4, RunStepParts
<1>5. CASE Abandon
  BY <1>5 DEF Abandon, Throw
<1>6. CASE RunReturns
  BY <1>6 DEF RunReturns, Exit
<1>7. CASE End
  BY <1>7 DEF End
<1>8. CASE Join
  BY <1>8 DEF Join
<1>9. CASE StartWork
  BY <1>9 DEF StartWork
<1>10. CASE TestWorking
  BY <1>10 DEF TestWorking
<1>11. CASE PublishReading
  BY <1>11 DEF PublishReading, Publish, Chan!Publish
<1>12. CASE NothingNew
  BY <1>12 DEF NothingNew
<1>13. CASE PollerFails
  BY <1>13 DEF PollerFails
<1>14. CASE StopMachine
  BY <1>14 DEF StopMachine, Stop
<1>15. CASE TimePasses
  BY <1>15 DEF TimePasses, Clock
<1>16. CASE UNCHANGED allvars
  BY <1>16 DEF allvars
<1> QED
  BY <1>1, <1>2, <1>3, <1>4, <1>5, <1>6, <1>7, <1>8, <1>9, <1>10, <1>11,
     <1>12, <1>13, <1>14, <1>15, <1>16 DEF AppNext

LEMMA AppInvInit == AppInit => AppInv
BY AppTypeInit, InitRefines, InvInit, PartsInit DEF AppInv

LEMMA AppInvStep == AppInv /\ [AppNext]_allvars => AppInv'
<1> SUFFICES ASSUME AppInv, [AppNext]_allvars PROVE AppInv'
  OBVIOUS
<1>1. start \in Starts /\ NotNull
  BY DEF AppInv, AppTypeOK, IInv
<1>2. IInv'
  BY <1>1, StepRefines, InvStep DEF AppInv
<1> QED
  BY <1>1, <1>2, AppTypeStep, PartsStep DEF AppInv

LEMMA AppInvariance == AppSpec => []AppInv
BY AppInvInit, AppInvStep, PTL DEF AppSpec

------------------------------------------------------------------------------
\* Every variable keeps its type, whatever the program.
THEOREM AppTypeCorrect == AppSpec => []AppTypeOK
<1>1. AppInv => AppTypeOK
  BY DEF AppInv
<1> QED
  BY <1>1, AppInvariance, PTL

\* The machine inside a program behaves as EventLoop says, so that what was
\* proved of EventLoop holds of every program.
THEOREM RunsEventLoop == AppSpec => Spec
<1>1. AppInv => start \in Starts
  BY DEF AppInv, AppTypeOK
<1> QED
  BY <1>1, InitRefines, StepRefines, AppInvariance, PTL DEF AppSpec, Spec

\* With a start state without timeout, no condition is evaluated on the
\* uninitialised values of the loop or of the poller's buffers.
THEOREM DecidesOnReadingsHolds == AppSpec => []DecidesOnReadings
<1>1. AppInv => DecidesOnReadings
  BY DEF AppInv, Parts, Waiting, DecidesOnReadings
<1> QED
  BY <1>1, AppInvariance, PTL

\* With a start state without timeout and without a stop(), the end() of main()
\* is not overwritten by the start of work(), however late that thread begins.
THEOREM EndPersistsHolds == AppSpec => []EndPersists
<1>1. AppInv => EndPersists
  BY DEF AppInv, Parts
<1> QED
  BY <1>1, AppInvariance, PTL

------------------------------------------------------------------------------
(* The motors, for machines whose states stop what runs.                   *)

\* The first n actions of state s leave motor m running, or give it a command.
Ran(s, n, m) ==
    \E i \in 1 .. n :
        /\ Command[Actions[s][i]] = <<m, "run-forever">>
        /\ \A j \in i + 1 .. n : Command[Actions[s][j]][1] # m
Commanded(s, n, m) == \E i \in 1 .. n : Command[Actions[s][i]][1] = m

\* The state entered last leaves motor m running.
Left(m) == previous # NoState /\ RunsOn(previous, m)

Forever(m) == motor[m] = "run-forever"

\* At the loop's condition the motors are as the last state has left them, and
\* the next one follows it.
AsLeft ==
    lpc = "check" =>
        /\ \A m \in Motors : Forever(m) <=> Left(m)
        /\ NoState \notin {previous, current} /\ previous # current =>
               Follows(previous, current)

\* While a state is entered, a motor is as the actions so far say, or else as
\* the state before has left it.
AsCommanded ==
    lpc = "enter" =>
        /\ previous # current
        /\ previous # NoState => Follows(previous, current)
        /\ \A m \in Motors :
              Forever(m) <=>
                  \/ Ran(current, act - 1, m)
                  \/ ~Commanded(current, act - 1, m) /\ Left(m)

\* Nothing runs before the machine does.
AtRest ==
    main \in {"start", "call"} \/ lpc = "called" => \A m \in Motors : ~Forever(m)

MotorInv == AtRest /\ AsLeft /\ AsCommanded /\ ForeverOnlyWhereStarted

LEMMA CommandType ==
    ASSUME NEW s \in States, NEW i \in DOMAIN Actions[s]
    PROVE  /\ Command[Actions[s][i]] \in Motors \X Commands
           /\ Command[Actions[s][i]] =
                  <<Command[Actions[s][i]][1], Command[Actions[s][i]][2]>>
<1>1. Actions[s][i] \in Action
  BY ActionsType
<1>2. Command[Actions[s][i]] \in Motors \X (Commands \ {"none"})
  BY <1>1, ProgramAssumption DEF ProgramAssumption
<1> QED
  BY <1>2

\* What action n adds to the actions before it.
LEMMA OneMore ==
    ASSUME NEW s \in States, NEW n \in DOMAIN Actions[s], NEW m \in Motors
    PROVE  LET command == Command[Actions[s][n]] IN
           /\ command[1] = m =>
                 /\ Commanded(s, n, m)
                 /\ Ran(s, n, m) <=> command[2] = "run-forever"
           /\ command[1] # m =>
                 /\ Commanded(s, n, m) <=> Commanded(s, n - 1, m)
                 /\ Ran(s, n, m) <=> Ran(s, n - 1, m)
<1> DEFINE command == Command[Actions[s][n]]
<1>0. n \in Nat \ {0} /\ n \in 1 .. n /\ command = <<command[1], command[2]>>
  BY ActionsType, CommandType
<1> HIDE DEF command
<1>1. ASSUME command[1] = m
      PROVE  Commanded(s, n, m) /\ (Ran(s, n, m) <=> command[2] = "run-forever")
  <2>1. Commanded(s, n, m)
    BY <1>0, <1>1 DEF Commanded, command
  <2>2. ASSUME command[2] = "run-forever" PROVE Ran(s, n, m)
    BY <1>0, <1>1, <2>2 DEF Ran, command
  <2>3. ASSUME Ran(s, n, m) PROVE command[2] = "run-forever"
    <3>1. PICK i \in 1 .. n :
             /\ Command[Actions[s][i]] = <<m, "run-forever">>
             /\ \A j \in i + 1 .. n : Command[Actions[s][j]][1] # m
      BY <2>3 DEF Ran
    <3>2. i = n
      <4>1. n \notin i + 1 .. n
        BY <3>1, <1>1 DEF command
      <4> QED
        BY <4>1, <1>0
    <3> QED
      BY <3>1, <3>2 DEF command
  <2> QED
    BY <2>1, <2>2, <2>3
<1>2. ASSUME command[1] # m
      PROVE  /\ Commanded(s, n, m) <=> Commanded(s, n - 1, m)
             /\ Ran(s, n, m) <=> Ran(s, n - 1, m)
  <2>1. \A i \in 1 .. n : i = n \/ i \in 1 .. n - 1
    BY <1>0
  <2>2. \A i \in 1 .. n - 1 : i \in 1 .. n /\ i # n
    BY <1>0
  <2>3. Command[Actions[s][n]] # <<m, "run-forever">>
    BY <1>2 DEF command
  <2>4. Commanded(s, n, m) <=> Commanded(s, n - 1, m)
    BY <1>2, <2>1, <2>2 DEF Commanded, command
  <2>5. \A i \in 1 .. n - 1 :
            (\A j \in i + 1 .. n : Command[Actions[s][j]][1] # m)
            <=> (\A j \in i + 1 .. n - 1 : Command[Actions[s][j]][1] # m)
    <3> TAKE i \in 1 .. n - 1
    <3>1. i + 1 .. n = (i + 1 .. n - 1) \cup {n}
      BY <1>0
    <3> QED
      BY <3>1, <1>2 DEF command
  <2>6. Ran(s, n, m) <=> Ran(s, n - 1, m)
    BY <2>1, <2>2, <2>3, <2>5 DEF Ran
  <2> QED
    BY <2>4, <2>6
<1> QED
  BY <1>1, <1>2 DEF command

\* All actions have been performed.
LEMMA AfterAll ==
    ASSUME NEW s \in States, NEW m \in Motors
    PROVE  /\ Ran(s, Len(Actions[s]), m) <=> RunsOn(s, m)
           /\ Commanded(s, Len(Actions[s]), m) <=>
                  \E i \in DOMAIN Actions[s] : Command[Actions[s][i]][1] = m
BY ActionsType DEF Ran, RunsOn, Commanded

LEMMA MotorInit == AppInit => MotorInv
BY DEF AppInit, Init, MotorInv, AtRest, AsLeft, AsCommanded, ForeverOnlyWhereStarted, Forever

\* A step that leaves the loop, the motors and main() alone.
LEMMA MotorStutter ==
    ASSUME MotorInv, UNCHANGED <<lpc, current, previous, act, motor>>,
           main' \in {"start", "call"} => main \in {"start", "call"}
    PROVE  MotorInv'
BY DEF MotorInv, AtRest, AsLeft, AsCommanded, ForeverOnlyWhereStarted, Forever, Left

\* A step out of run(): the invariant says nothing of the motors any more.
LEMMA MotorLeaves ==
    ASSUME main' \notin {"start", "call"},
           lpc' \in {"exit", "out"}
    PROVE  MotorInv'
BY DEF MotorInv, AtRest, AsLeft, AsCommanded, ForeverOnlyWhereStarted

LEMMA PerformMotor ==
    ASSUME AppInv, MotorInv, Perform
    PROVE  MotorInv'
<1> DEFINE n == act
           command == Command[Actions[current][n]]
<1>1. /\ lpc = "enter" /\ lpc' = "enter" /\ main = "run" /\ main' = "run"
      /\ current \in States /\ n \in DOMAIN Actions[current]
      /\ current' = current /\ previous' = previous /\ act' = n + 1
      /\ motor' = [motor EXCEPT ![command[1]] = command[2]]
      /\ motor \in [Motors -> Commands]
  BY DEF Perform, Act, AppInv, AppTypeOK, IInv, NotNull
<1>2. n \in Nat /\ act' - 1 = n
  BY <1>1, ActionsType
<1>3. command \in Motors \X Commands
  BY <1>1, CommandType
<1> HIDE DEF n, command
<1>4. ASSUME NEW m \in Motors
      PROVE  Forever(m)' <=> \/ Ran(current, n, m)
                             \/ ~Commanded(current, n, m) /\ Left(m)
  <2>1. Forever(m) <=> \/ Ran(current, n - 1, m)
                       \/ ~Commanded(current, n - 1, m) /\ Left(m)
    BY <1>1 DEF MotorInv, AsCommanded, n
  <2>2. CASE command[1] = m
    <3>1. motor'[m] = command[2]
      BY <1>1, <1>3, <2>2
    <3>2. Commanded(current, n, m) /\ (Ran(current, n, m) <=> command[2] = "run-forever")
      BY <1>1, <2>2, OneMore DEF command
    <3> QED
      BY <3>1, <3>2 DEF Forever
  <2>3. CASE command[1] # m
    <3>1. motor'[m] = motor[m]
      BY <1>1, <1>3, <2>3
    <3>2. /\ Commanded(current, n, m) <=> Commanded(current, n - 1, m)
          /\ Ran(current, n, m) <=> Ran(current, n - 1, m)
      BY <1>1, <2>3, OneMore DEF command
    <3> QED
      BY <2>1, <3>1, <3>2 DEF Forever
  <2> QED
    BY <2>2, <2>3
<1>5. \A m \in Motors : Left(m)' <=> Left(m)
  BY <1>1 DEF Left
<1>6. AsCommanded'
  BY <1>1, <1>2, <1>4, <1>5 DEF MotorInv, AsCommanded
<1> QED
  BY <1>1, <1>6 DEF MotorInv, AtRest, AsLeft, ForeverOnlyWhereStarted

\* The entered state has commanded the motors that the one before left running.
LEMMA EnteredMotor ==
    ASSUME AppInv, MotorInv, StopsWhatRuns, main = "run", main' = "run",
           Entered, UNCHANGED motor
    PROVE  MotorInv'
<1> DEFINE n == Len(Actions[current])
<1>1. /\ lpc = "enter" /\ lpc' = "call"
      /\ current \in States /\ previous \in States \cup {NoState}
      /\ current' = current /\ previous' = current
      /\ act \notin DOMAIN Actions[current] /\ act \in Nat \ {0} /\ act <= n + 1
  BY DEF Entered, AppInv, AppTypeOK, TypeOK, IInv, NotNull, Entering
<1>2. act - 1 = n
  BY <1>1, ActionsType
<1>3. ASSUME NEW m \in Motors
      PROVE  Forever(m) <=> RunsOn(current, m)
  <2>1. Forever(m) <=> \/ RunsOn(current, m)
                       \/ ~Commanded(current, n, m) /\ Left(m)
    BY <1>1, <1>2, AfterAll DEF MotorInv, AsCommanded
  <2>2. Left(m) => Commanded(current, n, m)
    <3> SUFFICES ASSUME Left(m) PROVE Commanded(current, n, m)
      OBVIOUS
    <3>1. previous \in States /\ RunsOn(previous, m)
      BY <1>1 DEF Left
    <3>2. previous # current /\ Follows(previous, current)
      BY <1>1, <3>1, MachineAssumption DEF MotorInv, AsCommanded, MachineAssumption
    <3> QED
      BY <1>1, <3>1, <3>2, AfterAll DEF StopsWhatRuns
  <2> QED
    BY <2>1, <2>2
<1> QED
  BY <1>1, <1>3 DEF MotorInv, AtRest, AsLeft, AsCommanded, ForeverOnlyWhereStarted, Forever

\* The state stays, or one of its transitions is taken.
LEMMA SuccessorFollows ==
    ASSUME NEW s, NEW t, NEW reading, NEW duration, Successor(s, t, reading, duration)
    PROVE  t = s \/ Follows(s, t)
BY DEF Successor, Follows

LEMMA RunStepMotor ==
    ASSUME AppInv, MotorInv, StopsWhatRuns, RunStep
    PROVE  MotorInv'
<1>0. main = "run" /\ main' = "run" /\ UNCHANGED motor
  BY DEF RunStep, control
<1>1. CASE SetRunning
  BY <1>0, <1>1 DEF SetRunning, MotorInv, AtRest, AsLeft, AsCommanded,
     ForeverOnlyWhereStarted, Forever, Left
<1>2. CASE Check
  <2>1. CASE lpc' = "exit"
    BY <1>0, <2>1, MotorLeaves
  <2>2. CASE lpc' = "call"
    \* previous is current: the state has been entered before.
    <3>1. /\ lpc = "check" /\ current # NoState /\ previous = current
          /\ UNCHANGED <<current, previous>>
      BY <1>2, <2>2 DEF Check
    <3> QED
      BY <1>0, <2>2, <3>1 DEF MotorInv, AtRest, AsLeft, AsCommanded,
         ForeverOnlyWhereStarted, Forever, Left
  <2>3. CASE lpc' = "enter"
    <3>1. /\ lpc = "check" /\ current # NoState /\ previous # current
          /\ UNCHANGED <<current, previous>> /\ act' = 1
      BY <1>2, <2>3 DEF Check
    <3>2. \A m \in Motors : ~Ran(current, 0, m) /\ ~Commanded(current, 0, m)
      BY DEF Ran, Commanded
    <3>3. act' - 1 = 0
      BY <3>1
    <3>4. \A m \in Motors : (Forever(m) <=> Left(m)) /\ (Forever(m)' <=> Left(m)')
      BY <1>0, <3>1 DEF MotorInv, AsLeft, Forever, Left
    <3>5. AsCommanded'
      BY <3>1, <3>2, <3>3, <3>4 DEF MotorInv, AsLeft, AsCommanded
    <3> QED
      BY <1>0, <2>3, <3>5 DEF MotorInv, AtRest, AsLeft, ForeverOnlyWhereStarted
  <2> QED
    BY <1>2, <2>1, <2>2, <2>3 DEF Check
<1>3. CASE Entered
  BY <1>0, <1>3, EnteredMotor
<1>4. CASE Call \/ Return
  <2>1. /\ lpc \in {"call", "wait"} /\ lpc' \in {"wait", "next"}
        /\ UNCHANGED <<current, previous, act>>
    BY <1>4 DEF Call, Return, place
  <2> QED
    BY <1>0, <2>1 DEF MotorInv, AtRest, AsLeft, AsCommanded, ForeverOnlyWhereStarted, Forever
<1>5. CASE NextState
  <2>1. /\ lpc = "next" /\ lpc' = "check" /\ UNCHANGED previous
        /\ previous = current /\ current \in States
    BY <1>5 DEF NextState, AppInv, IInv, Visited, NotNull
  <2>2. current' = current \/ Follows(current, current')
    BY <1>5, SuccessorFollows DEF NextState
  <2>3. previous # NoState
    BY <2>1, MachineAssumption DEF MachineAssumption
  <2>4. AsLeft'
    BY <1>0, <2>1, <2>2, <2>3 DEF MotorInv, ForeverOnlyWhereStarted, AsLeft, Forever, Left
  <2> QED
    BY <1>0, <2>1, <2>4 DEF MotorInv, AtRest, AsCommanded, ForeverOnlyWhereStarted
<1> QED
  BY <1>1, <1>2, <1>3, <1>4, <1>5 DEF RunStep

LEMMA MotorStep ==
    AppInv /\ MotorInv /\ StopsWhatRuns /\ [AppNext]_allvars => MotorInv'
<1> SUFFICES ASSUME AppInv, MotorInv, StopsWhatRuns, [AppNext]_allvars
             PROVE  MotorInv'
  OBVIOUS
<1>1. CASE StartThread \/ End \/ Join
  BY <1>1, MotorStutter DEF StartThread, End, Join, vars
<1>2. CASE RunMachine
  <2>1. main = "call" /\ main' = "run" /\ lpc' = "called" /\ UNCHANGED motor
    BY <1>2 DEF RunMachine, CallRun
  <2> QED
    BY <2>1 DEF MotorInv, AtRest, AsLeft, AsCommanded, ForeverOnlyWhereStarted, Forever
<1>3. CASE Perform
  BY <1>3, PerformMotor
<1>4. CASE RunStep
  BY <1>4, RunStepMotor
<1>5. CASE Abandon \/ RunReturns
  BY <1>5, MotorLeaves DEF Abandon, Throw, RunReturns, Exit
<1>6. CASE StartWork \/ TestWorking \/ NothingNew \/ PollerFails \/ PublishReading
  BY <1>6, MotorStutter
     DEF StartWork, TestWorking, NothingNew, PollerFails, PublishReading, Publish, vars, place
<1>7. CASE StopMachine \/ TimePasses
  BY <1>7, MotorStutter DEF StopMachine, Stop, TimePasses, Clock, control, place
<1>8. CASE UNCHANGED allvars
  BY <1>8, MotorStutter DEF allvars
<1> QED
  BY <1>1, <1>2, <1>3, <1>4, <1>5, <1>6, <1>7, <1>8 DEF AppNext

\* If each state that can follow another one stops what that one leaves running,
\* then the motors that run while the machine waits or decides are those that
\* the current state has started: whatever the machine, also when it is stopped,
\* when an action throws, and when states are passed through at once.
THEOREM ForeverOnlyWhereStartedHolds ==
    ASSUME StopsWhatRuns
    PROVE  AppSpec => []ForeverOnlyWhereStarted
<1>1. AppInit => MotorInv
  BY MotorInit
<1>2. AppInv /\ MotorInv /\ [AppNext]_allvars => MotorInv'
  BY MotorStep
<1>3. MotorInv => ForeverOnlyWhereStarted
  BY DEF MotorInv
<1> QED
  BY <1>1, <1>2, <1>3, AppInvariance, PTL DEF AppSpec
==============================================================================
