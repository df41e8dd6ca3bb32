----------------------------- MODULE Application -----------------------------
(***************************************************************************)
(* A program built with the framework (main() of draft.cpp and demo.cpp):  *)
(* it starts the thread of the poller, runs the machine in its own thread  *)
(* until the machine ends or is stopped, tells the poller to end and joins *)
(* it.  EventLoop models the machine; here its steps are put in their      *)
(* place, readings are published by a poller that must have been started,  *)
(* and the commands that actions give to the motors take effect.           *)
(***************************************************************************)
EXTENDS EventLoop

CONSTANTS
    Starts,     \* the states that programs start from
    Motors,
    Command     \* what an action commands: <<motor, command>>

Commands == {"none", "stop", "run-forever", "run-to-abs-pos"}

ASSUME ProgramAssumption ==
    /\ Starts \subseteq States \cup {NoState}
    /\ Command \in [Action -> Motors \X (Commands \ {"none"})]

VARIABLES
    start,      \* the argument of run()
    main,       \* where main() is
    poller,     \* where the thread of the poller is
    working,    \* the poller's working_
    motor,      \* the last command that each motor was given
    taken       \* history: a reading of the sensors has been published

control == <<start, main, poller, working, motor, taken>>
allvars == <<slot, fresh, mode, got, running, lpc, current, previous, act,
             elapsed, performed, asked, start, main, poller, working, motor, taken>>

\* "terminated": an exception left main(), which ends the process.
MainPC == {"start", "call", "run", "end", "join", "returned", "terminated"}

\* "called": before working_ is set; "loop": at the loop's condition; "update":
\* in readSensors; "failed": an exception ended work().
PollerPC == {"none", "called", "loop", "update", "off", "failed"}

\* The process exists.
Alive == main \notin {"returned", "terminated"}

AppTypeOK ==
    /\ TypeOK
    /\ start \in Starts
    /\ main \in MainPC
    /\ poller \in PollerPC
    /\ working \in BOOLEAN
    /\ motor \in [Motors -> Commands]
    /\ taken \in BOOLEAN

AppInit ==
    /\ Init
    /\ start \in Starts
    /\ main = "start"
    /\ poller = "none"
    /\ working = FALSE
    /\ motor = [m \in Motors |-> "none"]
    /\ taken = FALSE

------------------------------------------------------------------------------
(* The thread of the poller, in work().                                    *)

StartWork ==
    /\ Alive
    /\ poller = "called"
    /\ poller' = "loop"
    /\ working' = TRUE
    /\ UNCHANGED <<vars, start, main, motor, taken>>

TestWorking ==
    /\ Alive
    /\ poller = "loop"
    /\ poller' = IF working THEN "update" ELSE "off"
    /\ UNCHANGED <<vars, start, main, working, motor, taken>>

\* readSensors finds a difference and swaps ...
PublishReading ==
    /\ Alive
    /\ poller = "update"
    /\ Publish
    /\ poller' = "loop"
    /\ taken' = TRUE
    /\ UNCHANGED <<start, main, working, motor>>

\* ... or does not.
NothingNew ==
    /\ Alive
    /\ poller = "update"
    /\ poller' = "loop"
    /\ UNCHANGED <<vars, start, main, working, motor, taken>>

\* A sensor cannot be read.  The exception is logged, working_ stays true.
PollerFails ==
    /\ Alive
    /\ poller = "update"
    /\ poller' = "failed"
    /\ UNCHANGED <<vars, start, main, working, motor, taken>>

------------------------------------------------------------------------------
(* main().                                                                 *)

StartThread ==
    /\ main = "start"
    /\ main' = "call"
    /\ poller' = "called"
    /\ UNCHANGED <<vars, start, working, motor, taken>>

RunMachine ==
    /\ main = "call"
    /\ CallRun(start)
    /\ main' = "run"
    /\ UNCHANGED <<start, poller, working, motor, taken>>

\* An action.  Its last access to the motor is the command.
Perform ==
    /\ main = "run"
    /\ Act
    /\ LET command == Command[Actions[current][act]]
       IN  motor' = [motor EXCEPT ![command[1]] = command[2]]
    /\ UNCHANGED <<start, main, poller, working, taken>>

RunStep ==
    /\ main = "run"
    /\ SetRunning \/ Check \/ Entered \/ Call \/ Return \/ NextState
    /\ UNCHANGED control

\* A device is not connected: nobody catches what the callback throws.
Abandon ==
    /\ main = "run"
    /\ Throw
    /\ main' = "terminated"
    /\ UNCHANGED <<start, poller, working, motor, taken>>

RunReturns ==
    /\ main = "run"
    /\ Exit
    /\ main' = "end"
    /\ UNCHANGED <<start, poller, working, motor, taken>>

\* Seeded fault: main() does not tell the poller to end.
EndForgotten ==
    /\ main = "end"
    /\ main' = "join"
    /\ UNCHANGED <<vars, start, poller, working, motor, taken>>

\* poller.end()
End ==
    /\ main = "end"
    /\ main' = "join"
    /\ working' = FALSE
    /\ UNCHANGED <<vars, start, poller, motor, taken>>

Join ==
    /\ main = "join"
    /\ poller \in {"off", "failed"}
    /\ main' = "returned"
    /\ UNCHANGED <<vars, start, poller, working, motor, taken>>

------------------------------------------------------------------------------

\* Another thread of the program calls stop(), as in test_event_loop.cpp.  It
\* has no effect once run() has returned.
StopMachine == main \in {"call", "run"} /\ Stop /\ UNCHANGED control

TimePasses == main = "run" /\ Clock /\ UNCHANGED control

AppNext ==
    \/ StartThread
    \/ RunMachine
    \/ Perform
    \/ RunStep
    \/ Abandon
    \/ RunReturns
    \/ End
    \/ Join
    \/ StartWork
    \/ TestWorking
    \/ PublishReading
    \/ NothingNew
    \/ PollerFails
    \/ StopMachine
    \/ TimePasses

AppSpec == AppInit /\ [][AppNext]_allvars

------------------------------------------------------------------------------
(* Properties.                                                             *)

\* No timeout can make the first copyTo return before the first reading.
WaitsForReading == start # NoState /\ start \notin Timed

\* A machine whose start state has no timeout never decides on the values that
\* CraneData and Poller leave uninitialised (EventLoop.hpp:21, Poller.hpp:22):
\* when conditions are evaluated, a reading of the sensors has been taken.
DecidesOnReadings == lpc = "next" /\ WaitsForReading => taken

\* end() in main() is not overwritten by a work() that begins late
\* (Poller.hpp:47), although nothing in main() waits for work() to begin (the
\* tests do, test_poller.cpp:231): the first reading is what main() waits for.
\* That fails when stop() was called, or when the start state has a timeout.
EndPersists ==
    main \in {"join", "returned"} /\ WaitsForReading /\ ~asked => ~working

\* Motor m, by the actions of state s, runs until it is told otherwise.
RunsOn(s, m) ==
    \E i \in DOMAIN Actions[s] :
        /\ Command[Actions[s][i]] = <<m, "run-forever">>
        /\ \A j \in i + 1 .. Len(Actions[s]) : Command[Actions[s][j]][1] # m

\* A transition leads from state s to state t.
Follows(s, t) == \E k \in DOMAIN Transitions[s] : Transitions[s][k].to = t

\* What the author of a machine must see to: a state that can follow another
\* one gives a command to each motor that the latter leaves running.
StopsWhatRuns ==
    \A s, t \in States, m \in Motors :
        s # t /\ Follows(s, t) /\ RunsOn(s, m) =>
            \E i \in DOMAIN Actions[t] : Command[Actions[t][i]][1] = m

\* When the machine waits or decides in a state, the motors that run without a
\* limit are those that this state has started: each state that can follow
\* stops what the one before it has left running.
ForeverOnlyWhereStarted ==
    lpc \in {"call", "wait", "next"} =>
        \A m \in Motors : motor[m] = "run-forever" <=> RunsOn(current, m)
==============================================================================
