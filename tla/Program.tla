------------------------------ MODULE Program ------------------------------
(***************************************************************************)
(* A program and its poller: main() and the machine as in Application, but *)
(* the thread in work() and the calls of copyTo are those of Poller, step  *)
(* by step, in place of an abstract channel.                               *)
(*                                                                         *)
(* Where main() and the machine do not touch the poller their steps are    *)
(* those of Application (App, which sees of the poller what Place, Slot,   *)
(* Mode and Got show of it); where they do, a step of Poller happens       *)
(* together with a step of theirs.                                         *)
(***************************************************************************)
EXTENDS Poller, Sequences

CONSTANTS
    Runner,         \* the thread of main(), in which the machine runs
    States, NoState, Action, Actions, Transitions, Timed, MaxElapsed,
                    \* see EventLoop
    Starts, Motors, Command
                    \* see Application

\* In a program, nobody but the event loop calls copyTo.
ASSUME RunnerAssumption == Consumers = {Runner}

VARIABLES
    running, lpc, current, previous, act, elapsed, performed, asked,
                    \* of EventLoop
    start, main, motor, taken
                    \* of Application

machine == <<running, lpc, current, previous, act, elapsed, performed, asked,
             start, main, motor, taken>>
progvars == <<vars, machine>>

\* All that stays when the machine moves between its own steps and copyTo.
inside == <<running, current, previous, act, elapsed, performed, asked,
            start, main, motor, taken>>

\* All that stays when main() takes a step around run().
outside == <<running, lpc, current, previous, act, elapsed, performed, asked,
             start, motor, taken>>

\* What Application tells apart of the places of the poller's thread.
Place ==
    IF main = "start" THEN "none"
    ELSE IF wpc = "enter" THEN "called"
    ELSE IF wpc \in {"notify", "sleep", "loop"} THEN "loop"
    ELSE IF wpc \in {"update", "lock", "flip", "raise"} THEN "update"
    ELSE wpc

App == INSTANCE Application WITH
    Loop <- Runner, slot <- Slot, fresh <- new_data, mode <- Mode, got <- Got,
    poller <- Place

ASSUME ConstantsAssumption == App!MachineAssumption /\ App!ProgramAssumption

ProgInit == Init /\ App!AppInit

------------------------------------------------------------------------------
(* The poller's thread, and the hardware.                                  *)

\* A step of work(), unless the process has ended.
PollerRuns ==
    /\ App!Alive
    /\ WorkerStep \/ ReadThrows
    /\ taken' = IF wpc = "raise" THEN TRUE ELSE taken
    /\ UNCHANGED <<running, lpc, current, previous, act, elapsed, performed,
                   asked, start, main, motor>>

HardwareChanges == SensorChange /\ UNCHANGED machine

------------------------------------------------------------------------------
(* main() and run(), where they use the poller.                            *)

\* std::thread poller_thread([&poller](){poller.work();});
StartThread ==
    /\ main = "start"
    /\ CallWork
    /\ main' = "call"
    /\ UNCHANGED outside

\* run() begins.  Its local data, to be passed to copyTo, is uninitialised.
Prepare ==
    /\ main = "run"
    /\ dst' \in [Consumers -> Data]
    /\ UNCHANGED <<sensor, shared, working, wvars, cpc, timed, src, cfield>>
    /\ App!SetRunning
    /\ UNCHANGED <<start, main, motor, taken>>

\* Seeded fault: timeout_ is not passed to copyTo.
CallPollerUntimed ==
    /\ main = "run"
    /\ lpc = "call"
    /\ CallCopyTo(Runner)
    /\ ~timed'[Runner]
    /\ lpc' = "wait"
    /\ UNCHANGED inside

\* poller_.copyTo(data, current_state->getTimeout()) is called ...
CallPoller ==
    /\ main = "run"
    /\ lpc = "call"
    /\ CallCopyTo(Runner)
    /\ timed'[Runner] = (current \in Timed)
    /\ lpc' = "wait"
    /\ UNCHANGED inside

\* ... waits and copies ...
InCopyTo ==
    /\ main = "run"
    /\ LockCopy(Runner) \/ Test(Runner) \/ Timeout(Runner) \/ CopyField(Runner)
    /\ UNCHANGED machine

WakesUp ==
    /\ main = "run"
    /\ SpuriousWake(Runner)
    /\ UNCHANGED machine

\* ... and returns.
PollerReturns ==
    /\ main = "run"
    /\ FinishCopy(Runner)
    /\ lpc' = "next"
    /\ UNCHANGED inside

\* Seeded fault: main() does not tell the poller to end.
EndPollerForgotten ==
    /\ main = "end"
    /\ main' = "join"
    /\ UNCHANGED <<vars, outside>>

\* poller.end();
EndPoller ==
    /\ main = "end"
    /\ End
    /\ main' = "join"
    /\ UNCHANGED outside

------------------------------------------------------------------------------
(* main() and run(), where they do not, and what happens to them.          *)

\* One of its own steps, inside run() or around it.
MachineRuns ==
    /\ UNCHANGED vars
    /\ \/ App!RunMachine \/ App!RunReturns \/ App!Join
       \/ /\ main = "run"
          /\ UNCHANGED <<start, main, taken>>
          /\ \/ App!Perform
             \/ (App!Check \/ App!Entered \/ App!NextState) /\ UNCHANGED motor

MachineDisturbed ==
    /\ UNCHANGED vars
    /\ App!Abandon \/ App!StopMachine \/ App!TimePasses

MainRuns ==
    \/ StartThread
    \/ Prepare
    \/ CallPoller
    \/ InCopyTo
    \/ PollerReturns
    \/ EndPoller
    \/ MachineRuns

ProgNext ==
    \/ PollerRuns
    \/ HardwareChanges
    \/ MainRuns
    \/ WakesUp
    \/ MachineDisturbed

ProgSpec == ProgInit /\ [][ProgNext]_progvars

(* Fairness: that of Poller for the poller's thread and for the steps in    *)
(* copyTo, and the thread of main() is scheduled.  Nothing is assumed of    *)
(* sensors, of exceptions, of the clock, or of the thread that calls stop(). *)
ProgFairSpec ==
    /\ ProgSpec
    /\ WF_progvars(PollerRuns)
    /\ SF_progvars(PollerRuns /\ LockSwap)
    /\ WF_progvars(MainRuns)
    /\ SF_progvars(InCopyTo /\ LockCopy(Runner))
    /\ SF_progvars(InCopyTo /\ Timeout(Runner))

------------------------------------------------------------------------------
(* Properties.                                                             *)

\* The machine and main() cannot tell the poller from the channel: that a call
\* of copyTo is many steps, between which work() reads, swaps and notifies
\* (Poller.hpp:30-43, 73-84), makes no difference to what a program can do.
ImplementsApplication == App!AppSpec

\* Once main() has called end(), work() ends and the program returns, wherever
\* that thread is, also if it has failed before.
JoinReturns ==
    main = "join" /\ App!WaitsForReading /\ ~asked ~> main = "returned"

\* EventLoop's property of that name, without assuming that a call of copyTo
\* that can return does: a stop() that is not overwritten ends run(), unless no
\* reading is announced while the machine waits in a state without timeout.
StopTerminatesUnlessBlocked == App!StopTerminatesUnlessBlocked
==============================================================================
