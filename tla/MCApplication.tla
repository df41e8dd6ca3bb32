---------------------------- MODULE MCApplication ----------------------------
(* The programs draft.cpp and demo.cpp, and one that ends by itself.       *)
EXTENDS Application, CraneMachines

CONSTANTS P, Q      \* the states of a machine that ends

\* Runs motor A until the touch sensor is pressed, then stops it and ends, with
\* a transition to nullptr as in test_state.cpp:149.
EndingCalls == <<
    AddAction(P, "forth"),
    AddTransition(P, When("touched", Duration), Q),
    AddAction(Q, "halt"),
    AddTransition(Q, After(-1, Duration), NoState),
    SetTimeout(Q) >>

AllCalls == DraftCalls(Duration) \o DemoCalls(Duration) \o EndingCalls
AllActions == ActionsBy(AllCalls, States)
AllTransitions == TransitionsBy(AllCalls, States)
AllTimed == TimedBy(AllCalls)
AllCommands ==
    [a \in Action |-> CASE a = "forth" -> <<"A", "run-forever">>
                        [] a = "halt" -> <<"A", "stop">>
                        [] OTHER -> CraneCommand[a]]

\* In place of the constants, see MCEventLoop.
MCActions == AllActions
MCTransitions == AllTransitions
MCTimed == AllTimed
MCCommand == AllCommands

\* The programs are written so that no motor is left running.
ASSUME ProgramsStopWhatRuns == StopsWhatRuns
==============================================================================
