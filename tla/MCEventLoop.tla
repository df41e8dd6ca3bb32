----------------------------- MODULE MCEventLoop -----------------------------
(* State machines for model checking EventLoop: that of draft.cpp, and one *)
(* after the unit tests.                                                   *)
EXTENDS EventLoop, CraneMachines

CONSTANTS X, Y, Z       \* the states of a machine after the unit tests

Always == Readings \X Duration

(* The machine of test_event_loop.cpp:85-107 with, in the manner of        *)
(* test_state.cpp:129-172, several conditions per state in X, a transition *)
(* to itself in Y, and a way out in Z.                                     *)
CyclicCalls == <<
    AddAction(X, "a1"), AddAction(X, "a2"),
    AddTransition(X, When("touched", Duration), Y),
    AddTransition(X, Always \ When("rest", Duration), Z),
    SetTimeout(X),
    AddAction(Y, "b"),
    AddTransition(Y, When("bright", Duration), Y),
    AddTransition(Y, After(0, Duration), Z),
    SetTimeout(Y),
    AddTransition(Z, When("rest", Duration), NoState),
    AddTransition(Z, Always, X),
    SetTimeout(Z) >>

(* Both machines, and each: a run starts in any of the states.             *)
AllCalls == DraftCalls(Duration) \o CyclicCalls
AllActions == ActionsBy(AllCalls, States)
AllTransitions == TransitionsBy(AllCalls, States)
AllTimed == TimedBy(AllCalls) \cap States

(* What the configurations put in place of the constants: TLC evaluates    *)
(* the definitions above only once, but these whenever they are used.      *)
MCActions == AllActions
MCTransitions == AllTransitions
MCTimed == AllTimed
==============================================================================
