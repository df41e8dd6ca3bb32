\* The programs of the repository (started in A and U) and one that ends (P).
SPECIFICATION AppSpec
CONSTANTS
    A = A
    B = B
    C = C
    D = D
    U = U
    V = V
    P = P
    Q = Q
    States = {A, B, C, D, U, V, P, Q}
    NoState = nullptr
    Starts = {A, U, P}
    Action = {"go_right", "stop_rl", "go_center", "go_up", "stop_ud", "go_down",
              "demo_go_up", "demo_go_down", "forth", "halt"}
    Actions <- MCActions
    Transitions <- MCTransitions
    Timed <- MCTimed
    Motors = {"A", "B", "C"}
    Command <- MCCommand
    MaxElapsed = 2
    Loop = loop
    Data = {"rest", "touched", "centered", "bright", "high"}
    Readings = {"rest", "touched", "centered", "bright", "high"}
    Same <- CraneSame
    Pending = pending
INVARIANTS AppTypeOK DecidesOnReadings EndPersists ForeverOnlyWhereStarted
\* main() returns, or an exception ends the program.
CHECK_DEADLOCK FALSE
