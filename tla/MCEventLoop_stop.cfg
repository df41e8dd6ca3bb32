\* A machine all of whose states have a timeout.
SPECIFICATION FairSpec
CONSTANTS
    A = A
    B = B
    C = C
    D = D
    U = U
    V = V
    X = X
    Y = Y
    Z = Z
    States = {X, Y, Z}
    NoState = nullptr
    Action = {"go_right", "stop_rl", "go_center", "go_up", "stop_ud", "go_down",
              "a1", "a2", "b"}
    Actions <- MCActions
    Transitions <- MCTransitions
    Timed <- MCTimed
    MaxElapsed = 1
    Loop = loop
    Data = {"rest", "touched", "centered", "bright"}
    Readings = {"rest", "touched", "centered", "bright"}
    Same <- CraneSame
    Pending = pending
PROPERTY StopTerminates
