\* Started in P, which waits for a reading, or in Q, which has a timeout.
SPECIFICATION ProgFairSpec
CONSTANTS
    Runner = runner
    Consumers = {runner}
    NumFields = 1
    Value = {"rest", "touched"}
    Same <- ExactSame
    Worker = worker
    Free = free
    Pending = pending
    P = P
    Q = Q
    States = {P, Q}
    NoState = nullptr
    Starts = {P, Q}
    Action = {"forth", "halt"}
    Actions <- MCActions
    Transitions <- MCTransitions
    Timed = {Q}
    Motors = {"A"}
    Command <- MCCommand
    MaxElapsed = 0
PROPERTIES ImplementsApplication JoinReturns StopTerminatesUnlessBlocked
