\* One consumer, readings of two fields of which == looks at one.
SPECIFICATION FairSpec
CONSTANTS
    Consumers = {c1}
    NumFields = 2
    Value = {0, 1}
    Same <- CraneSame
    Worker = worker
    Free = free
    Pending = pending
INVARIANTS TypeOK NoRace CopyIntact NoLostWakeup
PROPERTIES
    ImplementsChannel WaitersServed TimedCallReturns EndStopsWorker
    StableReadingPublished
