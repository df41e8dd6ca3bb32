\* Readings of two fields, == ignores one: is the newest reading published?
SPECIFICATION FairSpec
CONSTANTS
    Consumers = {c1}
    NumFields = 2
    Value = {0, 1}
    Same <- CraneSame
    Worker = worker
    Free = free
    Pending = pending
PROPERTY NewestReadingPublished
