\* Two threads, more files than the cache has room for.
SPECIFICATION FairSpec
CONSTANTS
    Threads = {t1, t2}
    Attributes = {a1, a2, a3}
    NoAttr = noattr
    Operations = {"set_int"}
    CacheSize = 2
INVARIANTS StreamOutlivesUse
PROPERTIES CallsReturn
