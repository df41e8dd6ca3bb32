\* Two threads, as many files as the cache has room for.
SPECIFICATION Spec
CONSTANTS
    Threads = {t1, t2}
    Attributes = {a1, a2}
    NoAttr = noattr
    Operations = {"get_int", "get_text", "set_int", "set_string"}
    CacheSize = 2
INVARIANTS TypeOK NoUseAfterEviction AbsentExplainsFailure
SYMMETRY ThreadAndFileSymmetry
