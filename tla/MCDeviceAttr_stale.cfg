\* One thread reads an attribute that was created anew.
SPECIFICATION Spec
CONSTANTS
    Threads = {t1}
    Attributes = {a1}
    NoAttr = noattr
    Operations = {"get_int"}
    CacheSize = 1
INVARIANTS ReadRecovers
