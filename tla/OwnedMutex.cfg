SPECIFICATION Spec
CONSTANTS
    t1 = t1
    t2 = t2
    t3 = t3
    Threads = {t1, t2, t3}
    NoOwner = NoOwner
    Types = {1, 2}
    MaxCounter = 1
    Calls = {"lock", "trylock", "timed", "destroy"}
SYMMETRY Symmetry
INVARIANTS
    TypeOK
    WordMatchesCallers
    NeverWaitsForItself
    DestroyedNotLocked
    TypeAsAsked
