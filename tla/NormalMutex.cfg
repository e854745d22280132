SPECIFICATION FairSpec
CONSTANTS
    t1 = t1
    t2 = t2
    t3 = t3
    Threads = {t1, t2, t3}
    Calls = {"lock", "trylock", "timed"}
INVARIANTS
    TypeOK
    MutualExclusion
    WordTellsHolder
    NobodyOrphaned
PROPERTIES
    DestroyedIsFinal
    ImplementsAbstractMutex
    TimedLockReturns
