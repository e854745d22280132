SPECIFICATION FairSpec
CONSTANTS
    t1 = t1
    t2 = t2
    t3 = t3
    Threads = {t1, t2, t3}
    NoOwner = NoOwner
    Types = {1}
    MaxCounter = 1
    Calls = {"lock", "trylock"}
INVARIANT SleepersAreRemembered
PROPERTY ImplementsAbstractMutex
