SPECIFICATION FairSpec
CONSTANTS
    c1 = c1
    c2 = c2
    p1 = p1
    p2 = p2
    Consumers = {c1, c2}
    Producers = {p1, p2}
    Nobody = Nobody
    Modulus = 2
    MaxItems = 2
INVARIANTS
    WaitReturnsLocked
    NoPulseMissed
    NobodySleepsOnItems
PROPERTY ItemsAreTaken
