SPECIFICATION Spec
CONSTANTS
    Handles = {1, 2, 3, 4}
INVARIANTS
    SessionIsOurs
    AtMostOneMoreFails
    OffMeansOff
