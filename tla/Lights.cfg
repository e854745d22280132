SPECIFICATION Spec
CONSTANTS
    Requests <- SomeRequests
INVARIANTS TypeOK LedShowsWinner PanelsAgree
PROPERTY OffBeforeOn
