SPECIFICATION UpgradeSpec
CONSTANTS
    app = app
    misc = misc
    Names = {app, misc}
    f1 = f1
    Files = {f1}
    MaxBatch = 2
    Commands = {"save", "enable", "disable", "get", "set"}
SYMMETRY Symmetry
INVARIANTS
    TypeOK
    DataFollowsMark
    HintIsCurrentSystem
    DataSetsStayWhole
    NoUserDataLost
    NothingIsBuried
    UpgradeMovesFilesOnly
