SPECIFICATION Spec
CONSTANTS
    Total = 9
    Reserve = 2
    MinStorage = 3
    Grid = {2, 4, 6, 8}
INVARIANTS TypeOK DataBlocksKept DataMountable
