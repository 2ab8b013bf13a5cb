SPECIFICATION Spec
CONSTANTS
    num_inodes = 3
    num_blocks = 11
    InodesPerBlock = 4
    DentriesPerBlock = 4
    VSFS_NUM_DIRECT = 2
    BLOCK_SIZE = 2
    Names = {a, b}
    Sizes <- AroundBoundary
    Writes <- NoRanges
    Reads <- NoRanges
    Values <- OneValue
INVARIANTS
    MountsAgain
