\* get_cb_cost against the design's formula.
CONSTANTS
    LOG_SPS = 1
    LOG_BLKS = 2
    MAXT = 3
    NIDS_PER_BLOCK = 9
    ADDRS_PER_BLOCK = 5
    ADDRS_PER_INODE = 7
    MAXOFS = 113
    UINT_BITS = 16
SPECIFICATION Spec
INVARIANT CbCostMatchesRef
