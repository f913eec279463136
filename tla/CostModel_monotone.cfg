\* P6 over sections of two segments of four blocks and mtimes up to 3;
\* start_bidx_of_node over the whole node tree of a block holding nine
\* node ids (every branch of the offset arithmetic is reached), in 16-bit
\* unsigned arithmetic.
CONSTANTS
    LOG_SPS = 1
    LOG_BLKS = 2
    MAXT = 3
    NIDS_PER_BLOCK = 9
    ADDRS_PER_BLOCK = 5
    ADDRS_PER_INODE = 7
    MAXOFS = 113
    UINT_BITS = 16
SPECIFICATION Spec
INVARIANT CbMonotone
INVARIANT StartBidxMatchesRef
