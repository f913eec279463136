\* Does a foreground f2fs_gc that returns GC_DONE free what nfree counts?
\* One-segment sections, writes and checkpoints interleaved with GC.
CONSTANTS
    NSEC <- MC_NSEC_Sps1
    LOG_SPS <- MC_LOG_SPS_Sps1
    LOG_BLKS = 1
    MAX_VICTIM_SEARCH = 1
    RESERVED_SECS = 1
    USER_CAP = 2
    MAXT = 1
    NGC = 1
    ENV_DURING_GC = TRUE
SPECIFICATION Spec
PROPERTY NfreeMeansFreed
