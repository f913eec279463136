\* One-segment sections: the core GC loop against writes, writeback and
\* checkpoints, from a mounted file system in which background GC selects
\* and dirties pages for the writer, and foreground GC takes over once the
\* free section is used.
CONSTANTS
    NSEC <- MC_NSEC_Sps1
    LOG_SPS <- MC_LOG_SPS_Sps1
    LOG_BLKS = 1
    MAX_VICTIM_SEARCH = 1
    RESERVED_SECS = 0
    USER_CAP = 2
    MAXT = 1
    NGC = 1
    ENV_DURING_GC = TRUE
SPECIFICATION MC_Sps1Spec
INVARIANT TypeOK
