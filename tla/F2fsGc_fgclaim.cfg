\* Does a section a foreground f2fs_gc left dirty stay selectable?
\* One-segment sections from a new file system, GC alone.
CONSTANTS
    NSEC <- MC_NSEC_Sps1
    LOG_SPS <- MC_LOG_SPS_Sps1
    LOG_BLKS = 1
    MAX_VICTIM_SEARCH = 1
    RESERVED_SECS = 1
    USER_CAP = 2
    MAXT = 1
    NGC = 1
    ENV_DURING_GC = FALSE
SPECIFICATION Spec
INVARIANT FgClaimEndsWithGc
