\* Can FG_GC's fast path hand f2fs_gc the current section?  Two-segment
\* sections, from a mounted layout in which background GC can tag a section
\* holding a free segment; GC runs alone.
CONSTANTS
    NSEC <- MC_NSEC_Sps2Bg
    LOG_SPS <- MC_LOG_SPS_Sps2Bg
    LOG_BLKS = 1
    MAX_VICTIM_SEARCH = 1
    RESERVED_SECS = 0
    USER_CAP = 3
    MAXT = 1
    NGC = 1
    ENV_DURING_GC = FALSE
SPECIFICATION MC_Sps2BgSpec
PROPERTY VictimNeverCurrent
