----------------------------- MODULE MC_F2fsGc -----------------------------
(* Instances of F2fsGc for TLC: one-segment sections (MC_*_Sps1), from    *)
(* a new file system (Init) or a mounted layout, and two-segment sections  *)
(* from a mounted layout in which background GC tags sections              *)
(* (MC_*_Sps2Bg).                                                          *)
EXTENDS F2fsGc

\* Three one-segment sections of two blocks.
MC_NSEC_Sps1 == 3
MC_LOG_SPS_Sps1 == 0

\* Three two-segment sections of two blocks.  With no reserved section,
\* background GC runs as BG_GC while one section is free, and foreground
\* GC inherits its tags once none is.
MC_NSEC_Sps2Bg == 3
MC_LOG_SPS_Sps2Bg == 1

\* A mount layout of MC_NSEC_Sps1 in which the log's segment 0 holds one
\* block written at time 1 and segment 1 one block written at time 0, so
\* that the mtime bounds differ and background GC, with segment 2 free,
\* selects segment 1 under the cost-benefit policy.
MC_Layouts_Sps1 ==
    {[now |-> 1, curseg |-> 0, curOff |-> 1,
      mtime |-> [s \in 0..2 |-> IF s = 0 THEN 1 ELSE 0],
      valid |-> [s \in 0..2 |-> CASE s = 0 -> {0}
                                  [] s = 1 -> {1}
                                  [] OTHER -> {}]]}

MC_Sps1Spec == MountInit(MC_Layouts_Sps1) /\ [][Next]_vars

\* A mounted layout of MC_NSEC_Sps2Bg: the log at the end of section 0
\* (segment 1 full), section 1 with segment 2 free and one old valid block
\* in segment 3, section 2 free, the clock at 1.
MC_Layouts_Sps2Bg ==
    {[now |-> 1, curseg |-> 1, curOff |-> 2,
      mtime |-> [s \in 0..5 |-> IF s = 1 THEN 1 ELSE 0],
      valid |-> [s \in 0..5 |-> CASE s = 1 -> {0, 1}
                                  [] s = 3 -> {1}
                                  [] OTHER -> {}]]}

MC_Sps2BgSpec == MountInit(MC_Layouts_Sps2Bg) /\ [][Next]_vars
=============================================================================
