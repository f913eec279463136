\* Two mounts and two proc readers, so that both readers can contend for
\* one stat_list mutex with destroy_gc_manager waiting on it.  Mounts and
\* readers are symmetric.  Once every mount is torn down and each reader
\* is idle or has faulted, nothing is left to do.
CONSTANTS
  m1 = m1
  m2 = m2
  r1 = r1
  r2 = r2
  Mounts <- MC_Mounts
  Readers <- MC_TwoReaders
  NOBODY = NOBODY
  HEAD = HEAD
SYMMETRY MC_Symmetry
SPECIFICATION Spec
INVARIANT SbiStableWhileUsed
CHECK_DEADLOCK FALSE
