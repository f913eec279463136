\* Two mounts and one proc reader.  Once every mount is torn down and the
\* reader is idle or has faulted, nothing is left to do.
CONSTANTS
  m1 = m1
  m2 = m2
  r1 = r1
  r2 = r2
  Mounts <- MC_Mounts
  Readers <- MC_Readers
  NOBODY = NOBODY
  HEAD = HEAD
SPECIFICATION Spec
INVARIANT ReaderNeverFaults
CHECK_DEADLOCK FALSE
