\* Two inodes, three file blocks (two of i1) and a three-block victim
\* whose summary names all three: both blocks of i1 give the duplicate
\* add_gc_inode, the block of i2 a second pin.  The node victim holds two
\* nodes around an unused block.
CONSTANTS
  i1 = i1
  i2 = i2
  n1 = n1
  n2 = n2
  Nodes <- MC_Nodes
  NSUM <- MC_NSUM
  Inodes <- MC_Inodes
  FileBlocks <- MC_FileBlocks
  SUM <- MC_SUM
  ENV_STEPS = 4
  BLKS = 3
  BG = BG
  FG = FG
  NONE = NONE
  OUT = OUT
  NULL_ADDR = NULL_ADDR
SPECIFICATION Spec
INVARIANT InodeLiveWhileUsed
INVARIANT PinsReleasedWhenIdle
INVARIANT NodeBlocksMovedOnDone
PROPERTY EvacAtomicSpec
