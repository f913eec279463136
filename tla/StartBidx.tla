------------------------------ MODULE StartBidx ------------------------------
(***************************************************************************)
(* start_bidx_of_node (gc.c 436-460): the first file block index covered   *)
(* by the direct node at node offset node_ofs, and a reference definition  *)
(* of the same quantity from the shape of the f2fs node tree.  The tree is *)
(* laid out in node-offset order as: inode (0), two direct nodes (1, 2),   *)
(* an indirect node (3) with NIDS_PER_BLOCK direct nodes, a second         *)
(* indirect node with its direct nodes, then a double-indirect node        *)
(* followed by NIDS_PER_BLOCK groups of one indirect and NIDS_PER_BLOCK    *)
(* direct nodes.                                                           *)
(***************************************************************************)
EXTENDS Integers, FiniteSets

CONSTANTS NIDS_PER_BLOCK, ADDRS_PER_BLOCK, ADDRS_PER_INODE, MAXOFS, UINT_BITS

ASSUME NIDS_PER_BLOCK >= 1 /\ ADDRS_PER_BLOCK >= 1 /\ ADDRS_PER_INODE >= 1

\* The code computes in unsigned int: subtraction wraps modulo 2^32.  TLC's
\* integers are 32-bit signed, so the width is the constant UINT_BITS
\* (below 31); a wrapped value is then still far above every real result.
UInt(x) == x % (2^UINT_BITS)

\* Mutant: the indirect-range test written with < instead of <=, so the
\* last direct node under the second indirect node takes the
\* double-indirect formula.
StartBidxIndirectLt(node_ofs) ==
  LET indirect_blks == 2 * NIDS_PER_BLOCK + 4
      bidx == CASE node_ofs = 0 -> 0
                [] node_ofs <= 2 -> UInt(node_ofs - 1)
                [] node_ofs < indirect_blks ->
                     LET dec == UInt(node_ofs - 4) \div (NIDS_PER_BLOCK + 1)
                     IN  UInt(node_ofs - 2 - dec)
                [] OTHER ->
                     LET dec == UInt(node_ofs - indirect_blks - 3)
                                  \div (NIDS_PER_BLOCK + 1)
                     IN  UInt(node_ofs - 5 - dec)
  IN  IF node_ofs = 0 THEN 0
      ELSE UInt(bidx * ADDRS_PER_BLOCK + ADDRS_PER_INODE)

\* gc.c 436-460.  dec and bidx are computed from unsigned node_ofs, so a
\* subtraction below zero wraps; start_bidx keeps its initialiser 1 as a
\* flag meaning "not the inode".
start_bidx_of_node(node_ofs) ==
  LET indirect_blks == 2 * NIDS_PER_BLOCK + 4
      bidx == CASE node_ofs = 0 -> 0
                [] node_ofs <= 2 -> UInt(node_ofs - 1)
                [] node_ofs <= indirect_blks ->
                     LET dec == UInt(node_ofs - 4) \div (NIDS_PER_BLOCK + 1)
                     IN  UInt(node_ofs - 2 - dec)
                [] OTHER ->
                     LET dec == UInt(node_ofs - indirect_blks - 3)
                                  \div (NIDS_PER_BLOCK + 1)
                     IN  UInt(node_ofs - 5 - dec)
  IN  IF node_ofs = 0 THEN 0
      ELSE UInt(bidx * ADDRS_PER_BLOCK + ADDRS_PER_INODE)

(***************************************************************************)
(* Reference: the kind of each node offset, and the number of data         *)
(* addresses held by the inode and by the direct nodes placed before it.   *)
(***************************************************************************)
DoubleIndirectOfs == 2 * NIDS_PER_BLOCK + 5

IsDirectNode(o) ==
  \/ o \in 1..2
  \/ o \in 4..(3 + NIDS_PER_BLOCK)
  \/ o \in (5 + NIDS_PER_BLOCK)..(4 + 2 * NIDS_PER_BLOCK)
  \/ /\ o > DoubleIndirectOfs
     /\ (o - DoubleIndirectOfs - 1) % (NIDS_PER_BLOCK + 1) # 0

DirectNodesBefore(o) == Cardinality({k \in 1..(o - 1) : IsDirectNode(k)})

RefStartBidx(o) ==
  IF o = 0 THEN 0 ELSE ADDRS_PER_INODE + DirectNodesBefore(o) * ADDRS_PER_BLOCK

====
