----------------------------- MODULE MC_DataEvac -----------------------------
(* Instance of DataEvac for TLC: two inodes of two blocks each, so that   *)
(* one inode can own two blocks of the victim and be pinned twice.        *)
EXTENDS DataEvac, TLC

CONSTANTS i1, i2, n1, n2

MC_Inodes == {i1, i2}

\* Inode i1 owns two file blocks, i2 one.
MC_FileBlocks == {<<i1, 0>>, <<i1, 1>>, <<i2, 0>>}

\* The victim holds both blocks of i1 around the block of i2, so the pin
\* list sees i1 twice with another inode in between.
MC_SUM == (0 :> <<i1, 0>> @@ 1 :> <<i2, 0>> @@ 2 :> <<i1, 1>>)

MC_Nodes == {n1, n2}

\* A node victim with two nodes and an unused block between them.
MC_NSUM == (0 :> n1 @@ 1 :> NONE @@ 2 :> n2)
====
