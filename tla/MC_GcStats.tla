------------------------------ MODULE MC_GcStats ------------------------------
(* Instances of GcStats for TLC.                                          *)
EXTENDS GcStats, TLC

CONSTANTS m1, m2, r1, r2

MC_Mounts == {m1, m2}
MC_OneMount == {m1}
MC_Readers == {r1}
MC_TwoReaders == {r1, r2}

\* Mounts and readers are interchangeable: Init treats them alike and every
\* property quantifies over all of them.
MC_Symmetry == Permutations(MC_Mounts) \cup Permutations(MC_TwoReaders)
====
