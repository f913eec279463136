------------------------------ MODULE CostModel ------------------------------
(***************************************************************************)
(* The victim cost functions of src/fs/f2fs/gc.c as pure operators over   *)
(* what they read: a section's valid-block total, its mtime total and the  *)
(* min/max mtime bounds of sit_info.  get_cb_cost also returns the bounds  *)
(* it widened.  CbCostRef is the cost-benefit formula as the design        *)
(* document states it, the reference the code is compared with.           *)
(***************************************************************************)
EXTENDS Integers

CONSTANTS
    LOG_SPS,            \* sbi->log_segs_per_sec
    LOG_BLKS            \* sbi->log_blocks_per_seg

SPS  == 2^LOG_SPS                 \* sbi->segs_per_sec
BLKS == 2^LOG_BLKS                \* sbi->blocks_per_seg

\* Costs are unsigned ints compared with each other and with the maximum;
\* a CB benefit is at most 100*100*100/100, so any bound above it stands
\* for UINT_MAX without changing a comparison.
UINT_MAX_M == 1000000

GREEDY == "GC_GREEDY"
CB == "GC_CB"

get_max_cost(mode) == IF mode = GREEDY THEN 2^(LOG_BLKS + LOG_SPS)
                      ELSE UINT_MAX_M

\* A cost-benefit age that forgets the "100 -": newer counts as older.
CbAgeInverted(m, lo, hi) ==
    IF hi # lo THEN (100 * (m - lo)) \div (hi - lo) ELSE 0

\* The age of get_cb_cost: 0 unless the bounds differ.
CbAge(m, lo, hi) ==
    IF hi # lo THEN 100 - (100 * (m - lo)) \div (hi - lo) ELSE 0

\* get_cb_cost: the section's mean mtime widens [min, max], then the cost is
\* UINT_MAX less the benefit of utilisation u and age.
get_cb_cost(vsum, msum, mm) ==
    LET m   == msum \div SPS
        vb  == vsum \div SPS
        u   == (vb * 100) \div BLKS
        lo  == IF m < mm.min THEN m ELSE mm.min
        hi  == IF m > mm.max THEN m ELSE mm.max
    IN [cost |-> UINT_MAX_M - (100 * (100 - u) * CbAge(m, lo, hi)) \div (100 + u),
        mm   |-> [min |-> lo, max |-> hi]]

\* get_gc_cost for the LFS allocation mode used by f2fs_gc.
get_gc_cost(mode, vsum, msum, mm) ==
    IF mode = GREEDY THEN [cost |-> vsum, mm |-> mm]
    ELSE get_cb_cost(vsum, msum, mm)

\* The reference: the design's CB cost, whose age is 100 when the widened
\* bounds are equal.
CbCostRef(vsum, msum, mm) ==
    LET m   == msum \div SPS
        u   == ((vsum \div SPS) * 100) \div BLKS
        lo  == IF m < mm.min THEN m ELSE mm.min
        hi  == IF m > mm.max THEN m ELSE mm.max
        age == IF hi = lo THEN 100 ELSE 100 - (100 * (m - lo)) \div (hi - lo)
    IN UINT_MAX_M - (100 * (100 - u) * age) \div (100 + u)

=============================================================================
