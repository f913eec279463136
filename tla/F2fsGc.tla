------------------------------- MODULE F2fsGc -------------------------------
(***************************************************************************)
(* The garbage collector core of f2fs (src/fs/f2fs/gc.c): victim selection *)
(* (get_victim_by_default and its cost model), the f2fs_gc loop with its   *)
(* checkpoint fallback, and the per-block evacuation of a data segment,    *)
(* run by the background worker or a foreground caller under gc_mutex,     *)
(* interleaved with the rest of the file system: user writes, overwrites   *)
(* and deletes, writeback of pages the GC dirtied, and checkpoints.        *)
(*                                                                         *)
(* Segments hold BLKS blocks; a block is valid or not (cur_valid_map).     *)
(* One log appends into the current segment `curseg`.  The collaborators   *)
(* outside gc.c (allocator, checkpoint, dirty-list bookkeeping) are        *)
(* modelled from the specification; see README.md.                          *)
(***************************************************************************)
EXTENDS CostModel, FiniteSets, FiniteSetsExt

CONSTANTS
    NSEC,               \* number of sections in the main area
    MAX_VICTIM_SEARCH,  \* bound on costed candidates per selection
    RESERVED_SECS,      \* reserved_sections(sbi)
    USER_CAP,           \* user_block_count: live user blocks allowed
    MAXT,               \* largest value of the mtime clock
    NGC,                \* sections a foreground caller asks f2fs_gc for
    ENV_DURING_GC       \* whether writes and checkpoints interleave with GC

ASSUME /\ NSEC \in Nat \ {0}
       /\ LOG_SPS \in Nat /\ LOG_BLKS \in Nat \ {0}
       /\ MAX_VICTIM_SEARCH \in Nat
       /\ RESERVED_SECS \in Nat /\ USER_CAP \in Nat
       /\ MAXT \in Nat /\ NGC \in Nat
       /\ ENV_DURING_GC \in BOOLEAN

NSEG == NSEC * SPS                \* TOTAL_SEGS(sbi)
Segs == 0..(NSEG - 1)
Secs == 0..(NSEC - 1)
Blks == 0..(BLKS - 1)
Times == 0..MAXT
NULL_SEGNO == NSEG                \* any value >= TOTAL_SEGS, as in f2fs

BG == "BG_GC"
FG == "FG_GC"
GC_NONE == "GC_NONE"
GC_DONE == "GC_DONE"
GC_BLOCKED == "GC_BLOCKED"
GC_ERROR == "GC_ERROR"
NOBODY == "nobody"
Statuses == {GC_NONE, GC_DONE, GC_BLOCKED, GC_ERROR}

VARIABLES
    valid,       \* seg -> set of valid block offsets (cur_valid_map)
    dirtyPg,     \* seg -> offsets whose page GC has dirtied, not yet written
    curseg,      \* the current segment of the log
    curOff,      \* next offset the log writes in curseg
    free,        \* free segments (free_segmap)
    mtime,       \* seg -> seg_entry mtime
    now,         \* get_mtime(sbi)
    minMtime,    \* sit_i->min_mtime
    maxMtime,    \* sit_i->max_mtime
    victimBG,    \* victim_segmap[BG_GC]
    victimFG,    \* victim_segmap[FG_GC]
    lastVictim,  \* sbi->last_victim[gc_mode]
    cpLocked,    \* cp_mutex held and operations blocked by block_operations
    gc,          \* the holder of gc_mutex and the locals of its f2fs_gc
    ssaStale     \* the log reallocated the segment f2fs_gc is walking after
                 \* do_garbage_collect read its summary block

envVars == <<valid, dirtyPg, curseg, curOff, free, mtime, now, ssaStale>>
vars == <<valid, dirtyPg, curseg, curOff, free, mtime, now, minMtime,
          maxMtime, victimBG, victimFG, lastVictim, cpLocked, gc, ssaStale>>

-----------------------------------------------------------------------------
(* Segment bookkeeping read by the GC.                                     *)

SecOf(s) == s \div SPS                            \* GET_SECNO
SecSegs(k) == (k * SPS)..(k * SPS + SPS - 1)
Align(s) == SecOf(s) * SPS
IsCurSec(k) == SecOf(curseg) = k                  \* IS_CURSEC

\* dirty_segmap[DIRTY]: partly valid, neither free nor current
Dirty(s) == /\ s \notin free
            /\ s # curseg
            /\ valid[s] # {}
            /\ valid[s] # Blks
PreFree == {s \in Segs : s \notin free /\ s # curseg /\ valid[s] = {}}
FreeSecsOf(fr) == {k \in Secs : SecSegs(k) \subseteq fr}
\* has_not_enough_free_secs
NotEnoughOf(fr) == Cardinality(FreeSecsOf(fr)) <= RESERVED_SECS
NotEnoughFreeSecs == NotEnoughOf(free)
TotalValid == MapThenSumSet(LAMBDA s : Cardinality(valid[s]), Segs)

\* get_valid_blocks(sbi, segno, log_segs_per_sec)
SecValid(k) == MapThenSumSet(LAMBDA s : Cardinality(valid[s]), SecSegs(k))

-----------------------------------------------------------------------------
(* Cost model and victim selection (get_victim_by_default).                *)

select_gc_type(gcType) == IF gcType = BG THEN CB ELSE GREEDY

\* The section's mtime total read by get_cb_cost.
MtimeSum(k) == MapThenSumSet(LAMBDA s : mtime[s], SecSegs(k))

\* check_bg_victims: the first set bit of victim_segmap[BG_GC]
check_bg_victims == IF victimBG = {} THEN NULL_SEGNO ELSE Min(victimBG)

\* The scan passes over a segment FG_GC has taken, one BG_GC has taken when
\* it is BG_GC scanning, and any segment of a current section.
SkipSeg(gcType, s) ==
    \/ s \in victimFG
    \/ gcType = BG /\ s \in victimBG
    \/ IsCurSec(SecOf(s))

\* The while(1) loop of get_victim_by_default.  st.off is p.offset,
\* st.n nsearched, st.last sbi->last_victim[p.gc_mode], st.mm the mtime
\* bounds get_cb_cost updates, st.costed the candidates costed below the
\* maximum (those nsearched is meant to bound).
RECURSIVE VictimScan(_, _, _)
VictimScan(gcType, mode, st) ==
    LET cand == {s \in Segs : s >= st.off /\ Dirty(s)}
    IN IF cand = {}
       THEN IF st.last # 0
            THEN VictimScan(gcType, mode, [st EXCEPT !.last = 0, !.off = 0])
            ELSE st
       ELSE LET s   == Min(cand)
                st1 == [st EXCEPT !.off = Align(s) + SPS]
            IN IF SkipSeg(gcType, s)
               THEN VictimScan(gcType, mode, st1)
               ELSE LET k   == SecOf(s)
                        c   == get_gc_cost(mode, SecValid(k), MtimeSum(k), st1.mm)
                        st2 == IF st1.minCost > c.cost
                               THEN [st1 EXCEPT !.minSeg = s,
                                                !.minCost = c.cost,
                                                !.mm = c.mm]
                               ELSE [st1 EXCEPT !.mm = c.mm]
                        st3 == [st2 EXCEPT !.costed = @ + 1]
                    IN IF c.cost = get_max_cost(mode)
                       THEN VictimScan(gcType, mode, st2)
                       ELSE IF st3.n >= MAX_VICTIM_SEARCH
                            THEN [st3 EXCEPT !.last = s]
                            ELSE VictimScan(gcType, mode,
                                            [st3 EXCEPT !.n = @ + 1])

\* select_policy for LFS allocation, with the initialisation of p that
\* get_victim_by_default adds: the scan state before the first segment.
select_policy(gcType) ==
    LET mode == select_gc_type(gcType)
    IN [off |-> lastVictim[mode], n |-> 0, costed |-> 0,
        minSeg |-> NULL_SEGNO, minCost |-> get_max_cost(mode),
        last |-> lastVictim[mode], mm |-> [min |-> minMtime, max |-> maxMtime]]

\* got_it: the section-aligned result, tagged in victim_segmap[gc_type],
\* from the selection state st (a fast-path pick of bgSeg, or the scan's).
GotIt(gcType, mode, fast, bgSeg, st) ==
    LET found == st.minSeg # NULL_SEGNO
        res   == IF found THEN Align(st.minSeg) ELSE NULL_SEGNO
        vBG   == IF fast THEN victimBG \ {bgSeg} ELSE victimBG
        tag   == IF found THEN res..(res + SPS - 1) ELSE {}
    IN [found |-> found, segno |-> res,
        vBG  |-> IF gcType = BG THEN vBG \cup tag ELSE vBG,
        vFG  |-> IF gcType = FG THEN victimFG \cup tag ELSE victimFG,
        last |-> [lastVictim EXCEPT ![mode] = st.last],
        mm   |-> st.mm, costed |-> st.costed]

\* get_victim_by_default(sbi, &segno, gc_type, NO_CHECK_TYPE), as called
\* by __get_victim: the selection result and the selector state after it.
\* (The scan's result is bound once, as a set element, so that TLC does
\* not repeat the scan for each use.)
get_victim_by_default(gcType) ==
    LET mode  == select_gc_type(gcType)
        start == select_policy(gcType)
        bgSeg == check_bg_victims
        fast  == gcType = FG /\ bgSeg # NULL_SEGNO
    IN {GotIt(gcType, mode, fast, bgSeg, st) :
          st \in {IF fast THEN [start EXCEPT !.minSeg = bgSeg]
                  ELSE VictimScan(gcType, mode, start)}}

\* __get_victim (625-634): sentry_lock is held across v_ops->get_victim,
\* which is get_victim_by_default, so no writer changes the dirty list or
\* the SIT while the selection runs: it is one step.
get_victim(gcType) == get_victim_by_default(gcType)

-----------------------------------------------------------------------------
(* The collaborators: the log, dirty-list bookkeeping, checkpoint.         *)

\* new_curseg: the next segment of the current section if free, else the
\* first segment of a free section.
NewSegCandidates ==
    IF curseg + 1 \in free /\ SecOf(curseg + 1) = SecOf(curseg)
    THEN {curseg + 1}
    ELSE {k * SPS : k \in FreeSecsOf(free)}

\* Appends one block to the log after the caller's own change v / mt of the
\* valid map and mtimes; stale is ssaStale before the append.  A new
\* segment the log opens may be the one f2fs_gc is walking.
LogAppend(v, mt, stale) ==
    \/ /\ curOff < BLKS
       /\ valid' = [v EXCEPT ![curseg] = @ \cup {curOff}]
       /\ mtime' = [mt EXCEPT ![curseg] = now]
       /\ curOff' = curOff + 1
       /\ ssaStale' = stale
       /\ UNCHANGED <<curseg, free>>
    \/ /\ curOff = BLKS
       /\ \E s \in NewSegCandidates :
            /\ valid' = [v EXCEPT ![s] = {0}]
            /\ mtime' = [mt EXCEPT ![s] = now]
            /\ curseg' = s
            /\ curOff' = 1
            /\ free' = free \ {s}
            /\ ssaStale' = (stale \/ (gc.pc = "blk" /\ s = gc.segno + gc.i))

\* __remove_dirty_segment: a segment leaving the dirty list loses its
\* victim bits.
LeaveDirty(vm) == {s \in vm : Dirty(s) => Dirty(s)'}

Invalidate(s, b) == [valid EXCEPT ![s] = @ \ {b}]
Touch(s) == [mtime EXCEPT ![s] = now]

\* Every change of the valid map ends in locate_dirty_segment.
LocateDirty == /\ victimBG' = LeaveDirty(victimBG)
               /\ victimFG' = LeaveDirty(victimFG)

gcVars == <<minMtime, maxMtime, lastVictim, cpLocked, gc>>

\* The other threads run while the file system is not blocked, and, when
\* ENV_DURING_GC is FALSE, only while nobody holds gc_mutex (a subset of
\* the interleavings, used where the full set is out of reach).
EnvMayRun == ~cpLocked /\ (ENV_DURING_GC \/ gc.owner = NOBODY)

\* A user write of a new block (ENOSPC beyond user_block_count).
UserWrite ==
    /\ EnvMayRun
    /\ TotalValid < USER_CAP
    /\ LogAppend(valid, mtime, ssaStale)
    /\ UNCHANGED <<dirtyPg, now, gcVars>>
    /\ LocateDirty

\* An overwrite: the new block is appended, the old one invalidated.
UserOverwrite(s, b) ==
    /\ EnvMayRun
    /\ b \in valid[s]
    /\ LogAppend(Invalidate(s, b), Touch(s), ssaStale)
    /\ dirtyPg' = [dirtyPg EXCEPT ![s] = @ \ {b}]
    /\ UNCHANGED <<now, gcVars>>
    /\ LocateDirty

\* A truncate or unlink invalidating a block.
UserDelete(s, b) ==
    /\ EnvMayRun
    /\ b \in valid[s]
    /\ valid' = Invalidate(s, b)
    /\ mtime' = Touch(s)
    /\ dirtyPg' = [dirtyPg EXCEPT ![s] = @ \ {b}]
    /\ UNCHANGED <<curseg, curOff, free, now, ssaStale, gcVars>>
    /\ LocateDirty

\* The writer flushes a page the background GC dirtied: the block moves.
Writeback(s, b) ==
    /\ EnvMayRun
    /\ b \in dirtyPg[s]
    /\ LogAppend(Invalidate(s, b), Touch(s), ssaStale)
    /\ dirtyPg' = [dirtyPg EXCEPT ![s] = @ \ {b}]
    /\ UNCHANGED <<now, gcVars>>
    /\ LocateDirty

\* A checkpoint from another thread (sync): prefree segments become free.
Checkpoint ==
    /\ EnvMayRun
    /\ PreFree # {}
    /\ free' = free \cup PreFree
    /\ UNCHANGED <<valid, dirtyPg, curseg, curOff, mtime, now, ssaStale,
                   minMtime, maxMtime, victimBG, victimFG, lastVictim,
                   cpLocked, gc>>

\* The clock moves on.
Tick ==
    /\ now < MAXT
    /\ now' = now + 1
    /\ UNCHANGED <<valid, dirtyPg, curseg, curOff, free, mtime, ssaStale,
                   minMtime, maxMtime, victimBG, victimFG, lastVictim,
                   cpLocked, gc>>

-----------------------------------------------------------------------------
(* f2fs_gc, run by the holder of gc_mutex.  gc.pc names its labels:        *)
(* gc_more, the while loop head, the summary read and the per-block step   *)
(* of do_garbage_collect, and stop.                                        *)

GcIdle == [owner |-> NOBODY, pc |-> "idle", type |-> BG, nGC |-> 0,
           nfree |-> 0, oldFree |-> 0, status |-> GC_NONE, segno |-> 0,
           i |-> 0, off |-> 0, done |-> {}, costed |-> 0]

selVars == <<minMtime, maxMtime, victimBG, victimFG, lastVictim>>

\* A gc_more that forgets to reset nfree.
GcMoreFromNoReset(g, fr) ==
    [g EXCEPT !.pc = "loop", !.status = GC_NONE, !.done = {},
              !.oldFree = IF NotEnoughOf(fr) THEN RESERVED_SECS
                          ELSE Cardinality(FreeSecsOf(fr))]

\* gc_more: reset the round's counters and take the free-section baseline.
GcMoreFrom(g, fr) ==
    [g EXCEPT !.pc = "loop", !.nfree = 0, !.status = GC_NONE, !.done = {},
              !.oldFree = IF NotEnoughOf(fr) THEN RESERVED_SECS
                          ELSE Cardinality(FreeSecsOf(fr))]

\* gc_thread_func: mutex_trylock succeeds, the device is idle, f2fs_gc(sbi, 1)
BgGcStart ==
    /\ gc.owner = NOBODY
    /\ gc' = GcMoreFrom([GcIdle EXCEPT !.owner = BG, !.nGC = 1], free)
    /\ UNCHANGED <<envVars, selVars, cpLocked>>

\* f2fs_balance_fs: not enough free sections, mutex_lock, f2fs_gc
FgGcStart ==
    /\ gc.owner = NOBODY
    /\ NotEnoughFreeSecs
    /\ gc' = GcMoreFrom([GcIdle EXCEPT !.owner = FG, !.nGC = NGC], free)
    /\ UNCHANGED <<envVars, selVars, cpLocked>>

\* The head of the while loop: switch to FG_GC under pressure, stop once
\* more than nGC sections are free, else pick a victim section.
GcLoop ==
    /\ gc.pc = "loop"
    /\ LET t   == IF NotEnoughFreeSecs THEN FG ELSE gc.type
           cur == Cardinality(FreeSecsOf(free)) + gc.nfree
       IN IF gc.nGC < cur - gc.oldFree
          THEN /\ gc' = [gc EXCEPT !.type = t, !.pc = "stop"]
               /\ UNCHANGED selVars
          ELSE \E r \in get_victim(t) :
               /\ victimBG' = r.vBG
               /\ victimFG' = r.vFG
               /\ lastVictim' = r.last
               /\ minMtime' = r.mm.min
               /\ maxMtime' = r.mm.max
               /\ gc' = IF r.found
                        THEN [gc EXCEPT !.type = t, !.segno = r.segno,
                                        !.i = 0, !.off = 0, !.pc = "blk",
                                        !.costed = r.costed]
                        ELSE [gc EXCEPT !.type = t, !.pc = "stop",
                                        !.costed = r.costed]
    /\ UNCHANGED <<envVars, cpLocked>>

\* A block step that runs one offset past the end of the segment.
NextBlockPastEnd ==
    IF gc.off + 1 <= BLKS
    THEN gc' = [gc EXCEPT !.off = @ + 1]
    ELSE gc' = [gc EXCEPT !.status = GC_DONE, !.nfree = @ + 1,
                          !.done = @ \cup {gc.segno + gc.i},
                          !.i = @ + 1, !.off = 0,
                          !.pc = IF gc.i + 1 < SPS THEN "blk" ELSE "loop"]

\* check_valid_map: the block's bit in the segment's cur_valid_map.
check_valid_map(seg, b) == b \in valid[seg]

\* After a block: the next offset, or the segment is GC_DONE and counted.
NextBlock ==
    IF gc.off + 1 < BLKS
    THEN gc' = [gc EXCEPT !.off = @ + 1]
    ELSE gc' = [gc EXCEPT !.status = GC_DONE, !.nfree = @ + 1,
                          !.done = @ \cup {gc.segno + gc.i},
                          !.i = @ + 1, !.off = 0,
                          !.pc = IF gc.i + 1 < SPS THEN "blk" ELSE "loop"]

\* move_data_page: background GC dirties the page for the writer to move
\* (the ssaStale update is the offset's summary read); foreground GC writes
\* it to the log now.
move_data_page(seg, b) ==
    \/ /\ gc.type = BG
       /\ dirtyPg' = [dirtyPg EXCEPT ![seg] = @ \cup {b}]
       /\ ssaStale' = FALSE
       /\ UNCHANGED <<valid, curseg, curOff, free, mtime, now, selVars, cpLocked>>
    \/ /\ gc.type = FG
       /\ LogAppend(Invalidate(seg, b), Touch(seg), FALSE)
       /\ dirtyPg' = [dirtyPg EXCEPT ![seg] = @ \ {b}]
       /\ UNCHANGED <<now, minMtime, maxMtime, lastVictim, cpLocked>>
       /\ LocateDirty

\* do_garbage_collect: reading the victim segment's summary page fails.
GcSumPageError ==
    /\ gc.pc = "blk"
    /\ gc.off = 0
    /\ gc' = [gc EXCEPT !.status = GC_ERROR, !.pc = "stop"]
    /\ UNCHANGED <<envVars, selVars, cpLocked>>

\* One entry of gc_data_segment, the summary page read when the entry is the
\* first: should_do_checkpoint blocks the file system and returns
\* GC_BLOCKED; check_valid_map skips an invalid block; a valid one is
\* skipped (check_dnode finds another owner, the inode or the page is
\* unavailable, the page is under writeback), dirtied for the writer
\* (BG_GC) or written now (FG_GC).
GcBlock ==
    /\ gc.pc = "blk"
    /\ LET seg   == gc.segno + gc.i
           b     == gc.off
           \* the summary (re)read at offset 0 still names the block's owner
           fresh == b = 0 \/ ~ssaStale
       IN \/ /\ cpLocked' = TRUE
             /\ gc' = [gc EXCEPT !.status = GC_BLOCKED, !.pc = "stop"]
             /\ ssaStale' = ~fresh
             /\ UNCHANGED <<valid, dirtyPg, curseg, curOff, free, mtime, now,
                            selVars>>
          \/ /\ ~check_valid_map(seg, b)
             /\ NextBlock
             /\ ssaStale' = ~fresh
             /\ UNCHANGED <<valid, dirtyPg, curseg, curOff, free, mtime, now,
                            selVars, cpLocked>>
          \/ /\ check_valid_map(seg, b)
             /\ NextBlock
             /\ ssaStale' = ~fresh
             /\ UNCHANGED <<valid, dirtyPg, curseg, curOff, free, mtime, now,
                            selVars, cpLocked>>
          \/ /\ check_valid_map(seg, b)
             /\ fresh
             /\ move_data_page(seg, b)
             /\ NextBlock

\* The condition under which stop calls write_checkpoint.
NeedCheckpoint(status) == NotEnoughFreeSecs \/ status = GC_BLOCKED

\* stop: checkpoint under pressure or after GC_BLOCKED, and go round again
\* if this round evacuated something; otherwise release gc_mutex and the
\* inode pins.
GcStop ==
    /\ gc.pc = "stop"
    /\ IF NeedCheckpoint(gc.status)
       THEN /\ free' = free \cup PreFree
            /\ cpLocked' = FALSE
            /\ gc' = IF gc.nfree > 0 THEN GcMoreFrom(gc, free')
                     ELSE GcIdle
       ELSE /\ gc' = GcIdle
            /\ UNCHANGED <<free, cpLocked>>
    /\ UNCHANGED <<valid, dirtyPg, curseg, curOff, mtime, now, ssaStale,
                   selVars>>

-----------------------------------------------------------------------------

Init ==
    /\ valid = [s \in Segs |-> {}]
    /\ dirtyPg = [s \in Segs |-> {}]
    /\ curseg = 0
    /\ curOff = 0
    /\ free = Segs \ {0}
    /\ mtime = [s \in Segs |-> 0]
    /\ now = 0
    /\ minMtime = 0
    /\ maxMtime = 0
    /\ victimBG = {}
    /\ victimFG = {}
    /\ lastVictim = [m \in {GREEDY, CB} |-> 0]
    /\ cpLocked = FALSE
    /\ gc = GcIdle
    /\ ssaStale = FALSE

\* A mount layout: the valid blocks, the clock and segment mtimes, and the
\* log's segment and next_blkoff, as a checkpoint leaves them: at most
\* USER_CAP valid blocks and nothing valid past next_blkoff in the log.
MountLayoutOK(l) ==
    /\ l.now \in Times
    /\ l.mtime \in [Segs -> 0..l.now]
    /\ l.valid \in [Segs -> SUBSET Blks]
    /\ MapThenSumSet(LAMBDA s : Cardinality(l.valid[s]), Segs) <= USER_CAP
    /\ l.curseg \in Segs /\ l.curOff \in 0..BLKS
    /\ l.valid[l.curseg] \subseteq 0..(l.curOff - 1)

\* The file system just mounted in one of the layouts (build_segment_manager
\* and init_min_max_mtime, segment.c): the other empty segments free, no
\* dirty page, clear victim bitmaps and last_victim, min_mtime the smallest
\* mean section mtime and max_mtime the clock.
MountInit(layouts) ==
    \E l \in {x \in layouts : MountLayoutOK(x)} :
    /\ now = l.now /\ mtime = l.mtime /\ valid = l.valid
    /\ curseg = l.curseg /\ curOff = l.curOff
    /\ free = {s \in Segs : s # l.curseg /\ l.valid[s] = {}}
    /\ dirtyPg = [s \in Segs |-> {}]
    /\ minMtime = Min({MapThenSumSet(LAMBDA s : l.mtime[s], SecSegs(k)) \div SPS
                        : k \in Secs})
    /\ maxMtime = l.now
    /\ victimBG = {} /\ victimFG = {}
    /\ lastVictim = [m \in {GREEDY, CB} |-> 0]
    /\ cpLocked = FALSE
    /\ gc = GcIdle
    /\ ssaStale = FALSE

Next ==
    \/ UserWrite
    \/ \E s \in Segs, b \in Blks :
          UserOverwrite(s, b) \/ UserDelete(s, b) \/ Writeback(s, b)
    \/ Checkpoint
    \/ Tick
    \/ BgGcStart
    \/ FgGcStart
    \/ GcLoop
    \/ GcSumPageError
    \/ GcBlock
    \/ GcStop

Spec == Init /\ [][Next]_vars

\* Once f2fs_gc holds gc_mutex the calling thread keeps being scheduled;
\* nothing is assumed of the other threads.
GcFairness == WF_vars(GcLoop \/ GcSumPageError \/ GcBlock \/ GcStop)

FairSpec == Spec /\ GcFairness

-----------------------------------------------------------------------------
(* Properties.                                                             *)

TypeOK ==
    /\ valid \in [Segs -> SUBSET Blks]
    /\ dirtyPg \in [Segs -> SUBSET Blks]
    /\ \A s \in Segs : dirtyPg[s] \subseteq valid[s]
    /\ curseg \in Segs /\ curOff \in 0..BLKS
    /\ free \subseteq Segs /\ curseg \notin free
    /\ mtime \in [Segs -> Times] /\ now \in Times
    /\ minMtime \in Times /\ maxMtime \in Times
    /\ victimBG \subseteq Segs /\ victimFG \subseteq Segs
    /\ lastVictim \in [{GREEDY, CB} -> Segs]
    /\ cpLocked \in BOOLEAN /\ ssaStale \in BOOLEAN
    /\ gc.owner \in {NOBODY, BG, FG}
    /\ gc.pc \in {"idle", "loop", "blk", "stop"}
    /\ gc.type \in {BG, FG} /\ gc.status \in Statuses
    /\ gc.segno \in Segs /\ gc.i \in 0..SPS /\ gc.off \in Blks

\* I2/S6: get_victim never hands f2fs_gc a section holding the current
\* segment, whether the section came from the scan (which skips current
\* sections at gc.c:271) or from FG_GC's fast path through
\* check_bg_victims, which pops one background tag with no IS_CURSEC test.
VictimNeverCurrent ==
    [][gc'.pc = "blk" /\ gc.pc = "loop" => ~IsCurSec(SecOf(gc'.segno))]_vars

\* S4 (and I3, "not re-chosen while the FG evacuation is in progress"):
\* once f2fs_gc has returned, a dirty segment outside the current section
\* carries no victim_segmap[FG_GC] claim, so the next scan, which skips
\* claimed segments at gc.c:266, can re-select a section that a GC_BLOCKED,
\* a GC_ERROR or a skipped block left dirty.
FgClaimEndsWithGc ==
    gc.owner = NOBODY =>
        \A s \in Segs : Dirty(s) /\ ~IsCurSec(SecOf(s)) => s \notin victimFG

\* P3: when a foreground f2fs_gc returns GC_DONE, the nfree of its last
\* round counts segments that have really left the dirty list, each once.
NfreeMeansFreed ==
    [][gc.pc = "stop" /\ gc'.owner = NOBODY
       /\ gc.type = FG /\ gc.status = GC_DONE
         => gc.nfree <= Cardinality({s \in gc.done : ~Dirty(s)})]_vars

\* The scan of get_victim_by_default costs at most MAX_VICTIM_SEARCH
\* candidates below the maximum cost before it stops and records
\* last_victim (the nsearched++ >= MAX_VICTIM_SEARCH test).
MaxVictimSearchBound == gc.costed <= MAX_VICTIM_SEARCH

\* R2: f2fs_gc never loops: once it holds gc_mutex it returns, whatever
\* the evacuators answer, through the goto gc_more rounds.
GcReturns == gc.owner # NOBODY ~> gc.owner = NOBODY

=============================================================================
