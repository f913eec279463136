# TLA+ models of the f2fs garbage collector (`src/fs/f2fs/gc.c`)

This directory holds TLA+ models of the f2fs segment cleaner and the TLC
configurations that check them. All source references are to
`src/fs/f2fs/gc.c`.

## 1. Inventory

### Parts of the system

| Part | Code | Modelled here as |
|---|---|---|
| Cost model | `get_max_cost` 146, `get_cb_cost` 176, `get_gc_cost` 208 | `CostModel` (pure operators) |
| Victim selector | `select_gc_type` 120, `select_policy` 125, `check_bg_victims` 157, `get_victim_by_default` 229, `__get_victim` 625 | `F2fsGc`: `VictimScan`, `GotIt`, `get_victim_by_default` |
| Live-block map | `check_valid_map` 353, `check_dnode` 462 | `F2fsGc`: `check_valid_map`, with `check_dnode` reduced to `ssaStale`; `DataEvac`: `Live` |
| Data evacuator | `gc_data_segment` 531, `move_data_page` 493 | `F2fsGc`: `GcBlock`, `move_data_page` (phases collapsed); `DataEvac`: the four passes, refining `EvacAtomic` |
| Node evacuator | `gc_node_segment` 372 | `DataEvac`: `NodeBlock`, `NodeFetch`, `NodePassEnd`, with `do_garbage_collect` dispatching on the summary type |
| Inode pin set | `find_gc_inode`, `add_gc_inode`, `put_gc_inode` 308-351 | `DataEvac` |
| Orchestrator | `f2fs_gc` 671, `do_garbage_collect` 636 | `F2fsGc`: `GcIdle`, `GcMoreFrom`, `GcLoop`, `NextBlock`, `GcSumPageError`, `GcStop`; `DataEvac`: `GcCall`, `GetSumPage`, `put_gc_inode` |
| Background worker | `gc_thread_func` 30, `start/stop_gc_thread` 91-118 | `GcWorker` (the whole loop with `f2fs_balance_fs`, the adaptive sleep, the thread lifecycle); `F2fsGc`: `BgGcStart` |
| `start_bidx_of_node` | 436 | `StartBidx`, checked in `CostModelCheck` |
| Statistics / proc | `f2fs_read_gc/sit/mem` 820-1027 | `GcStats`: the list walk, the lock, the `si->sbi` test, and the `dirty_count` cached by `f2fs_update_stat` that guards the division of `f2fs_update_gc_metric`. The printed text is not modelled. |
| Manager lifecycle | `build_gc_manager` 1067, `destroy_gc_manager` 1108 | `GcStats`, step by step against the readers |
| Segment manager, checkpoint, writers | `segment.c`, `checkpoint.c`, `data.c` (not in this source tree) | `F2fsGc` and `DataEvac` environment actions, modelled from the design document |

### State

- Per segment: the valid-block set (`valid`) and the mtime (`mtime`).
- Per page: dirty pages in the page cache (`dirtyPg`). In `DataEvac`, the
  page state of each file block of the victim (`page`), and where its index
  points (`loc`).
- The log: `curseg` and `curOff`.
- The free and prefree lists: `free` and `Dirty`/`PreFree`.
- SIT `min_mtime` and `max_mtime`.
- Victim bitmaps: `victimBG` and `victimFG`, and `last_victim` (`lastVictim`).
- Whether `cp_mutex` is held after `block_operations` (`cpLocked`).
- The GC call in progress: `gc` in `F2fsGc`; `pc`, `phase`, `off`, the pin
  list `ilist` and the held page `lk` in `DataEvac`.
- Inodes: in memory (`icache`) and GC's references (`gcRef`).
- Node victims in `DataEvac`: each block's node (`NSUM`), the NAT address
  (`nloc`), the node page state (`npage`) and the skipped offsets (`missed`).
- The stats registry: `f2fs_stat_list`, the `gc_info`/`stat_info` memory,
  `si->sbi` and the `stat_list` mutex of each mount.
- The worker: its place in the loop, `wait_ms`, `gc_mutex`, the stop flag
  and `sbi->gc_thread`.

### Interactions

- `f2fs_gc` runs under `gc_mutex`. It is called either by the background
  thread, which uses `mutex_trylock`, or in foreground (`f2fs_balance_fs`).
- Victim selection runs under `seglist_lock`. Evacuation runs after the lock
  is released.
- Evacuation writes valid blocks into the current log. This changes `valid`,
  `mtime` and the dirty list.
- A checkpoint turns prefree segments into free ones. It is called by the GC
  itself at `stop`, or by another thread (sync).
- User reads, writes, truncates, writeback, page reclaim and inode eviction
  run concurrently with GC, except while `block_operations` holds the file
  system.
- Mount and unmount run `build_gc_manager`/`start_gc_thread` and
  `stop_gc_thread`/`destroy_gc_manager`. The proc readers walk the stats
  registry at any time.

### Hard behaviours

- Selection and evacuation are not atomic (gc.c:700 vs 710).
- The bitmap of background victims is consumed by FG_GC without the scan's
  tests (244-247). Only one bit is cleared per pop (170), and a bit set on
  a segment that was not dirty is never cleared.
- Victim bits of FG_GC are never cleared by `f2fs_gc`; the scan skips them
  for both gc types (266).
- A cut-off scan resumes from `last_victim` and rewinds once (255-260).
- `GC_BLOCKED` leaves `cp_mutex` held until `stop` (556-560, 717-719).
- `goto gc_more` re-runs whole rounds (720-721).
- The age computation has edges: equal bounds (201) and a clock that moves
  backwards (197-200).
- `gc_data_segment` checks the owner in one pass and moves the page in a
  later one. Owners act in between, and only the pin list keeps the inode in
  memory (575-610).
- `f2fs_stat_list` has no lock. `destroy_gc_manager` unlinks an entry and
  frees it while proc readers may be walking the list (1118-1125).
- The worker's `wait_ms` is adjusted twice per tick (75-85).
- `gc_node_segment` dirties node pages in its second pass and, in FG, writes
  them with `sync_node_pages` only at the end (406-430).
- `f2fs_update_gc_metric` divides by a `dirty_count` that only
  `f2fs_read_gc` refreshes (815).

## 2. Plan

In order of importance. Items marked (done) are in this directory.

1. `CostModel`: the greedy and CB costs, with a reference formula and monotonicity. (done)
2. `F2fsGc`: selector, orchestrator, the data evacuator as one step per block, and the environment. It has the safety runs, a liveness run, and violation runs for the disagreements found. (done)
3. `DataEvac`: `gc_data_segment` with its four phases and the inode pin set, with owners acting between phases. It is shown to implement `EvacAtomic`. (done)
4. `StartBidx`: `start_bidx_of_node` against a reference over the whole node tree. (done)
5. `GcWorker`: the loop of `gc_thread_func`, its sleep adaptation and the thread lifecycle. (done)
6. `GcStats`: the stats registry against the proc readers. (done)
7. Node evacuation: `gc_node_segment`, with its two passes and the FG
   `sync_node_pages`, in `DataEvac`, where `do_garbage_collect` dispatches on
   the summary type. (done)
8. `AbstractGc`: a GC call moves every valid block of the victim and frees
   it, or reports why not. (not done: `EvacAtomic` plays this role for one
   data segment; an abstraction of the whole `f2fs_gc` call would have to
   abstract the checkpoint, which is modelled from the spec.)
9. The victim bitmaps (done): run `curvictim` finds the current section
   handed to `f2fs_gc` through a background tag left over by
   `check_bg_victims` (gc.c:170), and run `fgclaim` finds a section a
   foreground pass left dirty excluded from every later scan (gc.c:266),
   against the design's S4.
10. Further questions, analysed and kept as hazards (the project has all
   the runs it may have):
   - the sections-vs-segments unit at 694;
   - a clock set backwards.

## 3. Modules

### `CostModel.tla`, `StartBidx.tla`, `CostModelCheck.tla`

`CostModel` translates `get_max_cost`, `get_cb_cost` and `get_gc_cost`.

- The integer divisions are the code's shifts. `UINT_MAX` is a named
  constant larger than every cost.
- `get_cb_cost` returns the cost together with the widened `[min, max]`,
  because the code writes `sit_i->min_mtime`/`max_mtime` as a side effect.
- `CbCostRef` is the formula of the design (age 100 when the bounds are
  equal).

`StartBidx` translates `start_bidx_of_node` (436-460).

- Its unsigned subtractions wrap modulo `2^UINT_BITS` (`UInt`), because
  TLC's integers are 32-bit and signed.
- The reference `RefStartBidx` counts the direct nodes before an offset
  (`IsDirectNode`, `DirectNodesBefore`), from the layout of the node tree.

`CostModelCheck` has one state per input. An input is a (valid sum, mtime
sum, bounds) triple for the costs, together with a node offset. Each step
changes one of the two.

### `DataEvac.tla`, `EvacAtomic.tla`, `MC_DataEvac.tla`

`DataEvac` is one `f2fs_gc` call that evacuates one data segment.

- Per file block named by the victim's summary:
  - `loc`: the block its index maps to, `OUT` after a rewrite, or
    `NULL_ADDR` after a truncate;
  - `page`: `none`, `clean`, `dirty` or `wb`.
- Per inode: `icache` (in memory) and `gcRef` (references GC holds).
- GC state:
  - `pc`, `phase` and `off`: the loop of `gc_data_segment`;
  - `ilist`: the pin list;
  - `held`: the inode returned by `f2fs_iget_nowait`;
  - `lk`: the page returned by `get_lock_data_page`, and whether it is still
    in the mapping.
- GC actions, in code order:
  - `GcCall` and `GetSumPage`: `f2fs_gc` and `do_garbage_collect`.
  - `GcBlock`: one offset up to the first call that may sleep. It covers
    `should_do_checkpoint`, `check_valid_map`, `check_dnode` (`Live`), and
    `ra_node_page` in phases 0 and 1.
  - `FindDataPage`: phase 2, with `next_iput` and the duplicate test of
    `add_gc_inode`.
  - `AllocInodeEntry`: the allocation of a new pin-list entry. It is a step
    of its own because `kmem_cache_alloc(GFP_NOFS)` may sleep, and a failed
    attempt retries after `cond_resched`. Owners run meanwhile, while GC
    holds the inode reference but has not yet put it on the list.
  - `GetLockDataPage` and `Relock`: phase 3, through `find_gc_inode`.
  - `move_data_page`, `GcDone` and `put_gc_inode`.
- Owner actions run between the GC steps: `UserRead`, `UserWrite`,
  `Writeback`, `UserTruncate`, `PageReclaim`, `Evict` and `Open`.
  - They are modelled from the design, because `data.c` and `inode.c` are
    not in this tree.
  - A write or a truncate waits for the page lock GC holds in
    `move_data_page`. Eviction waits until GC holds no reference.

`EvacAtomic` is what `gc_data_segment` promises: one pass in block order.

- At each offset the pass either skips the entry, or moves the summary
  owner's page, provided that page is in the mapping and not under
  writeback.
- Owners act in between.
- The pass ends with `DONE`, or stops with `BLOCKED`/`ERROR`.

`DataEvac` instantiates `EvacAtomic` through the refinement mapping
`aoff <- AOff`.

- `AOff` is 0 in the first three passes, the offset in the fourth, and
  `BLKS` after it.
- `sum`, `loc`, `page`, `gcType` and `status` are shared.
- The read-ahead passes, the pin steps and the page lookups are stuttering
  steps of the abstract specification.

`do_garbage_collect` dispatches on the summary's type. `sumType` is chosen
in `Init` and fixed for the behaviour, so the data and node state spaces add
up instead of multiplying.

- A node victim has its own state: `NSUM` names the node of each block,
  `nloc` is where the NAT points each node, `npage` its page state, and
  `missed` the offsets GC skipped in the second pass.
- `NodeBlock` is one offset of `gc_node_segment` up to `get_node_page`
  (379-405): the `BLOCKED` return, the `check_valid_map`/`IS_DNODE` skip,
  and the phase-0 read-ahead.
- `NodeFetch` is `get_node_page` and the dirtying of the page (406-415).
  The lookup may fail, and the offset is then skipped (`missed`).
- `NodePassEnd` is the end of the second pass: in FG, `sync_node_pages`
  writes every dirty node page, then `GC_DONE` (416-430).
- Node owners (`NodeRead`, `NodeUpdate`, `NodeWriteback`, `NodeTruncate`,
  `NodeReclaim`) act between GC steps. They are modelled from the design,
  because `node.c` is not in this tree.
- A node pass leaves `EvacAtomic`'s state alone. The mapping shows
  `status` as `idle` and `gcType` as `BG` for it (`AStatus`, `AGcType`),
  so the abstract specification sees the node pass as stuttering.

### `GcStats.tla`, `MC_GcStats.tla`

The stats registry, checked against its readers.

- Per-mount state:
  - `mnt`: the progress of `build_gc_manager` and `destroy_gc_manager`;
  - `gci` and `si`: whether the `gc_info` and `stat_info` memory is live or
    freed;
  - `siSbi`;
  - `siLock`: the holder of `si->stat_list`.
- `statList` is the list itself.
- Build steps:
  - `BuildAlloc`, with its `-ENOMEM`;
  - `BuildRegister`, whose `kzalloc` has its own `-ENOMEM`, then `list_add_tail`;
  - `BuildPublish`: `si->sbi = sbi`.
- Destroy steps: `DestroyUnlink`, `DestroyClear` (under the mutex),
  `DestroyFreeSi` and `DestroyFreeGci`.
- Each reader walks the list as `list_for_each_entry_safe` does, with
  `ReadStart`, `ReadSi`, `ReadLock`, `ReadCheck`, `ReadUse` and `ReadNext`.
  - The next entry is saved before the body.
  - `rKind` is the proc file. `f2fs_read_mem` also reads `stat_info->sbi`
    before taking the lock (961), and uses that value in its body
    (`MemBodyDerefsNull`, 966-1024).
  - A dereference of freed memory, or of an unlinked entry's poisoned link,
    ends the reader in `uaf`. A NULL `sbi` ends it in `null`.
- Per mount, the file system's facts that the readers print: `dirtySegs`
  (there are dirty segments), `partial` (some are partly valid, so
  `ndirty > 0`), and `siDirty`, the `si->dirty_count` cached by the last
  `f2fs_update_stat`. `FsChange` moves the first two while mounted.
- `f2fs_read_gc` refreshes `siDirty` (`f2fs_update_stat`). `f2fs_read_sit`
  divides by `ndirty` when `siDirty` is set (`SitBodyDividesByZero`,
  `GcMetricDividesByZero`), and
  ends in `div0` when no section is partly valid.

### `GcWorker.tla`

The background thread of one mount.

- `start_gc_thread` has three outcomes:
  - `kmalloc` fails;
  - `kthread_run` fails: `gc_th` is freed but `sbi->gc_thread` is left
    dangling;
  - the thread runs.
- `stop_gc_thread` is split in two:
  - `StopRequest`: `kthread_stop` sets the flag;
  - `StopJoin`: it returns once the thread has exited, then frees `gc_th`.
- The loop:
  - `WorkerFreeze`/`WorkerThaw`: `try_to_freeze`, then `continue`.
  - `WorkerWake`: the timed wait and the stop `break` (42-48). Otherwise
    the thread either goes on to `f2fs_balance_fs` (`BalanceLock`, which
    takes `gc_mutex` when it is free, and `BalanceGc`, the FG `f2fs_gc`
    that releases it), or straight to the tick.
  - `WorkerTick`: the `BG_GC` option, `mutex_trylock`, `is_idle` and the
    density test, each with its update of `wait_ms` (50-78).
  - `WorkerGc`: `f2fs_gc(sbi, 1)`, which releases `gc_mutex`, then the
    NOGC/MAX reset.
  - Every `continue` passes the `while` test (`WhileTest`).
- `FgLock`/`FgUnlock` are the foreground holders of `gc_mutex`. Foreground
  GC runs only while the mount is up.
- `increase_sleep_time` and `decrease_sleep_time` are in `gc.h`, outside
  this tree. They are modelled from the design as a step of `MIN`, clamped
  to `MAX` going up and to `MIN` going down.

### `F2fsGc.tla`

Constants:

- `NSEC` sections of `2^LOG_SPS` segments of `2^LOG_BLKS` blocks;
- `MAX_VICTIM_SEARCH`;
- `RESERVED_SECS` (the reserve in `has_not_enough_free_secs`);
- `USER_CAP`, a cap on user-valid blocks, so that there is always room to evacuate;
- `MAXT`, the clock bound;
- `NGC`, the `nGC` argument;
- `ENV_DURING_GC`: may writers and sync checkpoints run while `gc_mutex` is held?

Actions of the GC, in the order of `f2fs_gc`:

- `BgGcStart` / `FgGcStart` take `gc_mutex`, then `GcIdle`/`GcMoreFrom` set up
  the `gc_more:` state (680-688).
- `GcLoop` is one iteration of the `while` head (689-702):
  - the switch to FG;
  - the success break;
  - `__get_victim` → `get_victim_by_default`, which covers `select_policy`,
    the FG fast path, and `VictimScan`, a recursive operator for the scan
    loop 250-288. `GotIt` covers 289-298.

  The whole selection is one step, as the code does it under `seglist_lock`.
- `GcBlock` is one valid-map entry of `gc_data_segment`, with these outcomes:
  - `should_do_checkpoint` → `GC_BLOCKED` with `cp_mutex` taken;
  - an invalid block, or a failed `check_dnode`/`iget`/`find_data_page`, which is skipped;
  - `move_data_page`, where BG dirties the page and FG writes it to the log
    unless it is under writeback.

  `check_dnode` fails when the summary read at offset 0 no longer describes
  the segment (`ssaStale`): the victim was reallocated by the log after
  `do_garbage_collect` read its summary.
- `NextBlock` advances to the next block and, at the end of a segment,
  covers the `GC_DONE` / `nfree++` step of 703-715.
- `GcSumPageError` is the failed `get_sum_page` of 644-646.
- `GcStop` is `stop:` (717-728): the checkpoint when short of space or
  blocked, `goto gc_more` when `nfree`, otherwise return.

Environment actions, modelled from the design document:

- `UserWrite`, `UserOverwrite`, `UserDelete`, `Writeback`, `Checkpoint`, `Tick`.
- `LogAppend` is `allocate_data_block` with `new_curseg` taking any free segment.
- `LeaveDirty` is `__remove_dirty_segment` clearing both victim bits.

Two initial conditions:

- `Init` is a new file system: the log at segment 0, every other segment
  free.
- `MountInit(layouts)` is a file system just mounted in one of the given
  layouts (valid blocks, mtimes, the clock, the log's segment and offset),
  as `build_segment_manager` and `init_min_max_mtime` leave it: the empty
  segments free, no dirty page, clear victim bitmaps, `min_mtime` the
  smallest mean section mtime and `max_mtime` the clock. `MountLayoutOK`
  rejects a layout no checkpoint can leave (more than `USER_CAP` valid
  blocks, or valid blocks past the log's offset). It lets a run start
  where two-segment sections already hold the mix of free and dirty
  segments that background GC tags, which from `Init` lies beyond TLC's
  reach (more than 20M states at depth 25).

`MC_F2fsGc.tla` gives the section counts and `LOG_SPS` of each
configuration, and the mount layouts `MC_Layouts_Sps1` and
`MC_Layouts_Sps2Bg`.


## 4. Runs

| Run | Config | Expect | Shows |
|---|---|---|---|
| `sps1` | `F2fsGc_sps1.cfg` | pass (516k states) | `TypeOK`, from the mount layout of `MC_Layouts_Sps1`, in which background GC selects and dirties pages, with writers, writeback and checkpoints interleaving with `f2fs_gc`; among its conjuncts, GC never leaves a dirtied page on a block that is no longer valid. |
| `returns` | `F2fsGc_returns.cfg` | pass | `GcReturns`: every `f2fs_gc` returns (weak fairness on the GC's own steps). |
| `cost_monotone` | `CostModel_monotone.cfg` | pass (72k states) | `CbMonotone`: the CB cost is non-decreasing in valid blocks and in mtime, with the min/max widening. `StartBidxMatchesRef`: for the inode and every direct node of the tree, `start_bidx_of_node` is the number of data addresses before it. |
| `cost_ref` | `CostModel_ref.cfg` | violation | `CbCostMatchesRef` fails: with equal bounds the code's age is 0, not 100. |
| `nfree` | `F2fsGc_nfree.cfg` | violation | `NfreeMeansFreed` fails: a victim freed by a concurrent checkpoint and reused by the log is evacuated while current, then re-selected and counted twice in `nfree`. |
| `curvictim` | `F2fsGc_curvictim.cfg` | violation | `VictimNeverCurrent` (I2/S6) fails, from the mount layout of `MC_Layouts_Sps2Bg`: (1) BG_GC tags section 1 = {2, 3} while segment 2 is free; (2) the block of segment 3 is overwritten, which clears bit 3 only; (3) a checkpoint frees the section and the log opens segment 2; (4) FG_GC's fast path pops bit 2 and returns the current section. |
| `fgclaim` | `F2fsGc_fgclaim.cfg` | violation | `FgClaimEndsWithGc` (S4, I3) fails: an FG `f2fs_gc` selects a dirty segment, `do_garbage_collect` returns `GC_ERROR` (or `GC_BLOCKED`) before the segment is done, stop checkpoints and returns with `nfree = 0`, and the segment stays dirty with its FG bit set, so the scan's test at 266 skips it from then on. |
| `evac` | `DataEvac.cfg` | pass (837k states) | `InodeLiveWhileUsed`: an inode is in memory whenever GC uses it in phases 2 and 3. `PinsReleasedWhenIdle`: each reference GC took is dropped exactly once by the time `f2fs_gc` returns. `NodeBlocksMovedOnDone`: when a node pass reports `GC_DONE`, every node still living in the victim was skipped by a failed lookup, or is dirty after a BG pass; an FG pass has written all of them. `EvacAtomicSpec`: `DataEvac` implements `EvacAtomic`. |
| `stats_signal` | `GcStats_signal.cfg` | pass (4.0M states) | `SbiStableWhileUsed`: with two readers, a reader that found `si->sbi` set under the mutex reports on it while `destroy_gc_manager` has not cleared it. |
| `stats_fault` | `GcStats_fault.cfg` | violation | `ReaderNeverFaults` fails. `f2fs_read_mem` picks up an entry, the mount's teardown runs to `kfree(stat_info)`, and the reader then reads `gc_i->stat_info->sbi` from freed memory. The same property also fails through the NULL `sbi` and through the division by a stale `dirty_count` (815), which TLC reaches in 17 states when only that outcome is checked. |
| `worker` | `GcWorker.cfg` | pass | `GcMutexHeldOnlyInGc`: `gc_mutex` is held by the worker exactly while it is inside `f2fs_balance_fs` or the BG `f2fs_gc`, on every path of the loop. `StopCompletes`: once `stop_gc_thread` asks, the thread exits and `stop_gc_thread` returns, from every point of the loop. |
| `worker_ramp` | `GcWorker_ramp.cfg` | violation | `ProductiveGcWaitAtMostMax` fails. After a GC that found nothing (NOGC), a tick with enough invalid blocks runs `decrease_sleep_time` first, to NOGC-MIN. The reset test at 84 then misses, and a productive worker sleeps longer than `MAX`. |

Each property of a passing run has a mutant in `PROJECT.json` that TLC
detects:

- a block loop running one past the end;
- `gc_more` not resetting `nfree`;
- an inverted age;
- an off-by-one in the indirect-node range of `start_bidx_of_node`;
- a `find_gc_inode` that answers for unpinned inodes;
- a `find_data_page` failure without `iput`;
- `move_data_page` without the mapping test;
- `destroy_gc_manager` clearing `si->sbi` without the mutex;
- a `gc_node_segment` that skips `sync_node_pages` in FG;
- a tick whose `!is_idle` path does not unlock `gc_mutex`;
- a thaw that skips the `while` test.

Beyond the runs above:
- `GcStats` also reaches the NULL-`sbi` dereference of `f2fs_read_mem`
  (reader pc `null`, one mount) and the division by zero of
  `f2fs_read_sit` (reader pc `div0`). Those are separate reasons for
  `ReaderNeverFaults` to fail; TLC reports the use-after-free first.
- `F2fsGc` defines `MaxVictimSearchBound`, which TLC finds exceeded by one
  candidate (the post-increment at 284). No run checks it now.

## 5. Bounds

- **Block and search bounds (`F2fsGc`).** Every run has:
  - 2 blocks per segment, which give a partially valid segment and the
    per-block interleavings;
  - `MAX_VICTIM_SEARCH = 1`, which gives the cut-off and the `last_victim`
    rewind;
  - `MAXT = 1` and `NGC = 1`.
- **Section counts.**
  - 3 one-segment sections are enough for a log segment, a victim and a free
    segment. With `RESERVED_SECS = 1` (runs `returns`, `nfree`, `fgclaim`,
    from a new file system) `has_not_enough_free_secs` switches to FG as
    soon as a victim exists. With `RESERVED_SECS = 0` (run `sps1`, from a
    mount layout) background GC selects while a section is free, and
    foreground GC once none is. Run `sps1` starts from that one layout only:
    from the new file system too it takes 3.5M states and over three
    minutes, and `returns` and `nfree` already explore from it.
  - 3 two-segment sections with `RESERVED_SECS = 0` (run `curvictim`) give
    the log's section, a candidate and a free section, so background GC
    runs as BG_GC until the log takes the free section, and FG_GC after.
- **BG selection.** The CB cost is `UINT_MAX`, and a section is never
  selected, unless the mtime bounds differ and the section's mean mtime is
  below the maximum. The mount layouts of `sps1` and `curvictim` provide
  this: the clock is 1, the log's segment has mtime 1, and the candidate 0.
- **`USER_CAP`** keeps user data below capacity, as the reserved sections
  do in f2fs. It is 2 or 3.
- **`CostModelCheck`.**
  - The costs use two segments of four blocks per section, with mtimes up
    to 3.
  - `start_bidx_of_node` uses `NIDS_PER_BLOCK = 9` and all 114 node offsets
    of the tree. This reaches every branch, including the last direct node
    under each indirect node and the groups under the double-indirect node.
  - Unsigned arithmetic is 16 bits wide, which is far above every real
    result.
- **`DataEvac`.** The victim has 3 blocks whose summary names two blocks of
  inode `i1` and one of `i2`.
  - This gives the duplicate `add_gc_inode` and two pins.
  - Owners act freely between GC calls and at most `ENV_STEPS = 4` times
    during one call. That is enough for a write and a truncate, or an
    eviction, an open and a write, to fall between two phases. The state
    space grows little from 3 to 4 steps (627k to 837k states).
  - A node victim has the same 3 blocks: two hold nodes `n1` and `n2`, one
    holds no node. So there is a skipped offset, and two nodes whose
    owners can rewrite, truncate or reclaim them between the passes.
- **`GcStats`.** 2 mounts, with 2 readers in the signal run and 1 in
  the fault run.
  - A reader can be on one entry while the other is torn down.
  - A reader can hold the mutex while the destroyer and the other reader
    wait for it.
  - The signal run declares mounts and readers symmetric. `Init` treats
    them alike and every property quantifies over all of them. This
    brings 16M states down to 4M.
  - The fault run keeps one reader, so that TLC's trace is the shortest.
- **`GcWorker`.** `MIN = 1`, `MAX = 3` and `NOGC = 6`, in units of the
  minimum. NOGC sits above MAX by more than one step, so the decrease path
  from NOGC shows.

## 6. Fairness

- `GcReturns` assumes weak fairness of the GC's steps only (`GcLoop`,
  `GcBlock`, `GcSumPageError`, `GcStop`).
  - Once a thread holds `gc_mutex` it runs until `f2fs_gc` returns.
    Scheduling preempts it but does not stop it.
  - Writers are not assumed fair. The run uses `ENV_DURING_GC = FALSE`,
    since an unbounded stream of concurrent writes could keep `nfree > 0`
    forever, which the code does not prevent.
- `StopCompletes` assumes weak fairness of the worker's loop as a whole, of
  `StopJoin`, and of `FgUnlock`.
  - The kernel schedules the thread, its timed wait expires, and a frozen
    system thaws.
  - Whether it freezes is the system's choice. So fairness is not on any one
    branch: a loop that froze forever without passing the `while` test would
    violate the property.
  - A foreground `f2fs_gc` returns, so its holder releases `gc_mutex`.
  - The worker runs stop with `CHECK_DEADLOCK FALSE`: a mount whose build
    failed, and a mount whose thread has been stopped, really do stop.
- `DataEvac` and `GcStats` check safety only, and have no fairness.

## 7. Assumptions and what is not modelled

Assumptions:

- One log (one current data segment). `F2fsGc` selects data segments only;
  `DataEvac` evacuates a data or a node victim.
- In `F2fsGc` the four phases of `gc_data_segment` are one step per block.
  `DataEvac` splits them.
- `should_do_checkpoint` is a nondeterministic choice.
- A checkpoint from sync is not serialised with `gc_mutex`. The design names
  only GC under that mutex. Runs with `ENV_DURING_GC = FALSE` exclude that
  interleaving.
- `add_gc_inode`'s allocation retry is taken to succeed eventually. Owners
  run during it.
- A proc reader of `GcStats` may start whether or not any mount is up
  (`ReadStart`). In the kernel a reader opens one mount's proc file, and
  the use-after-free needs a reader of another mount's file while this one
  is torn down; with two mounts the model includes that case, and also
  readers the kernel would not start, which only adds behaviours.
- `GcStats` and `GcWorker` stop a mount at `failed` after a failed
  `build_gc_manager` or `start_gc_thread`. The error path that might call
  `destroy_gc_manager` or `stop_gc_thread` afterwards is in `super.c`, which
  is not in this tree. `PROJECT.json` lists those calls as hazards.

Not modelled:

- the SSR selection;
- what follows the `BLOCKED` return of the node pass. `NodeBlock` returns
  it, but the flush of the dirtied node pages is in `checkpoint.c`;
- the `MS_ACTIVE` test at the head of `f2fs_gc`'s loop. It matters only
  when an unmount races a foreground GC, and the unmount path is in
  `super.c`;
- the values the proc readers print, and the text. Only the `dirty_count`
  guard of `f2fs_update_gc_metric` is modelled;
- `f2fs_stat_init`/`f2fs_stat_exit` (proc entry creation), and
  `create_gc_caches`/`destroy_gc_caches` (the slab). These are
  straight-line registration code with no state that GC reads. The one
  hazard there is that the entries are created under a NULL `s_proc` but
  removed only under a set one (`PROJECT.json`, gc.c:1059). Whether that
  happens depends on `super.c`.
