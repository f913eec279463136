------------------------------ MODULE DataEvac ------------------------------
(***************************************************************************)
(* gc_data_segment (gc.c 531-623) on one victim segment, with its four     *)
(* passes over the summary, the inode pin list of find_gc_inode,           *)
(* add_gc_inode and put_gc_inode (308-351), move_data_page (493-522), and  *)
(* the file owners running between the steps that may sleep: the summary   *)
(* read, find_data_page, and the page read inside get_lock_data_page.      *)
(* One call of f2fs_gc evacuates one segment: do_garbage_collect, then     *)
(* put_gc_inode at stop.  do_garbage_collect dispatches on the summary   *)
(* type: a node victim goes through gc_node_segment (372-431) instead,     *)
(* with the owners of its node pages running between its steps.  The type *)
(* of the victim is fixed for a behaviour.                                 *)
(***************************************************************************)
EXTENDS Naturals, Sequences, SequencesExt

CONSTANTS Inodes, FileBlocks, BLKS, BG, FG, NONE, OUT, NULL_ADDR,
          SUM,        \* the summary block of the victim
          ENV_STEPS,  \* bound on owner operations during one f2fs_gc call
          Nodes,      \* node ids that may own a block of a node victim
          NSUM        \* the summary block of a node victim

VARIABLES sum, loc, page, gcType, status,      \* shared with EvacAtomic
          pc, phase, off, icache, gcRef, ilist, held, lk,
          envBudget,
          sumType,    \* GET_SUM_TYPE of the victim: "data" | "node"
          nloc,       \* the NAT: the block each node id is mapped to
          npage,      \* the node page cache: "none" | "clean" | "dirty" | "wb"
          missed      \* offsets whose get_node_page failed in this call

absVars == <<sum, loc, page, gcType, status>>
gcVars == <<pc, phase, off, ilist, held, lk>>
nodeState == <<sumType, nloc, npage, missed>>
vars == <<absVars, gcVars, icache, gcRef, envBudget, nodeState>>

Blks == 0..(BLKS - 1)

\* Offset in the final (copy) pass; 0 before it and BLKS after it.
AOff == CASE phase = 4 -> BLKS [] phase = 3 -> off [] OTHER -> 0

\* A node victim is not what EvacAtomic speaks of: its GC call is a
\* sequence of stuttering steps of the abstract pass.
AStatus == IF sumType = "node" THEN "idle" ELSE status
AGcType == IF sumType = "node" THEN BG ELSE gcType

Abs == INSTANCE EvacAtomic WITH aoff <- AOff, status <- AStatus,
                                gcType <- AGcType

\* The file block the summary entry at the current offset names.
Cur == sum[off]
Ino(f) == f[1]

\* check_valid_map (353-365) and check_dnode (462-491): the block is valid
\* and the owner named by the summary still maps that index to it.
Live(b) == sum[b] # NONE /\ loc[sum[b]] = b

\* The page GC holds locked (move) or referenced (relock).
Locked(f) == lk # NONE /\ lk.f = f /\ pc = "move"
Referenced(f) == lk # NONE /\ lk.f = f

\* The loop increment of gc_data_segment, with "if (++phase < 4)".
Advance == IF off + 1 < BLKS THEN off' = off + 1 /\ UNCHANGED phase
           ELSE off' = 0 /\ phase' = phase + 1

(***************************************************************************)
(* File owners: the EvacAtomic environment, with the page lock and page    *)
(* reference GC holds, and the inode cache.                                *)
(***************************************************************************)
UserRead(f) == /\ icache[Ino(f)] /\ UNCHANGED <<gcVars, icache, gcRef>>
               /\ Abs!Read(f)
UserWrite(f) == /\ icache[Ino(f)] /\ ~Locked(f)
                /\ UNCHANGED <<gcVars, icache, gcRef>> /\ Abs!Write(f)
Writeback(f) == /\ UNCHANGED <<gcVars, icache, gcRef>>
                /\ \/ ~Locked(f) /\ Abs!WritebackStart(f)
                   \/ Abs!WritebackEnd(f)
\* truncate_inode_pages waits for the page lock, then takes the page out
\* of the mapping even while GC still holds a reference to it.
UserTruncate(f) == /\ icache[Ino(f)] /\ ~Locked(f)
                   /\ lk' = IF Referenced(f) THEN [lk EXCEPT !.attached = FALSE]
                            ELSE lk
                   /\ UNCHANGED <<pc, phase, off, ilist, held, icache, gcRef>>
                   /\ Abs!Truncate(f)
PageReclaim(f) == /\ ~Referenced(f) /\ UNCHANGED <<gcVars, icache, gcRef>>
                  /\ Abs!Reclaim(f)
\* An inode leaves the cache only when GC holds no reference to it and
\* its pages are gone; an open brings it back.
Evict(i) == /\ icache[i] /\ gcRef[i] = 0
            /\ \A f \in FileBlocks : Ino(f) = i => page[f] = "none"
            /\ icache' = [icache EXCEPT ![i] = FALSE]
            /\ UNCHANGED <<absVars, gcVars, gcRef>>
Open(i) == /\ ~icache[i] /\ icache' = [icache EXCEPT ![i] = TRUE]
           /\ UNCHANGED <<absVars, gcVars, gcRef>>

(***************************************************************************)
(* The collector.                                                          *)
(***************************************************************************)
\* f2fs_gc takes gc_mutex and calls do_garbage_collect on the victim.
GcCall == /\ pc = "idle"
          /\ gcType' \in {BG, FG}
          /\ status' = "run"
          /\ pc' = "sum" /\ phase' = 0 /\ off' = 0 /\ missed' = {}
          /\ UNCHANGED <<sum, loc, page, ilist, held, lk, icache, gcRef,
                         sumType, nloc, npage>>

\* do_garbage_collect 644-661: get_sum_page fails, GC_ERROR; otherwise
\* the switch on the summary type picks gc_data_segment or
\* gc_node_segment.
GetSumPage == /\ pc = "sum"
              /\ \/ status' = "ERROR" /\ pc' = "put"
                 \/ /\ pc' = IF sumType = "data" THEN "blk" ELSE "nblk"
                    /\ UNCHANGED status
              /\ UNCHANGED <<sum, loc, page, gcType, phase, off, ilist, held,
                             lk, icache, gcRef>>

\* Mutant: the lookup answers for any inode, pinned or not.
FindGcInodeAny(i) == i

\* find_gc_inode (308-319).
find_gc_inode(i) == IF i \in Range(ilist) THEN i ELSE NONE

\* The end of one phase-2 iteration: the inode is no longer held.
NextOffset == held' = NONE /\ pc' = "blk" /\ Advance

\* add_gc_inode (321-331): an inode already on the list gives back the
\* reference the caller took; otherwise the entry is allocated (repeat:).
add_gc_inode(i) == IF i \in Range(ilist)
                     THEN gcRef' = [gcRef EXCEPT ![i] = @ - 1] /\ NextOffset
                     ELSE pc' = "addinode" /\ UNCHANGED <<gcRef, held, phase, off>>

\* add_gc_inode (332-340): kmem_cache_alloc(GFP_NOFS) may sleep in reclaim,
\* and on failure cond_resched and goto repeat, so owners run while GC
\* holds the inode reference and gc_mutex.  A failed attempt changes no
\* state; the allocation that succeeds appends the entry, which keeps the
\* reference.
AllocInodeEntry == /\ pc = "addinode"
                   /\ ilist' = Append(ilist, held)
                   /\ NextOffset
                   /\ UNCHANGED <<absVars, icache, gcRef, lk>>

\* One iteration of the offset loop (547-615) up to the first call that
\* may sleep.  should_do_checkpoint is the environment's choice; the
\* node page read in check_dnode may fail (GC_NEXT).
GcBlock ==
  /\ pc = "blk" /\ phase < 4
  /\ \/ /\ status' = "BLOCKED" /\ pc' = "put"
        /\ UNCHANGED <<phase, off, held, icache, gcRef>>
     \/ /\ ~Live(off) \/ phase = 0 \/ phase = 1
        /\ Advance /\ UNCHANGED <<status, pc, held, icache, gcRef>>
     \/ /\ Live(off) /\ phase >= 1          \* get_node_page fails
        /\ Advance /\ UNCHANGED <<status, pc, held, icache, gcRef>>
     \/ /\ Live(off) /\ phase = 2           \* f2fs_iget_nowait fails
        /\ Advance /\ UNCHANGED <<status, pc, held, icache, gcRef>>
     \/ /\ Live(off) /\ phase = 2
        /\ icache' = [icache EXCEPT ![Ino(Cur)] = TRUE]
        /\ gcRef' = [gcRef EXCEPT ![Ino(Cur)] = @ + 1]
        /\ held' = Ino(Cur) /\ pc' = "findpage"
        /\ UNCHANGED <<status, phase, off>>
     \/ /\ Live(off) /\ phase = 3
        /\ pc' = IF find_gc_inode(Ino(Cur)) = NONE THEN "blk" ELSE "getpage"
        /\ IF find_gc_inode(Ino(Cur)) = NONE THEN Advance ELSE UNCHANGED <<phase, off>>
        /\ UNCHANGED <<status, held, icache, gcRef>>
  /\ UNCHANGED <<sum, loc, page, gcType, ilist, lk>>

\* Phase 2 after the inode is held (589-600): find_data_page reads the page
\* in (a hole or an I/O error fails it and goes to next_iput); on success
\* the page is released and the inode handed to add_gc_inode.
FindPageNoIput ==
  /\ pc = "findpage"
  /\ \/ UNCHANGED <<page, gcRef>> /\ NextOffset
     \/ /\ loc[Cur] # NULL_ADDR
        /\ page' = [page EXCEPT ![Cur] = IF @ = "none" THEN "clean" ELSE @]
        /\ add_gc_inode(held)
  /\ UNCHANGED <<sum, loc, gcType, status, ilist, lk, icache>>
FindDataPage ==
  /\ pc = "findpage"
  /\ \/ /\ TRUE        \* a hole or an I/O error: goto next_iput
        /\ gcRef' = [gcRef EXCEPT ![held] = @ - 1]
        /\ UNCHANGED page /\ NextOffset
     \/ /\ loc[Cur] # NULL_ADDR
        /\ page' = [page EXCEPT ![Cur] = IF @ = "none" THEN "clean" ELSE @]
        /\ add_gc_inode(held)
  /\ UNCHANGED <<sum, loc, gcType, status, ilist, lk, icache>>

\* Phase 3 (602-610): get_lock_data_page.  A hole fails it; a cached page
\* is locked at once; otherwise a new page is added to the mapping and read,
\* and it is locked only after the read completes (Relock).
GetLockDataPage ==
  /\ pc = "getpage"
  /\ \/ /\ loc[Cur] = NULL_ADDR
        /\ pc' = "blk" /\ Advance /\ UNCHANGED <<page, lk>>
     \/ /\ loc[Cur] # NULL_ADDR /\ page[Cur] # "none"
        /\ lk' = [f |-> Cur, attached |-> TRUE] /\ pc' = "move"
        /\ UNCHANGED <<page, phase, off>>
     \/ /\ loc[Cur] # NULL_ADDR /\ page[Cur] = "none"
        /\ page' = [page EXCEPT ![Cur] = "clean"]
        /\ lk' = [f |-> Cur, attached |-> TRUE] /\ pc' = "relock"
        /\ UNCHANGED <<phase, off>>
  /\ UNCHANGED <<sum, loc, gcType, status, ilist, held, icache, gcRef>>
Relock == /\ pc = "relock" /\ pc' = "move"
          /\ UNCHANGED <<absVars, phase, off, ilist, held, lk, icache, gcRef>>

\* move_data_page (493-522) and the f2fs_put_page that unlocks the page:
\* a page no longer in the inode's mapping, or under writeback, is left
\* alone; background GC marks it dirty; foreground GC clears its dirty bit
\* and writes it through do_write_data_page to a new address.
MoveNoMappingCheck ==
  /\ pc = "move"
  /\ \/ /\ page[lk.f] = "wb" /\ UNCHANGED <<page, loc>>
     \/ /\ page[lk.f] # "wb" /\ gcType = BG
        /\ page' = [page EXCEPT ![lk.f] = "dirty"] /\ UNCHANGED loc
     \/ /\ page[lk.f] # "wb" /\ gcType = FG
        /\ page' = [page EXCEPT ![lk.f] = "wb"]
        /\ loc' = [loc EXCEPT ![lk.f] = OUT]
  /\ lk' = NONE /\ pc' = "blk" /\ Advance
  /\ UNCHANGED <<sum, gcType, status, ilist, held, icache, gcRef>>
move_data_page ==
  /\ pc = "move"
  /\ \/ /\ ~lk.attached \/ page[lk.f] = "wb"
        /\ UNCHANGED <<page, loc>>
     \/ /\ lk.attached /\ page[lk.f] # "wb" /\ gcType = BG
        /\ page' = [page EXCEPT ![lk.f] = "dirty"] /\ UNCHANGED loc
     \/ /\ lk.attached /\ page[lk.f] # "wb" /\ gcType = FG
        /\ page' = [page EXCEPT ![lk.f] = "wb"]
        /\ loc' = [loc EXCEPT ![lk.f] = OUT]
  /\ lk' = NONE /\ pc' = "blk" /\ Advance
  /\ UNCHANGED <<sum, gcType, status, ilist, held, icache, gcRef>>

\* 616-618: the four passes are over, GC_DONE.
GcDone == /\ pc = "blk" /\ phase = 4
          /\ status' = "DONE" /\ pc' = "put"
          /\ UNCHANGED <<sum, loc, page, gcType, phase, off, ilist, held, lk,
                         icache, gcRef>>

\* put_gc_inode (343-351) at f2fs_gc's stop, one iput per entry; then
\* f2fs_gc returns.
put_gc_inode ==
  /\ pc = "put"
  /\ \/ /\ ilist # <<>>
        /\ gcRef' = [gcRef EXCEPT ![Head(ilist)] = @ - 1]
        /\ ilist' = Tail(ilist) /\ UNCHANGED pc
     \/ /\ ilist = <<>> /\ pc' = "idle"
        /\ UNCHANGED <<ilist, gcRef>>
  /\ UNCHANGED <<absVars, phase, off, held, lk, icache>>

(***************************************************************************)
(* A node victim.  Owners of node pages: a node is read in, updated,      *)
(* written back (the writer gives it a new block and updates the NAT at  *)
(* submission) and truncated (its block invalidated and its id freed).    *)
(***************************************************************************)
\* check_valid_map (353-365): the block still holds the node the summary
\* names, i.e. the NAT still maps that node to it.
NLive(b) == NSUM[b] # NONE /\ nloc[NSUM[b]] = b
NCur == NSUM[off]

NodeRead(n) == /\ npage[n] = "none" /\ nloc[n] # NULL_ADDR
               /\ npage' = [npage EXCEPT ![n] = "clean"] /\ UNCHANGED nloc
NodeUpdate(n) == /\ npage[n] \in {"clean", "dirty"}
                 /\ npage' = [npage EXCEPT ![n] = "dirty"] /\ UNCHANGED nloc
NodeWriteback(n) ==
  \/ /\ npage[n] = "dirty" /\ npage' = [npage EXCEPT ![n] = "wb"]
     /\ nloc' = [nloc EXCEPT ![n] = OUT]
  \/ npage[n] = "wb" /\ npage' = [npage EXCEPT ![n] = "clean"] /\ UNCHANGED nloc
NodeTruncate(n) == /\ nloc[n] # NULL_ADDR /\ npage[n] # "wb"
                   /\ npage' = [npage EXCEPT ![n] = "none"]
                   /\ nloc' = [nloc EXCEPT ![n] = NULL_ADDR]
NodeReclaim(n) == /\ npage[n] = "clean" /\ npage' = [npage EXCEPT ![n] = "none"]
                  /\ UNCHANGED nloc

NodeOwner == /\ \E n \in Nodes : NodeRead(n) \/ NodeUpdate(n) \/ NodeWriteback(n)
                                 \/ NodeTruncate(n) \/ NodeReclaim(n)
             /\ UNCHANGED <<absVars, gcVars, icache, gcRef, sumType, missed>>

(***************************************************************************)
(* gc_node_segment (372-431).  phase 0 is the initial (read-ahead) pass,  *)
(* phase 1 the second; phase 2 is after "goto next_step" has been taken   *)
(* once.                                                                   *)
(***************************************************************************)
\* One iteration of the offset loop up to get_node_page, which sleeps
\* reading the page: should_do_checkpoint (391-395: cp_mutex,
\* block_operations, GC_BLOCKED), check_valid_map (GC_NEXT; it never
\* returns GC_ERROR), and ra_node_page in the initial pass.
NodeBlock ==
  /\ pc = "nblk" /\ phase < 2
  /\ \/ status' = "BLOCKED" /\ pc' = "put" /\ UNCHANGED <<phase, off>>
     \/ /\ ~NLive(off) \/ phase = 0
        /\ Advance /\ UNCHANGED <<status, pc>>
     \/ /\ NLive(off) /\ phase = 1
        /\ pc' = "nfetch" /\ UNCHANGED <<status, phase, off>>
  /\ UNCHANGED <<sum, loc, page, gcType, ilist, held, lk, icache, gcRef,
                 nodeState>>

\* 406-415: get_node_page returns the page locked, or an error (an I/O
\* error, or a node id freed meanwhile) and the block is skipped; a page
\* not under writeback is marked dirty; f2fs_put_page unlocks it.
NodeFetch ==
  /\ pc = "nfetch"
  /\ \/ missed' = missed \cup {off} /\ UNCHANGED npage
     \/ /\ nloc[NCur] # NULL_ADDR
        /\ npage' = [npage EXCEPT ![NCur] = IF @ = "wb" THEN "wb" ELSE "dirty"]
        /\ UNCHANGED missed
  /\ pc' = "nblk" /\ Advance
  /\ UNCHANGED <<absVars, ilist, held, lk, icache, gcRef, sumType, nloc>>

\* sync_node_pages(sbi, 0, WB_SYNC_ALL) (node.c): every dirty node page is
\* written, to a new block.
sync_node_pages ==
  /\ npage' = [n \in Nodes |-> IF npage[n] = "dirty" THEN "wb" ELSE npage[n]]
  /\ nloc' = [n \in Nodes |-> IF npage[n] = "dirty" THEN OUT ELSE nloc[n]]

\* Mutant: foreground GC returns without the synchronous flush.
NodePassEndNoSync ==
  /\ pc = "nblk" /\ phase = 2
  /\ status' = "DONE" /\ pc' = "put"
  /\ UNCHANGED <<sum, loc, page, gcType, phase, off, ilist, held, lk,
                 icache, gcRef, nodeState>>

\* 416-430: both passes are over; foreground GC flushes the node pages it
\* dirtied; GC_DONE.
NodePassEnd ==
  /\ pc = "nblk" /\ phase = 2
  /\ IF gcType = FG THEN sync_node_pages ELSE UNCHANGED <<nloc, npage>>
  /\ status' = "DONE" /\ pc' = "put"
  /\ UNCHANGED <<sum, loc, page, gcType, phase, off, ilist, held, lk,
                 icache, gcRef, sumType, missed>>

\* Every block the summary names is valid, every inode cached and no node
\* page cached at the start; the owners' operations reach the other
\* states.
Init == /\ pc = "idle" /\ phase = 0 /\ off = 0
        /\ sumType \in {"data", "node"}
        /\ sum = SUM
        /\ loc = [f \in FileBlocks |->
                   IF \E b \in Blks : SUM[b] = f THEN CHOOSE b \in Blks : SUM[b] = f
                   ELSE OUT]
        /\ gcType = BG /\ status = "idle"
        /\ Abs!Init
        /\ icache = [i \in Inodes |-> TRUE]
        /\ envBudget = ENV_STEPS
        /\ gcRef = [i \in Inodes |-> 0]
        /\ ilist = <<>> /\ held = NONE /\ lk = NONE
        /\ nloc = [n \in Nodes |->
                    IF \E b \in Blks : NSUM[b] = n THEN CHOOSE b \in Blks : NSUM[b] = n
                    ELSE OUT]
        /\ npage = [n \in Nodes |-> "none"] /\ missed = {}

\* Owners act freely while no GC call runs, and at most ENV_STEPS times
\* during one call.
EnvBudget == IF pc = "idle" THEN UNCHANGED envBudget
             ELSE envBudget > 0 /\ envBudget' = envBudget - 1

\* The owners of the victim's blocks act; the owners of other blocks do
\* not touch anything the model holds.
DataOwner ==
  /\ UNCHANGED <<nodeState, gcType, status>>
  /\ \/ \E f \in FileBlocks : UserRead(f) \/ UserWrite(f) \/ Writeback(f)
                              \/ UserTruncate(f) \/ PageReclaim(f)
     \/ \E i \in Inodes : Evict(i) \/ Open(i)

\* The data evacuator's steps leave the node state alone.
DataGc == /\ \/ GcBlock \/ FindDataPage \/ AllocInodeEntry \/ GetLockDataPage
             \/ Relock \/ move_data_page \/ GcDone
          /\ UNCHANGED nodeState

Next ==
  \/ sumType = "data" /\ DataOwner /\ EnvBudget
  \/ sumType = "node" /\ NodeOwner /\ EnvBudget
  \/ GcCall /\ envBudget' = ENV_STEPS
  \/ GetSumPage /\ UNCHANGED <<envBudget, nodeState>>
  \/ DataGc /\ UNCHANGED envBudget
  \/ (NodeBlock \/ NodeFetch \/ NodePassEnd) /\ UNCHANGED envBudget
  \/ put_gc_inode /\ UNCHANGED <<envBudget, nodeState>>

Spec == Init /\ [][Next]_vars

(***************************************************************************)
(* Properties.                                                             *)
(***************************************************************************)
TypeOK ==
  /\ pc \in {"idle", "sum", "blk", "findpage", "addinode", "getpage", "relock",
            "move", "put",
            "nblk", "nfetch"}
  /\ phase \in 0..4 /\ off \in Blks
  /\ status \in {"idle", "run", "DONE", "BLOCKED", "ERROR"}
  /\ icache \in [Inodes -> BOOLEAN]
  /\ gcRef \in [Inodes -> Nat]
  /\ ilist \in Seq(Inodes) /\ held \in Inodes \cup {NONE}
  /\ lk \in {NONE} \cup [f : FileBlocks, attached : BOOLEAN]
  /\ envBudget \in 0..ENV_STEPS
  /\ sumType \in {"data", "node"}
  /\ nloc \in [Nodes -> Blks \cup {OUT, NULL_ADDR}]
  /\ npage \in [Nodes -> {"none", "clean", "dirty", "wb"}]
  /\ missed \subseteq Blks

\* The reason for pinning in phase 2 (spec 4.5): while GC looks up, reads,
\* locks or moves the page of an inode (find_data_page, get_lock_data_page,
\* move_data_page), that inode is still in memory: the reference from
\* f2fs_iget_nowait, held while add_gc_inode sleeps to allocate its entry
\* and then kept on the pin list across the phase boundary, stops it from
\* being evicted in between.
InodeLiveWhileUsed ==
  pc \in {"findpage", "addinode", "getpage", "relock", "move"} => icache[Ino(Cur)]

\* P4: when f2fs_gc returns, the pin list is empty and every inode
\* reference GC took in phase 2 has been dropped exactly once, whether the
\* page lookup failed (next_iput), the inode was already pinned (the iput
\* in add_gc_inode), or it was pinned and released by put_gc_inode.
PinsReleasedWhenIdle ==
  pc = "idle" => ilist = <<>> /\ \A i \in Inodes : gcRef[i] = 0

\* The four passes, with the sleeps between them and the file owners
\* running meanwhile, behave as the single in-order pass of EvacAtomic: GC
\* moves at most the summary owner's page at each offset, only while that
\* page is in the mapping and not under writeback, and its earlier passes
\* change nothing but the page cache.
EvacAtomicSpec == Abs!Spec

\* Spec 4.4: when gc_node_segment returns GC_DONE, every block of the node
\* victim that is still live was dealt with: foreground GC has written
\* its node elsewhere (sync_node_pages after the second pass), background
\* GC has left the node page dirty for the writer to move, unless
\* get_node_page failed on it.  Owners update, write back and truncate
\* nodes between the check and the fetch and after the fetch.
NodeBlocksMovedOnDone ==
  sumType = "node" /\ pc = "put" /\ status = "DONE" =>
    \A b \in Blks : NLive(b) =>
        b \in missed \/ (gcType = BG /\ npage[NSUM[b]] = "dirty")

====
