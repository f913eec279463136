----------------------------- MODULE EvacAtomic -----------------------------
(***************************************************************************)
(* What gc_data_segment promises for one victim segment, as a single pass  *)
(* over its summary entries in block order: at each offset the entry is   *)
(* either skipped, or the page of the file block named by the summary is   *)
(* moved, provided that page is still in its inode's mapping and not under *)
(* writeback: background GC marks it dirty, foreground GC writes it out to *)
(* a new address.  A pass may stop with BLOCKED at any offset and ends     *)
(* with DONE after the last one.  File owners keep reading, writing,       *)
(* writing back and truncating meanwhile.                                  *)
(***************************************************************************)
EXTENDS Naturals

\* FileBlocks: the (inode, file index) pairs that may own a victim block.
CONSTANTS Inodes, FileBlocks, BLKS, BG, FG, NONE, OUT, NULL_ADDR

VARIABLES sum, loc, page, gcType, aoff, status

Blks == 0..(BLKS - 1)
PageStates == {"none", "clean", "dirty", "wb"}

\* The summary names at most one owner per block and one block per owner.
Summaries ==
  {s \in [Blks -> FileBlocks \cup {NONE}] :
     \A b1, b2 \in Blks : b1 # b2 /\ s[b1] # NONE => s[b1] # s[b2]}

Init ==
  /\ sum \in Summaries
  /\ loc \in {l \in [FileBlocks -> Blks \cup {OUT, NULL_ADDR}] :
                \A f \in FileBlocks : l[f] \in Blks => sum[l[f]] = f}
  /\ page = [f \in FileBlocks |-> "none"]
  /\ gcType = BG
  /\ aoff = 0
  /\ status = "idle"

\* Owners of the file blocks.
Read(f) == /\ page[f] = "none" /\ loc[f] # NULL_ADDR
           /\ page' = [page EXCEPT ![f] = "clean"]
           /\ UNCHANGED <<sum, loc, gcType, aoff, status>>
Write(f) == /\ page[f] # "wb"
            /\ page' = [page EXCEPT ![f] = "dirty"]
            /\ UNCHANGED <<sum, loc, gcType, aoff, status>>
WritebackStart(f) == /\ page[f] = "dirty"
                     /\ page' = [page EXCEPT ![f] = "wb"]
                     /\ loc' = [loc EXCEPT ![f] = OUT]
                     /\ UNCHANGED <<sum, gcType, aoff, status>>
WritebackEnd(f) == /\ page[f] = "wb"
                   /\ page' = [page EXCEPT ![f] = "clean"]
                   /\ UNCHANGED <<sum, loc, gcType, aoff, status>>
Truncate(f) == /\ page[f] # "wb"
               /\ page' = [page EXCEPT ![f] = "none"]
               /\ loc' = [loc EXCEPT ![f] = NULL_ADDR]
               /\ UNCHANGED <<sum, gcType, aoff, status>>
Reclaim(f) == /\ page[f] = "clean"
              /\ page' = [page EXCEPT ![f] = "none"]
              /\ UNCHANGED <<sum, loc, gcType, aoff, status>>

Env == \E f \in FileBlocks :
         Read(f) \/ Write(f) \/ WritebackStart(f) \/ WritebackEnd(f)
         \/ Truncate(f) \/ Reclaim(f)

\* The collector.
Start == /\ status # "run"
         /\ gcType' \in {BG, FG}
         /\ aoff' = 0 /\ status' = "run"
         /\ UNCHANGED <<sum, loc, page>>
Skip == /\ status = "run" /\ aoff < BLKS
        /\ aoff' = aoff + 1
        /\ UNCHANGED <<sum, loc, page, gcType, status>>
Move == /\ status = "run" /\ aoff < BLKS
        /\ LET f == sum[aoff] IN
           /\ f # NONE
           /\ page[f] \in {"clean", "dirty"}
           /\ IF gcType = BG
                THEN page' = [page EXCEPT ![f] = "dirty"] /\ UNCHANGED loc
                ELSE /\ page' = [page EXCEPT ![f] = "wb"]
                     /\ loc' = [loc EXCEPT ![f] = OUT]
        /\ aoff' = aoff + 1
        /\ UNCHANGED <<sum, gcType, status>>
Stop == /\ status = "run"
        /\ \/ status' \in {"BLOCKED", "ERROR"}
           \/ aoff = BLKS /\ status' = "DONE"
        /\ UNCHANGED <<sum, loc, page, gcType, aoff>>

vars == <<sum, loc, page, gcType, aoff, status>>
Next == Env \/ Start \/ Skip \/ Move \/ Stop
Spec == Init /\ [][Next]_vars

====
