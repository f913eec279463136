------------------------------- MODULE GcStats -------------------------------
(***************************************************************************)
(* The statistics registry: build_gc_manager (gc.c 1067-1106) puts each   *)
(* mounted file system's f2fs_gc_info on the global f2fs_stat_list,        *)
(* destroy_gc_manager (1108-1126) takes it off and frees it, and the proc *)
(* readers f2fs_read_gc, f2fs_read_sit and f2fs_read_mem (820-1031) walk  *)
(* the list with list_for_each_entry_safe and lock each stat_info's        *)
(* stat_list mutex.  The list itself has no lock.  A reader that touches  *)
(* freed memory, or the poisoned link of an unlinked entry, faults: the   *)
(* model stops it there (pc "uaf", or "null" for a NULL sbi), since what   *)
(* follows is undefined; so does a division by zero ("div0").  Of the     *)
(* file system the readers report on, the model keeps two facts, which   *)
(* the rest of the file system changes at any time while it is mounted.   *)
(***************************************************************************)
EXTENDS Sequences, SequencesExt

CONSTANTS Mounts, Readers, NOBODY, HEAD

VARIABLES mnt,      \* per mount: where build/destroy_gc_manager is
          gci,      \* per mount: f2fs_gc_info memory, "none" | "live" | "freed"
          si,       \* per mount: f2fs_stat_info memory
          siSbi,    \* per mount: si->sbi is set
          siLock,   \* per mount: holder of si->stat_list
          statList, \* f2fs_stat_list, in list order
          dirtySegs, \* per mount: dirty_segments(sbi) > 0
          partial,  \* per mount: some section has 0 < valid < blks_per_sec
          siDirty,  \* per mount: si->dirty_count > 0
          rpc, rKind, pos, nxt, rSbi  \* per reader: pc, proc file, gc_i,
                                      \* the saved next, sbi read early

readerVars == <<rpc, rKind, pos, nxt, rSbi>>
fsVars == <<dirtySegs, partial, siDirty>>
vars == <<mnt, gci, si, siSbi, siLock, statList, readerVars, fsVars>>

\* The entry after m on the list, as list_for_each_entry_safe reads it
\* from m's link; HEAD after the last entry.
Succ(m) == LET k == CHOOSE k \in 1..Len(statList) : statList[k] = m
           IN  IF k = Len(statList) THEN HEAD ELSE statList[k + 1]
First == IF statList = <<>> THEN HEAD ELSE Head(statList)

(***************************************************************************)
(* build_gc_manager and destroy_gc_manager, one mount each.                *)
(***************************************************************************)
\* 1076-1080: kzalloc the gc_info (its failure returns -ENOMEM) and hang
\* it on sbi.
BuildAlloc(m) == /\ mnt[m] = "unmounted"
                 /\ \/ mnt' = [mnt EXCEPT ![m] = "failed"] /\ UNCHANGED gci
                    \/ /\ mnt' = [mnt EXCEPT ![m] = "alloc"]
                       /\ gci' = [gci EXCEPT ![m] = "live"]
                 /\ UNCHANGED <<si, siSbi, siLock, statList, readerVars>>
\* 1086-1093: kzalloc the stat_info (its failure returns -ENOMEM with
\* nothing on the list), mutex_init, list_add_tail.
BuildRegister(m) == /\ mnt[m] = "alloc"
                    /\ \/ /\ mnt' = [mnt EXCEPT ![m] = "failed"]
                          /\ UNCHANGED <<si, statList>>
                       \/ /\ mnt' = [mnt EXCEPT ![m] = "listed"]
                          /\ si' = [si EXCEPT ![m] = "live"]
                          /\ statList' = Append(statList, m)
                    /\ UNCHANGED <<gci, siSbi, siLock, readerVars>>
\* 1095-1103: fill in the area sizes, and last si->sbi = sbi.
BuildPublish(m) == /\ mnt[m] = "listed"
                   /\ mnt' = [mnt EXCEPT ![m] = "mounted"]
                   /\ siSbi' = [siSbi EXCEPT ![m] = TRUE]
                   /\ UNCHANGED <<gci, si, siLock, statList, readerVars>>
\* 1118: list_del, with no lock on f2fs_stat_list; the links are poisoned.
DestroyUnlink(m) == /\ mnt[m] = "mounted"
                    /\ mnt' = [mnt EXCEPT ![m] = "unlinked"]
                    /\ statList' = SelectSeq(statList, LAMBDA x : x # m)
                    /\ UNCHANGED <<gci, si, siSbi, siLock, readerVars>>
\* 1119-1121: under stat_list, si->sbi = NULL.
DestroyClearNoLock(m) == /\ mnt[m] = "unlinked"
                         /\ mnt' = [mnt EXCEPT ![m] = "cleared"]
                         /\ siSbi' = [siSbi EXCEPT ![m] = FALSE]
                         /\ UNCHANGED <<gci, si, siLock, statList, readerVars>>
DestroyClear(m) == /\ mnt[m] = "unlinked" /\ siLock[m] = NOBODY
                   /\ mnt' = [mnt EXCEPT ![m] = "cleared"]
                   /\ siSbi' = [siSbi EXCEPT ![m] = FALSE]
                   /\ UNCHANGED <<gci, si, siLock, statList, readerVars>>
\* 1122-1125: kfree(stat_info), sbi->gc_info = NULL, kfree(gc_info).
DestroyFreeSi(m) == /\ mnt[m] = "cleared"
                    /\ mnt' = [mnt EXCEPT ![m] = "sifreed"]
                    /\ si' = [si EXCEPT ![m] = "freed"]
                    /\ UNCHANGED <<gci, siSbi, siLock, statList, readerVars>>
DestroyFreeGci(m) == /\ mnt[m] = "sifreed"
                     /\ mnt' = [mnt EXCEPT ![m] = "gone"]
                     /\ gci' = [gci EXCEPT ![m] = "freed"]
                     /\ UNCHANGED <<si, siSbi, siLock, statList, readerVars>>

(***************************************************************************)
(* The proc readers.  A step that dereferences freed memory or a poisoned *)
(* link goes to "uaf"; one that dereferences a NULL sbi goes to "null".    *)
(***************************************************************************)
Live(m) == gci[m] = "live"
Linked(m) == m \in Range(statList)

Go(r, to) == rpc' = [rpc EXCEPT ![r] = to]

\* list_for_each_entry_safe: take the first entry and read its next link.
ReadStart(r) == /\ rpc[r] = "idle" /\ statList # <<>>
                /\ \E k \in {"gc", "sit", "mem"} : rKind' = [rKind EXCEPT ![r] = k]
                /\ pos' = [pos EXCEPT ![r] = First]
                /\ nxt' = [nxt EXCEPT ![r] = Succ(First)]
                /\ Go(r, "si")
                /\ UNCHANGED <<mnt, gci, si, siSbi, siLock, statList, rSbi>>
\* si = gc_i->stat_info; f2fs_read_mem also reads stat_info->sbi here,
\* before it takes the lock (961).
ReadSi(r) == /\ rpc[r] = "si"
             /\ LET m == pos[r] IN
                CASE ~Live(m) -> Go(r, "uaf") /\ UNCHANGED rSbi
                  [] rKind[r] = "mem" /\ si[m] # "live" ->
                       Go(r, "uaf") /\ UNCHANGED rSbi
                  [] OTHER -> /\ Go(r, "lock")
                              /\ rSbi' = [rSbi EXCEPT ![r] = siSbi[m]]
             /\ UNCHANGED <<mnt, gci, si, siSbi, siLock, statList, rKind, pos, nxt>>
\* mutex_lock(&si->stat_list).
ReadLock(r) == /\ rpc[r] = "lock"
               /\ LET m == pos[r] IN
                  \/ si[m] # "live" /\ Go(r, "uaf") /\ UNCHANGED siLock
                  \/ /\ si[m] = "live" /\ siLock[m] = NOBODY
                     /\ siLock' = [siLock EXCEPT ![m] = r] /\ Go(r, "check")
               /\ UNCHANGED <<mnt, gci, si, siSbi, statList, rKind, pos, nxt, rSbi>>
\* if (!si->sbi) unlock and continue; otherwise go on to report.
ReadCheck(r) == /\ rpc[r] = "check"
                /\ LET m == pos[r] IN
                   CASE si[m] # "live" -> Go(r, "uaf") /\ UNCHANGED siLock
                     [] ~siSbi[m] -> /\ siLock' = [siLock EXCEPT ![m] = NOBODY]
                                     /\ Go(r, "next")
                     [] OTHER -> Go(r, "use") /\ UNCHANGED siLock
                /\ UNCHANGED <<mnt, gci, si, siSbi, statList, rKind, pos, nxt, rSbi>>
\* f2fs_update_stat (732-779), for f2fs_read_gc: of the counters it copies
\* into si, the model keeps si->dirty_count.
f2fs_update_stat(m) == siDirty' = [siDirty EXCEPT ![m] = dirtySegs[m]]

\* f2fs_update_gc_metric (787-818), for f2fs_read_sit: it counts ndirty,
\* the sections with 0 < valid < blks_per_sec, under sentry_lock, and
\* divides total_vblocks by it when si->dirty_count, as the last
\* f2fs_update_stat left it, is not zero.
GcMetricDividesByZero(m) == siDirty[m] /\ ~partial[m]

\* The body of f2fs_read_mem (966-1024) sums sizes read through the sbi it
\* took from stat_info before locking (961), starting with sbi->sb.
MemBodyDerefsNull(r) == rKind[r] = "mem" /\ ~rSbi[r]

\* The body of f2fs_read_sit (944-947): f2fs_update_gc_metric, then the
\* report.
SitBodyDividesByZero(r, m) == rKind[r] = "sit" /\ GcMetricDividesByZero(m)

\* The body of each reader, then the report and mutex_unlock; the body of
\* f2fs_read_gc (837-924) is f2fs_update_stat and the report.
ReadUse(r) == /\ rpc[r] = "use"
              /\ LET m == pos[r] IN
                 CASE si[m] # "live" -> Go(r, "uaf") /\ UNCHANGED <<siLock, siDirty>>
                   [] MemBodyDerefsNull(r) ->
                        Go(r, "null") /\ UNCHANGED <<siLock, siDirty>>
                   [] SitBodyDividesByZero(r, m) ->
                        Go(r, "div0") /\ UNCHANGED <<siLock, siDirty>>
                   [] OTHER -> /\ siLock' = [siLock EXCEPT ![m] = NOBODY]
                               /\ IF rKind[r] = "gc" THEN f2fs_update_stat(m)
                                                     ELSE UNCHANGED siDirty
                               /\ Go(r, "next")
              /\ UNCHANGED <<mnt, gci, si, siSbi, statList, rKind, pos, nxt, rSbi,
                             dirtySegs, partial>>
\* pos = n; n = pos->next, read from the entry saved before the body.
ReadNext(r) == /\ rpc[r] = "next"
               /\ pos' = [pos EXCEPT ![r] = nxt[r]]
               /\ CASE nxt[r] = HEAD -> Go(r, "idle") /\ UNCHANGED nxt
                    [] ~Live(nxt[r]) \/ ~Linked(nxt[r]) -> Go(r, "uaf") /\ UNCHANGED nxt
                    [] OTHER -> /\ nxt' = [nxt EXCEPT ![r] = Succ(nxt[r])]
                                /\ Go(r, "si")
               /\ UNCHANGED <<mnt, gci, si, siSbi, siLock, statList, rKind, rSbi>>

\* Writes and GC change the segment state of a mounted file system.  A
\* dirty segment is partly valid, so its section is counted in ndirty; a
\* current segment may make a section partial without being dirty.
FsChange(m) == /\ mnt[m] = "mounted"
               /\ \E d, p \in BOOLEAN :
                    /\ d => p
                    /\ dirtySegs' = [dirtySegs EXCEPT ![m] = d]
                    /\ partial' = [partial EXCEPT ![m] = p]
               /\ UNCHANGED <<mnt, gci, si, siSbi, siLock, statList, readerVars,
                              siDirty>>

Init == /\ mnt = [m \in Mounts |-> "unmounted"]
        /\ gci = [m \in Mounts |-> "none"] /\ si = [m \in Mounts |-> "none"]
        /\ siSbi = [m \in Mounts |-> FALSE] /\ siLock = [m \in Mounts |-> NOBODY]
        /\ statList = <<>>
        /\ rpc = [r \in Readers |-> "idle"] /\ rKind = [r \in Readers |-> "gc"]
        /\ pos = [r \in Readers |-> HEAD] /\ nxt = [r \in Readers |-> HEAD]
        /\ rSbi = [r \in Readers |-> FALSE]
        /\ dirtySegs = [m \in Mounts |-> FALSE] /\ partial = [m \in Mounts |-> FALSE]
        /\ siDirty = [m \in Mounts |-> FALSE]

Next == \/ /\ \E m \in Mounts :
                \/ BuildAlloc(m) \/ BuildRegister(m) \/ BuildPublish(m)
                \/ DestroyUnlink(m) \/ DestroyClear(m) \/ DestroyFreeSi(m)
                \/ DestroyFreeGci(m)
           /\ UNCHANGED fsVars
        \/ \E m \in Mounts : FsChange(m)
        \/ /\ \E r \in Readers :
                \/ ReadStart(r) \/ ReadSi(r) \/ ReadLock(r) \/ ReadCheck(r)
                \/ ReadNext(r)
           /\ UNCHANGED fsVars
        \/ \E r \in Readers : ReadUse(r)

Spec == Init /\ [][Next]_vars

(***************************************************************************)
(* Properties.                                                             *)
(***************************************************************************)
TypeOK ==
  /\ mnt \in [Mounts -> {"unmounted", "alloc", "failed", "listed", "mounted",
                         "unlinked", "cleared", "sifreed", "gone"}]
  /\ gci \in [Mounts -> {"none", "live", "freed"}]
  /\ si \in [Mounts -> {"none", "live", "freed"}]
  /\ siSbi \in [Mounts -> BOOLEAN] /\ siLock \in [Mounts -> Readers \cup {NOBODY}]
  /\ statList \in Seq(Mounts)
  /\ rpc \in [Readers -> {"idle", "si", "lock", "check", "use", "next", "uaf",
                          "null", "div0"}]
  /\ rKind \in [Readers -> {"gc", "sit", "mem"}]
  /\ pos \in [Readers -> Mounts \cup {HEAD}] /\ nxt \in [Readers -> Mounts \cup {HEAD}]
  /\ rSbi \in [Readers -> BOOLEAN]
  /\ dirtySegs \in [Mounts -> BOOLEAN] /\ partial \in [Mounts -> BOOLEAN]
  /\ siDirty \in [Mounts -> BOOLEAN]

\* The gone signal of spec 9: a reader that found si->sbi set under
\* stat_list reports on that sbi while destroy_gc_manager has not yet
\* cleared it, because the clear takes the same mutex.
SbiStableWhileUsed ==
  \A r \in Readers : rpc[r] = "use" => siSbi[pos[r]]

\* Spec 9 says readers racing with destroy_gc_manager "observe a clean
\* gone signal": no proc reader ever dereferences a freed gc_info or
\* stat_info or the poisoned link of an unlinked entry, nor (f2fs_read_mem,
\* which uses the sbi it read before taking the lock) a NULL sbi; and no
\* reader divides by zero (f2fs_read_sit, whose guard is the dirty count
\* the last f2fs_read_gc saw).
ReaderNeverFaults == \A r \in Readers : rpc[r] \notin {"uaf", "null", "div0"}

====
