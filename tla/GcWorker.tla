------------------------------ MODULE GcWorker ------------------------------
(***************************************************************************)
(* The background GC thread: start_gc_thread and stop_gc_thread (gc.c     *)
(* 91-118) and the loop of gc_thread_func (30-89) with its adaptive sleep. *)
(* Foreground callers of f2fs_gc take gc_mutex meanwhile.  What the loop   *)
(* reads from the rest of the file system (freezing, is_idle,             *)
(* has_enough_invalid_blocks, the result of f2fs_gc) is a nondeterministic *)
(* choice at the step that reads it.                                       *)
(***************************************************************************)
EXTENDS Naturals

\* GC_THREAD_MIN_SLEEP_TIME, GC_THREAD_MAX_SLEEP_TIME and
\* GC_THREAD_NOGC_SLEEP_TIME, in units of the minimum.
CONSTANTS MIN, MAX, NOGC

ASSUME MIN >= 1 /\ MIN < MAX /\ MAX < NOGC

VARIABLES mnt,        \* the mount: "unmounted" | "mounted" | "failed" |
                      \*   "stopping" (in kthread_stop) | "stopped"
          thr,        \* sbi->gc_thread: "null" | "live" | "dangling"
          bgOpt,      \* test_opt(sbi, BG_GC)
          task,       \* the kthread: "none" | "loop" | "frozen" | "balance"
                      \*   (blocked on gc_mutex in f2fs_balance_fs) | "balgc" |
                      \*   "opt" | "gc" | "exited"
          shouldStop, \* kthread_should_stop()
          wait_ms,
          mutex,      \* gc_mutex: "free" | "bg" | "fg"
          gcRes       \* what the worker's last f2fs_gc returned

vars == <<mnt, thr, bgOpt, task, shouldStop, wait_ms, mutex, gcRes>>

(***************************************************************************)
(* increase_sleep_time and decrease_sleep_time (gc.h): a step of MIN,     *)
(* clamped to MAX going up and to MIN going down.                          *)
(***************************************************************************)
increase_sleep_time(wait) == IF wait + MIN > MAX THEN MAX ELSE wait + MIN

decrease_sleep_time(wait) == IF wait - MIN <= MIN THEN MIN ELSE wait - MIN

(***************************************************************************)
(* start_gc_thread and stop_gc_thread, called at mount and unmount.        *)
(***************************************************************************)
\* 95-107: kmalloc fails (nothing set); kthread_run fails (gc_th is freed
\* but sbi->gc_thread still points at it); or the thread runs.  The BG_GC
\* mount option is fixed for the mount.
start_gc_thread ==
  /\ mnt = "unmounted"
  /\ bgOpt' \in BOOLEAN
  /\ \/ mnt' = "failed" /\ UNCHANGED <<thr, task, wait_ms>>
     \/ mnt' = "failed" /\ thr' = "dangling" /\ UNCHANGED <<task, wait_ms>>
     \/ /\ mnt' = "mounted" /\ thr' = "live"
        /\ task' = "loop" /\ wait_ms' = MIN
  /\ UNCHANGED <<shouldStop, mutex, gcRes>>

\* 112-115: kthread_stop sets the stop flag, wakes the thread ...
StopRequest ==
  /\ mnt = "mounted" /\ thr = "live"
  /\ mnt' = "stopping" /\ shouldStop' = TRUE
  /\ UNCHANGED <<thr, bgOpt, task, wait_ms, mutex, gcRes>>
\* ... and waits for it to exit; 116-117: kfree, sbi->gc_thread = NULL.
StopJoin ==
  /\ mnt = "stopping" /\ task = "exited"
  /\ mnt' = "stopped" /\ thr' = "null"
  /\ UNCHANGED <<bgOpt, task, shouldStop, wait_ms, mutex, gcRes>>

(***************************************************************************)
(* Foreground GC: f2fs_balance_fs and other callers of f2fs_gc hold       *)
(* gc_mutex for the whole call (mutex_lock ... the unlock at gc.c 724).    *)
(* They are file operations, so they run only while the file system is    *)
(* mounted, not once unmount has reached stop_gc_thread.                   *)
(***************************************************************************)
FgLock == /\ mnt = "mounted" /\ mutex = "free" /\ mutex' = "fg"
          /\ UNCHANGED <<mnt, thr, bgOpt, task, shouldStop, wait_ms, gcRes>>
FgUnlock == /\ mutex = "fg" /\ mutex' = "free"
            /\ UNCHANGED <<mnt, thr, bgOpt, task, shouldStop, wait_ms, gcRes>>

(***************************************************************************)
(* gc_thread_func.  "loop" is the top of the do-while body.  Every         *)
(* continue goes to the while test, which exits on kthread_should_stop.   *)
(***************************************************************************)
WhileTest == task' = IF shouldStop THEN "exited" ELSE "loop"

\* 39: try_to_freeze() puts the thread in the refrigerator while the
\* system freezes.
WorkerFreeze == /\ task = "loop"
                /\ task' = "frozen"
                /\ UNCHANGED <<mnt, thr, bgOpt, shouldStop, wait_ms, mutex, gcRes>>

\* Mutant: after the thaw the loop goes back to the top without the while
\* test.
ThawNoStopTest == /\ task = "frozen"
                  /\ task' = "loop"
                  /\ UNCHANGED <<mnt, thr, bgOpt, shouldStop, wait_ms, mutex, gcRes>>

\* 39-40: thawed, try_to_freeze() returns true; continue.
WorkerThaw == /\ task = "frozen"
              /\ WhileTest
              /\ UNCHANGED <<mnt, thr, bgOpt, shouldStop, wait_ms, mutex, gcRes>>

\* 42-48: the timed wait ends; break on a stop request; f2fs_balance_fs,
\* which under space pressure blocks on gc_mutex for a foreground GC.
WorkerWake ==
  /\ task = "loop"
  /\ \/ shouldStop /\ task' = "exited"
     \/ ~shouldStop /\ task' \in {"opt", "balance"}
  /\ UNCHANGED <<mnt, thr, bgOpt, shouldStop, wait_ms, mutex, gcRes>>

\* f2fs_balance_fs (segment.c): mutex_lock(&sbi->gc_mutex), then
\* f2fs_gc(sbi, 1), which releases it.
BalanceLock == /\ task = "balance" /\ mutex = "free"
               /\ mutex' = "bg" /\ task' = "balgc"
               /\ UNCHANGED <<mnt, thr, bgOpt, shouldStop, wait_ms, gcRes>>
BalanceGc == /\ task = "balgc"
             /\ mutex' = "free" /\ task' = "opt"
             /\ UNCHANGED <<mnt, thr, bgOpt, shouldStop, wait_ms, gcRes>>

\* Mutant: the !is_idle path continues without mutex_unlock.
NotIdleNoUnlock ==
  /\ task = "opt" /\ bgOpt /\ mutex = "free"
  /\ wait_ms' = increase_sleep_time(wait_ms)
  /\ mutex' = "bg" /\ WhileTest
  /\ UNCHANGED <<mnt, thr, bgOpt, shouldStop, gcRes>>

\* 50-78: the BG_GC option, the trylock, is_idle and
\* has_enough_invalid_blocks decide whether wait_ms grows or shrinks and
\* whether the worker goes on to f2fs_gc holding gc_mutex.
WorkerTick ==
  /\ task = "opt"
  /\ \/ ~bgOpt /\ WhileTest /\ UNCHANGED <<wait_ms, mutex>>
     \/ bgOpt /\ mutex # "free" /\ WhileTest /\ UNCHANGED <<wait_ms, mutex>>
     \/ /\ bgOpt /\ mutex = "free"
        /\ \/ \* !is_idle: lock, increase, unlock, continue
              /\ wait_ms' = increase_sleep_time(wait_ms)
              /\ WhileTest /\ UNCHANGED mutex
           \/ \* idle: keep the lock and collect
              /\ wait_ms' \in {decrease_sleep_time(wait_ms),
                               increase_sleep_time(wait_ms)}
              /\ mutex' = "bg" /\ task' = "gc"
  /\ UNCHANGED <<mnt, thr, bgOpt, shouldStop, gcRes>>

\* 80-87: f2fs_gc(sbi, 1) (which releases gc_mutex), then NOGC after a
\* call that found no victim, or MAX when the worker was at NOGC.
WorkerGc ==
  /\ task = "gc"
  /\ gcRes' \in {"none", "moved"}
  /\ wait_ms' = IF gcRes' = "none" THEN NOGC
                ELSE IF wait_ms = NOGC THEN MAX ELSE wait_ms
  /\ mutex' = "free"
  /\ WhileTest
  /\ UNCHANGED <<mnt, thr, bgOpt, shouldStop>>

Worker == \/ WorkerFreeze \/ WorkerThaw \/ WorkerWake \/ BalanceLock
          \/ BalanceGc \/ WorkerTick \/ WorkerGc

Init == /\ mnt = "unmounted" /\ thr = "null" /\ bgOpt = FALSE
        /\ task = "none" /\ shouldStop = FALSE /\ wait_ms = MIN
        /\ mutex = "free" /\ gcRes = "unset"

Next == \/ start_gc_thread \/ StopRequest \/ StopJoin
        \/ FgLock \/ FgUnlock
        \/ Worker

\* The thread is scheduled, its timed wait expires and a frozen system
\* thaws; kthread_stop's caller runs once the thread has exited; a
\* foreground f2fs_gc returns and unlocks gc_mutex.  Whether the thread
\* freezes is the system's choice, so fairness is on the loop as a whole.
Spec == Init /\ [][Next]_vars /\ WF_vars(Worker) /\ WF_vars(StopJoin)
             /\ WF_vars(FgUnlock)

(***************************************************************************)
(* Properties.                                                             *)
(***************************************************************************)
TypeOK ==
  /\ mnt \in {"unmounted", "mounted", "failed", "stopping", "stopped"}
  /\ thr \in {"null", "live", "dangling"} /\ bgOpt \in BOOLEAN
  /\ task \in {"none", "loop", "frozen", "balance", "balgc", "opt", "gc", "exited"}
  /\ shouldStop \in BOOLEAN
  /\ wait_ms \in MIN..NOGC /\ mutex \in {"free", "bg", "fg"}
  /\ gcRes \in {"unset", "none", "moved"}

\* gc_mutex is held by the worker exactly while it is inside an f2fs_gc
\* call, the one from f2fs_balance_fs or its own: every continue of the
\* loop (no BG_GC, a failed trylock, a busy device) leaves it unlocked,
\* and f2fs_gc releases it on return.  A leak would stall every
\* foreground GC; a worker in f2fs_gc without it would race with one.
GcMutexHeldOnlyInGc == mutex = "bg" <=> task \in {"balgc", "gc"}

\* Unmount terminates: once stop_gc_thread has asked the thread to stop,
\* it exits and stop_gc_thread returns, whether the loop was freezing,
\* waiting, blocked on gc_mutex behind a foreground GC, skipping or
\* collecting.
StopCompletes == mnt = "stopping" ~> mnt = "stopped"

\* Spec 4.7 step 9: after a call that found work the worker ramps back up
\* from the NOGC back-off to MAX.  Lines 84-85 test wait_ms after
\* increase/decrease_sleep_time have already moved it, so a productive
\* tick never sleeps longer than MAX.
ProductiveGcWaitAtMostMax == gcRes = "moved" => wait_ms <= MAX

====
