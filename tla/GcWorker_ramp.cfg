\* Sleep times in units of GC_THREAD_MIN_SLEEP_TIME; NOGC is kept a few
\* steps above MAX so that the decrease path from NOGC is long enough to
\* show.
CONSTANTS
  MIN = 1
  MAX = 3
  NOGC = 6
SPECIFICATION Spec
INVARIANT ProductiveGcWaitAtMostMax
\* A failed mount and a finished unmount are final: nothing runs after them.
CHECK_DEADLOCK FALSE
