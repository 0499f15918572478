SPECIFICATION ConsoleSpec
CHECK_DEADLOCK FALSE
CONSTANTS
  t1 = t1
  t2 = t2
  o1 = o1
  o2 = o2
  o3 = o3
  d1 = d1
  d2 = d2
  n1 = n1
  n2 = n2
  Nobody = Nobody
  Threads = {t1, t2}
  Objs = {o1, o2, o3, d1, d2}
  Names = {n1, n2}
  Classes = {"Thread", "Semaphore", "Event", "Mutex", "MailBox", "MessageQueue",
             "MemHeap", "MemPool", "Timer", "Device"}
  Class <- ClassOf
  LIST_FIND_OBJ_NR = 2
  Applications <- Apps
  Standalone = {d2}
  Failing = {d2}
  MaxOpen = 2
  MaxBytes = 2
  FINSH_CMD_SIZE = 6
  FINSH_HISTORY_LINES = 2
  FINSH_ARG_MAX = 2
  Nul = Nul
  Commands <- Names3
  Sessions <- Short
INVARIANTS
  ListsAreExact
  ListingsAreComplete
  OpensAreCounted
  InputIsHeard
PROPERTY IsEditor
