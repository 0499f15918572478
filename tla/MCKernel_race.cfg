SPECIFICATION Spec
CONSTANTS
  high = high
  peer = peer
  Idle = idle
  Main = main
  NoThread = none
  Threads = {idle, main, high, peer}
  Static = {}
  PrioMax = 3
  InitPrio <- Levels
  InitTick = 2
  MaxNest = 1
  Lists = {}
  StartQueue <- Queue
  Apis <- DeletionOfSleepers
INVARIANT ClosedIsUnqueued
