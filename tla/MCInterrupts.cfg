SPECIFICATION Spec
CHECK_DEADLOCK FALSE
CONSTANTS
  Word = 8
  TICK_CYCLES = 3
  StartTimes = {0, 3, 7}
  MaxTime = 34
  Untorn = TRUE
  Sources = {1, 2}
  Drivers = {1, 2}
  SourceOf <- Own
  MaxRequests = 2
  Bytes = {x, y}
  NoByte = none
  UART_RX_BUF_SIZE = 4
  Paced = TRUE
  ValueMod = 4
  user = user
  first = first
  second = second
  Timers = {first, second}
  Callers = {user}
  Uses <- Owner
  Restarts <- Chain
  Periodic = {first}
  Times = {0, 1, 3}
  TickMod = 12
  MaxLate = 1
INVARIANTS
  InOrderOfTimeout
  ListIsExact
  TicksAreOnTime
  TokensCountBytes
  WokenForAByte
PROPERTIES
  RequestsAreServed
  IsChannel
  OnTime
  
