SPECIFICATION AllSpec
CONSTANTS
  high = high
  peer = peer
  sem = sem
  mutex = mutex
  event = event
  mailbox = mailbox
  senders = senders
  queue = queue
  pool = pool
  Idle = idle
  Main = main
  NoThread = none
  Threads = {idle, main, high, peer}
  Static = {peer}
  PrioMax = 3
  InitPrio <- Levels
  InitTick = 1
  MaxNest = 1
  Lists = {sem, mutex, event, mailbox, senders, queue, pool}
  Objects = {sem, mutex, event, mailbox, queue, pool}
  ListsOf <- AllLists
  StartQueue <- StartQueues
  Apis <- Applications
  Uses <- UsedObjects
  Interrupting <- HandlersToo
  Fifo = {event}
  Newest = {pool}
  Semaphores = {sem}
  InitValue <- OneToken
  ValueMod = 4
  MaxSupply = 2
  Mutexes = {mutex}
  MaxHold = 2
  Events = {event}
  Bits = {1, 2}
  Mailboxes = {mailbox}
  SenderList <- MailSenders
  Size = 2
  Mails = {a, b}
  NoMail = nomail
  Queues = {queue}
  MaxMsgs = 2
  Texts = {a, b}
  NoText = nomail
  Pools = {pool}
  BlockCount = 2
  CountMod = 8
  MaxPended = 3
INVARIANTS
  DataTypeOK
  ListedOnce
  ReadyQueueIsExact
  ListsHaveBits
  HighestRuns
  TimedIsSuspended
  FreedIsUnreferenced
  TokensConserved
  NobodyWaitsInVain
  SuspendListsAreSound
  MutexIsOwned
  OwnerInherits
  MessagesAreSomewhere
  BlocksAreConserved
PROPERTIES
  ClosedStaysClosed
  ChannelsAreFifo
