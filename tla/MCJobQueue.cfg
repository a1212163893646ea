CONSTANTS
  notify = notify
  delmsg = delmsg
  other = other
  t1 = t1
  t2 = t2
  Work <- MCWork
  NoWork = NoWork
  Tx = {t1, t2}
  TxOf <- MCTxOf
  MaxJobs = 2
  MaxAttempts = 2
  Deferred = {other}
  Batches = {1, 2}
  MaxDisruptions = 2
SPECIFICATION LiveSpec
INVARIANTS
  TypeOK
  OutboxKept
  RunningIsHeld
  NeverTwiceAtOnce
  AttemptBudget
PROPERTIES
  EveryJobSettles
  QueueIsOutbox
