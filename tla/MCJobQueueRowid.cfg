CONSTANTS
  notify = notify
  delmsg = delmsg
  other = other
  t1 = t1
  t2 = t2
  Work <- MCWork
  NoWork = NoWork
  Tx = {t1, t2}
  TxOf <- MCTxOf
  MaxJobs = 3
  MaxAttempts = 2
  Deferred = {other}
  Batches = {2}
  MaxDisruptions = 1
SPECIFICATION Spec
INVARIANT DoneMeansRan

