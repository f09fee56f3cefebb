\* The engine under two threads: read-lock exclusivity and refinement of the
\* atomic contract.  The engine can stop for real (circular wait, and the
\* crash of safe_get on an absent key; see kvstore_deadlock and
\* kvstore_tx_get), so deadlock is not reported here.
CONSTANTS
  t1 = t1  t2 = t2  i1 = i1  i2 = i2  k1 = k1  k2 = k2  v1 = v1
  Threads <- MCThreads
  TxIds <- MCTxIds
  Keys <- MCKeys
  Values <- MCValues
  NoValue = NoValue
  NotLive = NotLive
  NoThread = NoThread
SPECIFICATION Spec
INVARIANT TypeOK
INVARIANT ReadLockExclusive
PROPERTY ImplementsAtomic
CHECK_DEADLOCK FALSE
