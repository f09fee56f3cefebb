\* tx_get takes db_mtx inside gets_mtx, tx_commit takes gets_mtx inside db_mtx
\* and tx_abort takes txs_mtx inside gets_mtx: a circular wait.
CONSTANTS
  t1 = t1  t2 = t2  i1 = i1  i2 = i2  k1 = k1  k2 = k2  v1 = v1
  Threads <- MCThreads
  TxIds <- MCTxIds
  Keys <- MCKeys
  Values <- MCValues
  NoValue = NoValue
  NotLive = NotLive
  NoThread = NoThread
SPECIFICATION Spec
INVARIANT DeadlockFree
CHECK_DEADLOCK FALSE
