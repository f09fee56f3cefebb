\* tx_get on ids and keys the callers choose: an id never started, a key never put.
CONSTANTS
  t1 = t1  t2 = t2  i1 = i1  i2 = i2  k1 = k1  k2 = k2  v1 = v1
  Threads <- MCThreads
  TxIds <- MCTxIds
  Keys <- MCKeys
  Values <- MCValues
  NoValue = NoValue
  NotLive = NotLive
  NoThread = NoThread
SPECIFICATION Spec
INVARIANT TxGetContract
CHECK_DEADLOCK FALSE
