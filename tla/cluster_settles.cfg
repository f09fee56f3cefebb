\* Two shards that join at any moment, keys 0, 1 and 4294967295 (the int -1:
\* send_all stops at 0 and at -1, and the master cannot route -1 once two
\* shards are registered), two external requests.  The workload is bounded;
\* the state without successors that ends it is the cluster at rest.
CONSTANTS
  s1 = s1
  s2 = s2
  s3 = s3
  v1 = v1
  v2 = v2
  Blank = Blank
  NoValue = NoValue
  NoShard = NoShard
  Off = Off
  Shards <- MCShards2
  Keys <- MCKeysWide0
  Values <- MCValues1
  Procs <- MCProcs
  SenderSlots <- MCSenders1
  MaxOps = 2
  Registered0 <- MCRegistered0
  DirectPorts <- MCDirect2
  DbFaults = TRUE
SPECIFICATION Spec
PROPERTY Settles
CHECK_DEADLOCK FALSE
