\* One shard registered, a second that joins, keys 0 and 1: once the cluster
\* has settled, is every acknowledged PUT at the shard the master routes its
\* key to?
CONSTANTS
  s1 = s1
  s2 = s2
  s3 = s3
  v1 = v1
  v2 = v2
  Blank = Blank
  NoValue = NoValue
  NoShard = NoShard
  Off = Off
  Shards <- MCShards2
  Keys <- MCKeys01
  Values <- MCValues1
  Procs <- MCProcs
  SenderSlots <- MCSenders1
  MaxOps = 2
  Registered0 <- MCRegistered1
  DirectPorts <- MCDirectNone
  DbFaults = FALSE
SPECIFICATION Spec
INVARIANT OwnerHasKey
CHECK_DEADLOCK FALSE
