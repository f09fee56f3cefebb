\* The handle_client contract: a client request may reach the master before
\* any shard registered, and a u32 key of 2^31 or more is held as a negative int.
CONSTANTS
  s1 = s1
  s2 = s2
  s3 = s3
  v1 = v1
  v2 = v2
  Blank = Blank
  NoValue = NoValue
  NoShard = NoShard
  Off = Off
  Shards <- MCShards2
  Keys <- MCKeysWide
  Values <- MCValues1
  Procs <- MCProcs
  SenderSlots <- MCSenders1
  MaxOps = 1
  Registered0 <- MCRegistered0
  DirectPorts <- MCDirectNone
  DbFaults = FALSE
SPECIFICATION Spec
PROPERTY HandleClientContract
CHECK_DEADLOCK FALSE
