\* Three shards that join at any moment (so two redistributions, the second
\* while re-inserts of the first may be in flight), keys 1 and 2, two
\* external requests, three clt slots and two send_all slots.  The workload
\* is bounded: once it is spent every thread only polls an empty stack,
\* which TLC sees as a state without successors; that is the cluster at
\* rest, not a deadlock.
CONSTANTS
  s1 = s1
  s2 = s2
  s3 = s3
  v1 = v1
  v2 = v2
  Blank = Blank
  NoValue = NoValue
  NoShard = NoShard
  Off = Off
  Shards <- MCShards3
  Keys <- MCKeys12
  Values <- MCValues1
  Procs <- MCProcs
  SenderSlots <- MCSenders2
  MaxOps = 2
  Registered0 <- MCRegistered0
  DirectPorts <- MCDirect2
  DbFaults = FALSE
SPECIFICATION Spec
INVARIANT TypeOK
INVARIANT KeyConserved
CHECK_DEADLOCK FALSE
