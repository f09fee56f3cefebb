\* Three consumer threads on the diamond graph: does every get_ready return?
CONSTANTS
  n0 = n0  n1 = n1  n2 = n2  n3 = n3  c1 = c1  c2 = c2  c3 = c3
  Nodes <- MCNodes
  Deps <- MCDeps
  IsTxn <- MCIsTxn
  Cmds <- MCCmds
  TraceKeys <- MCTraceKeys
  Values <- MCValues
  NoValue = NoValue
  NoNode = NoNode
  Consumers <- MCConsumers3
SPECIFICATION Spec
PROPERTY
  AllReturn
CHECK_DEADLOCK FALSE
