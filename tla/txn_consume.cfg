\* Two consumer threads drain the diamond graph: dependency order, each node
\* handed out once, the oracle against the topological orders, and every
\* get_ready returning.  When both return the model stops.
CONSTANTS
  n0 = n0  n1 = n1  n2 = n2  n3 = n3  c1 = c1  c2 = c2  c3 = c3
  Nodes <- MCNodes
  Deps <- MCDeps
  IsTxn <- MCIsTxn
  Cmds <- MCCmds
  TraceKeys <- MCTraceKeys
  Values <- MCValues
  NoValue = NoValue
  NoNode = NoNode
  Consumers <- MCConsumers2
SPECIFICATION Spec
INVARIANTS
  TypeOK
  DependencyOrder
  HandedOutOnce
  OracleMatchesReference
PROPERTY
  ImplementsSerial
  AllReturn
CHECK_DEADLOCK FALSE
