------------------------------ MODULE TxnSerial ------------------------------
(***************************************************************************)
(* What the transaction-graph workload promises (spec 3 and 4.7): the     *)
(* nodes of the graph run one at a time, each exactly once, each after    *)
(* every node it depends on, so the KV state is the state that some       *)
(* topological order of the graph builds.  Every node eventually runs.   *)
(*                                                                         *)
(* TxnGraph, with its reference counts, ready deque and consumer threads,  *)
(* implements this specification (TxnGraph!ImplementsSerial).              *)
(***************************************************************************)
EXTENDS FiniteSets

CONSTANTS
  Nodes,          \* txn ids of the trace
  Deps,           \* pairs <<p, n>>: n depends_on p
  State0,         \* the KV state before any node runs
  Effect(_, _)    \* Effect(n, st): the state after node n's commands

VARIABLES
  done,   \* the nodes that have run
  st      \* the KV state they built

serialVars == <<done, st>>

Preds(n) == {m \in Nodes : <<m, n>> \in Deps}

Init == done = {} /\ st = State0

\* a node whose predecessors have all run, runs, atomically
Run(n) ==
  /\ n \notin done /\ Preds(n) \subseteq done
  /\ done' = done \cup {n}
  /\ st' = Effect(n, st)

Next == \E n \in Nodes : Run(n)

Spec == Init /\ [][Next]_serialVars /\ WF_serialVars(Next)

=============================================================================
