------------------------------ MODULE TxnGraph ------------------------------
(***************************************************************************)
(* The transaction-graph workload of src/source/workload_traces/load_txn.*:*)
(* parse_txn_trace turns a trace into GraphNodes that hold their           *)
(* successors by shared_ptr; a GraphNode whose last holder dies moves       *)
(* itself into ready_nodes (~GraphNode, add_to_ready).  Consumer threads    *)
(* take nodes with get_ready, which waits on ready_cond while the deque is  *)
(* empty and remaining_nodes is not 0.  get_possible_results is the         *)
(* oracle: every final KV state of the graph, by recursion on copies.       *)
(*                                                                         *)
(* Nothing in the repository calls get_ready; the consumer loop around it  *)
(* (take a node, run its commands, drop it) is the one spec 4.7 describes. *)
(***************************************************************************)
EXTENDS Integers, Sequences, SequencesExt, FiniteSets

CONSTANTS
  Nodes,       \* txn ids of the trace
  Deps,        \* pairs <<p, n>>: n depends_on p
  IsTxn,       \* [Nodes -> BOOLEAN]
  Cmds,        \* [Nodes -> Seq of [op, key, value]]: the trace's commands
  TraceKeys,   \* keys as the trace writes them
  Values,      \* values of put commands: Dec(x)
  NoValue,     \* an absent key
  Consumers,   \* threads calling get_ready
  NoNode       \* a consumer holding no node

Preds(n) == {m \in Nodes : <<m, n>> \in Deps}
Succ(n) == {m \in Nodes : <<n, m>> \in Deps}
Roots == {n \in Nodes : Preds(n) = {}}

-----------------------------------------------------------------------------
(* Commands.                                                               *)

\* convert_key_to_int: memcpy(&key, ...) copies into the string_view
\* itself, so res keeps its initial 0 whatever the key
ConvertKeyToInt(k) == 0

KvKeys == TraceKeys \cup {ConvertKeyToInt(k) : k \in TraceKeys}

EmptyState == [k \in KvKeys |-> NoValue]

\* parse_txn_trace never assigns Node::id, so every node has id 0
NodeId(n) == 0

\* the oracle's test: is_txn || id == 0
Mutates(n) == IsTxn[n] \/ NodeId(n) = 0

(* The OpFuncs of op_type_map.  A stored value is the decimal text the   *)
(* code writes; the model keeps the number it spells: Dec(x) for the text *)
(* of an int64 x, Unsigned(r) for the text of the uint64 2^64 + r, r < 0,  *)
(* which from_chars<int64_t> rejects as out of range.                      *)
LOCAL INSTANCE Bitwise

\* values stay inside W-bit two's complement, where sign extension to 64
\* bits commutes with &, | and ^
W == 16

Dec(x) == [num |-> x, signed |-> TRUE]
Unsigned(r) == [num |-> r, signed |-> FALSE]

\* str_value_to_op_value<int64_t>: nothing unless the text is an int64
Parse(v) == IF v.signed THEN {v.num} ELSE {}

\* C++ / and % truncate toward zero; a zero divisor raises SIGFPE, which
\* the model leaves undefined (TLC stops on it like the process does)
Abs(x) == IF x < 0 THEN -x ELSE x
CDiv(a, b) == IF (a < 0) = (b < 0) THEN Abs(a) \div Abs(b) ELSE -(Abs(a) \div Abs(b))
CMod(a, b) == a - b * CDiv(a, b)

\* bin_op_wrapper: memcpy to uint64_t, apply f; the if constexpr has no
\* else, so the lambda returns the unsigned result and fmt prints it so
ToU(x) == x % 2^W
ToS(u) == IF u >= 2^(W-1) THEN u - 2^W ELSE u
BitOp(f, l, r) ==
  LET u == CASE f = "and"  -> ToU(l) & ToU(r)
             [] f = "or"   -> ToU(l) | ToU(r)
             [] f = "xor"  -> ToU(l) ^^ ToU(r)
             [] f = "nand" -> 2^W - 1 - (ToU(l) & ToU(r))
             [] f = "nor"  -> 2^W - 1 - (ToU(l) | ToU(r))
      s == ToS(u)
  IN IF s < 0 THEN Unsigned(s) ELSE Dec(s)

ArithOp(f, l, r) ==
  CASE f = "add"  -> l + r
    [] f = "sub"  -> l - r
    [] f = "mult" -> l * r
    [] f = "div"  -> CDiv(l, r)
    [] f = "mod"  -> CMod(l, r)

ArithOps == {"add", "sub", "mult", "div", "mod"}
BitOps == {"and", "or", "xor", "nand", "nor"}

\* op_wrapper: lhs is state[cmd.key], rhs is state[convert_key_to_int(
\* cmd.value)]; either absent or unparsable and the state is left alone
OpWrapper(st, c) ==
  LET lk == ConvertKeyToInt(c.key)
      rk == ConvertKeyToInt(c.value)
  IN IF st[lk] = NoValue \/ st[rk] = NoValue \/ Parse(st[lk]) = {} \/ Parse(st[rk]) = {}
     THEN st
     ELSE LET l == CHOOSE x \in Parse(st[lk]) : TRUE
              r == CHOOSE x \in Parse(st[rk]) : TRUE
          IN [st EXCEPT ![lk] = IF c.op \in ArithOps THEN Dec(ArithOp(c.op, l, r))
                                                    ELSE BitOp(c.op, l, r)]

\* not_func: ~ on the uint64_t copy, copied back into the int64_t: signed
NotFunc(st, c) ==
  LET k == ConvertKeyToInt(c.key)
  IN IF st[k] = NoValue \/ Parse(st[k]) = {} THEN st
     ELSE [st EXCEPT ![k] = Dec(-(CHOOSE x \in Parse(st[k]) : TRUE) - 1)]

\* the visit in get_possible_results: the put Op and the set OpFunc write
\* state[cmd.key]; get, the other Ops, and the pause / kill OpFuncs (a
\* prompt on stdout, an integer read from stdin) change nothing
ApplyCmd(st, c) ==
  CASE c.op \in {"put", "set"}         -> [st EXCEPT ![ConvertKeyToInt(c.key)] = c.value]
    [] c.op \in ArithOps \cup BitOps   -> OpWrapper(st, c)
    [] c.op = "not"                    -> NotFunc(st, c)
    [] OTHER                           -> st

Apply(n, st) == IF Mutates(n) THEN FoldLeft(ApplyCmd, st, Cmds[n]) ELSE st

-----------------------------------------------------------------------------
(* The oracle.  A graph is its ready deque and the number of live holders *)
(* of every node not yet released; deep_copy rebuilds the nodes reachable  *)
(* from the ready deque, so the copy has the same counts.                  *)

\* take the i-th ready node: erase it, and drop it, which releases every
\* successor it held; those it held last join the back of the deque
Step(rd, rf, i) ==
  LET n == rd[i]
  IN [node  |-> n,
      ready |-> RemoveAt(rd, i) \o SetToSeq({m \in Succ(n) : rf[m] = 1}),
      refs  |-> [m \in Nodes |-> IF m \in Succ(n) THEN rf[m] - 1 ELSE rf[m]]]

\* the nodes reachable from S along next pointers, S included
RECURSIVE Reachable(_)
Reachable(S) ==
  LET nxt == UNION {Succ(n) : n \in S} \ S
  IN IF nxt = {} THEN S ELSE Reachable(S \cup nxt)

\* mutant: the copy restores every node's parsed in-degree
CopyRefsAll(rd) == [m \in Nodes |-> Cardinality(Preds(m))]

\* deep_copy: the copied ready nodes and, once each (known_nodes), every
\* GraphNode reachable from them; a copy is held only by copied nodes
CopyRefs(rd) ==
  LET R == Reachable(Range(rd))
  IN [m \in Nodes |-> Cardinality(Preds(m) \cap R)]

RECURSIVE GetPossibleResults(_, _, _)

\* get_possible_results(graph, state): one ready node is applied in place,
\* several are each tried on a deep copy
GetPossibleResults(rd, rf, st) ==
  IF rd = <<>> THEN {st}
  ELSE IF Len(rd) = 1
       THEN LET x == Step(rd, rf, 1) IN GetPossibleResults(x.ready, x.refs, Apply(x.node, st))
       ELSE UNION {LET x == Step(rd, CopyRefs(rd), i)
                   IN GetPossibleResults(x.ready, x.refs, Apply(x.node, st)) : i \in 1..Len(rd)}

\* reference: the final states of every topological order of the nodes left
RECURSIVE TopoOutcomes(_, _)
TopoOutcomes(S, st) ==
  IF S = {} THEN {st}
  ELSE UNION {TopoOutcomes(S \ {n}, Apply(n, st)) : n \in {m \in S : Preds(m) \cap S = {}}}

-----------------------------------------------------------------------------
VARIABLES
  ready,       \* ready_nodes
  remaining,   \* remaining_nodes
  refs,        \* live holders of each node's GraphNode (its unreleased preds)
  pc,          \* idle, waiting, woken, holding, releasing, notify, done
  held,        \* the Node a consumer got from get_ready
  torelease,   \* successors the dropped Node still holds
  kv,          \* the state the consumers' commands build
  popped,      \* history: nodes get_ready handed out, in order
  executed     \* history: nodes whose commands ran, in order

vars == <<ready, remaining, refs, pc, held, torelease, kv, popped, executed>>

\* parse_txn_trace: num_nodes = remaining_nodes = |nodes|; when the local
\* map dies, every root's last holder is gone and it joins ready_nodes, in
\* the map's unspecified order
Init ==
  /\ ready \in SetToSeqs(Roots)
  /\ remaining = Cardinality(Nodes)
  /\ refs = [n \in Nodes |-> Cardinality(Preds(n))]
  /\ pc = [c \in Consumers |-> "idle"]
  /\ held = [c \in Consumers |-> NoNode]
  /\ torelease = [c \in Consumers |-> {}]
  /\ kv = EmptyState
  /\ popped = <<>> /\ executed = <<>>

\* mutant: front() copied without pop_front()
PopKeep(c) ==
  /\ held' = [held EXCEPT ![c] = Head(ready)]
  /\ remaining' = remaining - 1
  /\ popped' = Append(popped, Head(ready))
  /\ pc' = [pc EXCEPT ![c] = "holding"]
  /\ UNCHANGED ready

\* move front(), pop_front(), remaining_nodes.fetch_add(-1), return it
Pop(c) ==
  /\ held' = [held EXCEPT ![c] = Head(ready)]
  /\ ready' = Tail(ready)
  /\ remaining' = remaining - 1
  /\ popped' = Append(popped, Head(ready))
  /\ pc' = [pc EXCEPT ![c] = "holding"]

\* the body of get_ready under ready_lock: take a node, return nullopt when
\* nothing is left, or wait on ready_cond (which releases the lock)
TakeOrWait(c) ==
  /\ \/ ready # <<>> /\ Pop(c)
     \/ /\ ready = <<>> /\ remaining = 0
        /\ pc' = [pc EXCEPT ![c] = "done"]
        /\ UNCHANGED <<ready, remaining, held, popped>>
     \/ /\ ready = <<>> /\ remaining # 0
        /\ pc' = [pc EXCEPT ![c] = "waiting"]
        /\ UNCHANGED <<ready, remaining, held, popped>>
  /\ UNCHANGED <<refs, torelease, kv, executed>>

\* get_ready called
GetReady(c) == pc[c] = "idle" /\ TakeOrWait(c)

\* woken by notify_one: wait re-takes the lock and tests its predicate
Wakeup(c) == pc[c] = "woken" /\ TakeOrWait(c)

\* the consumer runs the node's commands, then drops the Node
Execute(c) ==
  /\ pc[c] = "holding"
  /\ kv' = Apply(held[c], kv)
  /\ executed' = Append(executed, held[c])
  /\ torelease' = [torelease EXCEPT ![c] = Succ(held[c])]
  /\ pc' = [pc EXCEPT ![c] = "releasing"]
  /\ UNCHANGED <<ready, remaining, refs, held, popped>>

\* one shared_ptr of the Node's next vector dies; others still hold s
ReleaseShared(c, s) ==
  /\ pc[c] = "releasing" /\ s \in torelease[c] /\ refs[s] > 1
  /\ refs' = [refs EXCEPT ![s] = @ - 1]
  /\ torelease' = [torelease EXCEPT ![c] = @ \ {s}]
  /\ UNCHANGED <<ready, remaining, pc, held, kv, popped, executed>>

\* mutant: the count tested before the decrement instead of after
ReleaseLastEarly(c, s) ==
  /\ pc[c] = "releasing" /\ s \in torelease[c] /\ refs[s] <= 2
  /\ refs' = [refs EXCEPT ![s] = @ - 1]
  /\ torelease' = [torelease EXCEPT ![c] = @ \ {s}]
  /\ ready' = Append(ready, s)
  /\ pc' = [pc EXCEPT ![c] = "notify"]
  /\ UNCHANGED <<remaining, held, kv, popped, executed>>

\* mutant: ~GraphNode finds graph->valid false and never calls add_to_ready
ReleaseLastDropped(c, s) ==
  /\ pc[c] = "releasing" /\ s \in torelease[c] /\ refs[s] = 1
  /\ refs' = [refs EXCEPT ![s] = 0]
  /\ torelease' = [torelease EXCEPT ![c] = @ \ {s}]
  /\ UNCHANGED <<ready, remaining, pc, held, kv, popped, executed>>

\* the last holder of s dies: ~GraphNode calls add_to_ready, which pushes
\* under ready_lock and notifies after unlocking
ReleaseLast(c, s) ==
  /\ pc[c] = "releasing" /\ s \in torelease[c] /\ refs[s] = 1
  /\ refs' = [refs EXCEPT ![s] = 0]
  /\ torelease' = [torelease EXCEPT ![c] = @ \ {s}]
  /\ ready' = Append(ready, s)
  /\ pc' = [pc EXCEPT ![c] = "notify"]
  /\ UNCHANGED <<remaining, held, kv, popped, executed>>

Waiting == {w \in Consumers : pc[w] = "waiting"}

\* mutant: notify_one lost
NotifyLost(c) ==
  /\ pc[c] = "notify"
  /\ pc' = [pc EXCEPT ![c] = "releasing"]
  /\ UNCHANGED <<ready, remaining, refs, held, torelease, kv, popped, executed>>

\* ready_cond.notify_one(): wakes one waiting thread, if there is one
Notify(c) ==
  /\ pc[c] = "notify"
  /\ \/ \E w \in Waiting : pc' = [pc EXCEPT ![c] = "releasing", ![w] = "woken"]
     \/ Waiting = {} /\ pc' = [pc EXCEPT ![c] = "releasing"]
  /\ UNCHANGED <<ready, remaining, refs, held, torelease, kv, popped, executed>>

\* mutant: back to get_ready before the Node is gone
ReleaseDoneEarly(c) ==
  /\ pc[c] = "releasing"
  /\ pc' = [pc EXCEPT ![c] = "idle"]
  /\ held' = [held EXCEPT ![c] = NoNode]
  /\ UNCHANGED <<ready, remaining, refs, torelease, kv, popped, executed>>

\* the Node is destroyed; loop to get_ready
ReleaseDone(c) ==
  /\ pc[c] = "releasing" /\ torelease[c] = {}
  /\ pc' = [pc EXCEPT ![c] = "idle"]
  /\ held' = [held EXCEPT ![c] = NoNode]
  /\ UNCHANGED <<ready, remaining, refs, torelease, kv, popped, executed>>

Consumer(c) ==
  \/ GetReady(c) \/ Wakeup(c) \/ Execute(c)
  \/ \E s \in Nodes : ReleaseShared(c, s) \/ ReleaseLast(c, s)
  \/ Notify(c) \/ ReleaseDone(c)

Next == \E c \in Consumers : Consumer(c)

\* every thread runs; a waiting one only moves when notified
Spec == Init /\ [][Next]_vars /\ \A c \in Consumers : WF_vars(Consumer(c))

-----------------------------------------------------------------------------
(* Properties.                                                             *)

TypeOK ==
  /\ ready \in Seq(Nodes) /\ popped \in Seq(Nodes) /\ executed \in Seq(Nodes)
  /\ remaining \in 0..Cardinality(Nodes)
  /\ refs \in [Nodes -> Nat]
  /\ pc \in [Consumers -> {"idle", "waiting", "woken", "holding", "releasing", "notify", "done"}]
  /\ held \in [Consumers -> Nodes \cup {NoNode}]
  /\ torelease \in [Consumers -> SUBSET Nodes]
  /\ kv \in [KvKeys -> {NoValue} \cup [num : Int, signed : BOOLEAN]]
  \* a thread in get_ready holds no Node
  /\ \A c \in Consumers :
       pc[c] \in {"idle", "waiting", "woken", "done"} => held[c] = NoNode /\ torelease[c] = {}

\* Spec 3 and 4.7: a node becomes available only when all its predecessors
\* have been consumed and destroyed; so the reference counts of the
\* successor shared_ptrs never let a node into ready_nodes, or out of
\* get_ready, before every node it depends on has run.
DependencyOrder ==
  \A n \in Range(ready) \cup Range(popped) : Preds(n) \subseteq Range(executed)

\* Spec 3: remaining_nodes strictly decreases and the graph is consumed when
\* it is 0: get_ready hands every node out at most once, and
\* remaining_nodes counts exactly those not yet handed out.
HandedOutOnce ==
  /\ IsInjective(popped)
  /\ remaining = Cardinality(Nodes) - Len(popped)

\* every consumer has dropped the Node it took: the graph is what a deep
\* copy of it would be
NoNodeInHand == \A c \in Consumers : pc[c] \in {"idle", "waiting", "woken", "done"}

\* Spec 4.7 and 8: get_possible_results returns every final state of the
\* topological orders of the graph.  Checked on the graph in every state the
\* consumers leave it in with no Node in hand, from the state they built:
\* the recursion over deep copies and released successors yields exactly
\* the outcomes of the nodes not run yet.
OracleMatchesReference ==
  NoNodeInHand =>
    GetPossibleResults(ready, CopyRefs(ready), kv) = TopoOutcomes(Nodes \ Range(executed), kv)

\* The consumers' run of the graph, seen as the serial execution of
\* TxnSerial: the nodes run so far, and the state their commands built.
Serial == INSTANCE TxnSerial WITH done <- Range(executed), st <- kv,
                                  State0 <- EmptyState, Effect <- Apply

\* Spec 3 and 4.7: however the consumer threads interleave, the reference
\* counts, the ready deque and get_ready together make their run a serial
\* topological execution of the graph: each Execute runs a node not run
\* before whose predecessors have all run, and applies exactly its
\* commands to the state; and every node eventually runs.
ImplementsSerial == Serial!Spec

\* Spec 3: the graph is consumed when ready_nodes is empty and
\* remaining_nodes is 0: every consumer's get_ready eventually returns
\* nullopt, none is left waiting on ready_cond.
AllReturn == <>(\A c \in Consumers : pc[c] = "done")

=============================================================================
