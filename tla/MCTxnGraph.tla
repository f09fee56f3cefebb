----------------------------- MODULE MCTxnGraph -----------------------------
(***************************************************************************)
(* Model-checking instance of TxnGraph: the graph of spec scenario 5 (n0   *)
(* before n1 and n2, which write the same key) closed by a diamond: n3     *)
(* depends on both n1 and n2, so it is released by whichever of them is   *)
(* dropped last, and it is a non-transactional node.  Its depends_on also *)
(* names n0, a dependency already implied, so once n0 has run n3 has one  *)
(* released and two live predecessors: a deep copy that counts holders    *)
(* wrongly never releases n3.  n0 puts 3, n1 doubles it (add), n2 squares *)
(* it (mult): the two orders give 36 and 18, and n3's nand turns them into *)
(* the unsigned texts of -37 and -19.  Four nodes give the oracle both of  *)
(* its branches (one and several ready nodes).                            *)
(***************************************************************************)
EXTENDS TxnGraph

CONSTANTS n0, n1, n2, n3, c1, c2, c3

MCNodes == {n0, n1, n2, n3}
MCDeps == {<<n0, n1>>, <<n0, n2>>, <<n1, n3>>, <<n2, n3>>, <<n0, n3>>}
MCIsTxn == [n \in MCNodes |-> n # n3]
MCCmds ==
  [n \in MCNodes |->
     CASE n = n0 -> <<[op |-> "put", key |-> 1, value |-> Dec(3)]>>
       [] n = n1 -> <<[op |-> "add", key |-> 1, value |-> 1]>>
       [] n = n2 -> <<[op |-> "mult", key |-> 1, value |-> 1]>>
       [] n = n3 -> <<[op |-> "nand", key |-> 1, value |-> 1]>>]
MCTraceKeys == {1}
MCValues == {Dec(3)}
MCConsumers2 == {c1, c2}
MCConsumers3 == {c1, c2, c3}

=============================================================================
