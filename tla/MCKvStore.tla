------------------------------ MODULE MCKvStore ------------------------------
(***************************************************************************)
(* Model-checking instance of KvStore: two threads, two transaction ids,  *)
(* two keys and one value.  One value is enough: every property compares   *)
(* a key's value with NoValue (absent) or with a buffered write, and two   *)
(* keys are enough for a commit to write more than one key at once.       *)
(***************************************************************************)
EXTENDS KvStore

CONSTANTS t1, t2, i1, i2, k1, k2, v1

MCThreads == {t1, t2}
MCTxIds == {i1, i2}
MCKeys == {k1, k2}
MCValues == {v1}

\* threads, ids and keys are interchangeable model values
MCSymmetry == Permutations(MCThreads) \cup Permutations(MCTxIds) \cup Permutations(MCKeys)

=============================================================================
