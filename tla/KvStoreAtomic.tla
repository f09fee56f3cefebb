---------------------------- MODULE KvStoreAtomic ----------------------------
(***************************************************************************)
(* The contract of the KV engine as spec.md section 4.2 states it: every   *)
(* operation is one indivisible step on the map, the live transactions'    *)
(* write buffers and the read-lock sets.  Unknown-id behaviour follows the *)
(* table of section 4.2 (tx_put fails on an unknown id, commit and abort  *)
(* return true); tx_get of an absent key succeeds with the empty value.    *)
(***************************************************************************)
EXTENDS FiniteSets

CONSTANTS Threads, TxIds, Keys, Values, NoValue, NotLive

VARIABLES kv_store, live_txs, locked_keys, ret

vars == <<kv_store, live_txs, locked_keys, ret>>

EmptyBuf == [k \in Keys |-> NoValue]
TxBuf(b) == IF b = NotLive THEN EmptyBuf ELSE b
Overlay(store, b) == [k \in Keys |-> IF b[k] # NoValue THEN b[k] ELSE store[k]]

Answer(t, r) == ret' = [ret EXCEPT ![t] = r]

Init ==
  /\ kv_store = [k \in Keys |-> NoValue]
  /\ live_txs = [i \in TxIds |-> NotLive]
  /\ locked_keys = [i \in TxIds |-> {}]
  /\ ret = [t \in Threads |-> FALSE]

Put(t, k, v) ==
  /\ kv_store' = [kv_store EXCEPT ![k] = v]
  /\ Answer(t, TRUE)
  /\ UNCHANGED <<live_txs, locked_keys>>

Get(t, k) ==
  /\ Answer(t, kv_store[k])
  /\ UNCHANGED <<kv_store, live_txs, locked_keys>>

\* true iff new
TxStart(t, id) ==
  /\ Answer(t, live_txs[id] = NotLive)
  /\ live_txs' = [live_txs EXCEPT ![id] = IF @ = NotLive THEN EmptyBuf ELSE @]
  /\ UNCHANGED <<kv_store, locked_keys>>

\* true iff id is live; buffers the write
TxPut(t, id, k, v) ==
  /\ Answer(t, live_txs[id] # NotLive)
  /\ live_txs' = [live_txs EXCEPT ![id] = IF @ = NotLive THEN @ ELSE [@ EXCEPT ![k] = v]]
  /\ UNCHANGED <<kv_store, locked_keys>>

HeldByOther(id, k) == \E other \in TxIds \ {id} : k \in locked_keys[other]

\* (false, "") if another tx holds k, else (true, v) and k joins id's set
TxGet(t, id, k) ==
  \/ /\ HeldByOther(id, k)
     /\ Answer(t, FALSE)
     /\ UNCHANGED <<kv_store, live_txs, locked_keys>>
  \/ /\ ~HeldByOther(id, k)
     /\ locked_keys' = [locked_keys EXCEPT ![id] = @ \cup {k}]
     /\ Answer(t, kv_store[k])
     /\ UNCHANGED <<kv_store, live_txs>>

\* applies the buffer atomically, releases the read locks, destroys the tx
TxCommit(t, id) ==
  /\ kv_store' = Overlay(kv_store, TxBuf(live_txs[id]))
  /\ live_txs' = [live_txs EXCEPT ![id] = NotLive]
  /\ locked_keys' = [locked_keys EXCEPT ![id] = {}]
  /\ Answer(t, TRUE)

\* releases the read locks, drops the buffer
TxAbort(t, id) ==
  /\ live_txs' = [live_txs EXCEPT ![id] = NotLive]
  /\ locked_keys' = [locked_keys EXCEPT ![id] = {}]
  /\ Answer(t, TRUE)
  /\ UNCHANGED kv_store

Next ==
  \E t \in Threads :
    \/ \E k \in Keys : \/ Get(t, k)
                       \/ \E v \in Values : Put(t, k, v)
    \/ \E id \in TxIds :
         \/ TxStart(t, id)
         \/ TxCommit(t, id)
         \/ TxAbort(t, id)
         \/ \E k \in Keys : \/ TxGet(t, id, k)
                            \/ \E v \in Values : TxPut(t, id, k, v)

Spec == Init /\ [][Next]_vars

=============================================================================
