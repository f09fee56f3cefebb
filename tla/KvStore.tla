------------------------------- MODULE KvStore -------------------------------
(***************************************************************************)
(* The KV engine of src/source/kv_store.h (class KvStore) at the grain of  *)
(* its three mutexes.  Every public method is called by a thread; a method *)
(* that holds one mutex while it takes another is split into one action    *)
(* per acquisition, so that other threads can run in between, exactly as  *)
(* they can in the code:                                                   *)
(*   tx_get    : gets_mtx, then db_mtx (inside safe_get)                   *)
(*   tx_commit : txs_mtx, then db_mtx, then gets_mtx                       *)
(*   tx_abort  : gets_mtx, then txs_mtx                                    *)
(* put, get, tx_start and tx_put take one mutex and are single actions.    *)
(* The lock_guards of a method are all released when it returns.          *)
(***************************************************************************)
EXTENDS FiniteSets, TLC

CONSTANTS
  Threads,   \* threads calling the engine
  TxIds,     \* transaction identifiers (the int tx_id argument)
  Keys,      \* keys
  Values,    \* values a caller can store
  NoValue,   \* absent key / nullopt
  NotLive,   \* tx_id is not a key of live_txs
  NoThread   \* a mutex nobody holds

Mutexes == {"db_mtx", "txs_mtx", "gets_mtx"}

\* local_tx_buf: an unordered_map<int, string>; NoValue marks a key not in it
Buffer == [Keys -> Values \cup {NoValue}]
EmptyBuf == [k \in Keys |-> NoValue]

VARIABLES
  kv_store,     \* the main map, guarded by db_mtx
  live_txs,     \* tx_id -> write buffer, guarded by txs_mtx
  locked_keys,  \* tx_id -> keys read by that tx, guarded by gets_mtx
  owner,        \* mutex -> thread holding it
  pc,           \* where each thread is inside a method
  arg,          \* the tx_id and key of the method a thread is inside
  ret,          \* the value the last method of each thread returned
  crashed,      \* the process died
  cur_tx,       \* the local copy cur_tx of tx_commit
  undo,         \* auxiliary: kv_store before the running commit applied it
  held          \* auxiliary: the keys the running tx_abort released

engine == <<kv_store, live_txs, locked_keys>>
locals == <<pc, arg, ret, cur_tx, undo, held>>
vars == <<kv_store, live_txs, locked_keys, owner, pc, arg, ret, crashed,
          cur_tx, undo, held>>

Results == BOOLEAN \cup Values \cup {NoValue}

Free(m) == owner[m] = NoThread

\* thread t takes mutex m and keeps the ones it holds
Acquire(t, m) == owner' = [owner EXCEPT ![m] = t]

\* mutant: the method returns with its mutexes still locked
ReleaseNone(t) == owner' = owner

\* a method returns: every lock_guard it declared is destroyed
ReleaseAll(t) ==
  owner' = [m \in Mutexes |-> IF owner[m] = t THEN NoThread ELSE owner[m]]

\* the method's locals go out of scope
NoArg == [id |-> CHOOSE i \in TxIds : TRUE, key |-> CHOOSE k \in Keys : TRUE]
NoUndo == [k \in Keys |-> NoValue]

Return(t, r) ==
  /\ ret' = [ret EXCEPT ![t] = r]
  /\ pc' = [pc EXCEPT ![t] = "idle"]
  /\ arg' = [arg EXCEPT ![t] = NoArg]
  /\ cur_tx' = [cur_tx EXCEPT ![t] = NotLive]
  /\ undo' = [undo EXCEPT ![t] = NoUndo]
  /\ held' = [held EXCEPT ![t] = {}]

Init ==
  /\ kv_store = [k \in Keys |-> NoValue]
  /\ live_txs = [i \in TxIds |-> NotLive]
  /\ locked_keys = [i \in TxIds |-> {}]
  /\ owner = [m \in Mutexes |-> NoThread]
  /\ pc = [t \in Threads |-> "idle"]
  /\ arg = [t \in Threads |-> NoArg]
  /\ ret = [t \in Threads |-> FALSE]
  /\ crashed = FALSE
  /\ cur_tx = [t \in Threads |-> NotLive]
  /\ undo = [t \in Threads |-> NoUndo]
  /\ held = [t \in Threads |-> {}]

Call(t) == pc[t] = "idle" /\ ~crashed

-----------------------------------------------------------------------------
(* Single-mutex methods.                                                   *)

\* put: lock db_mtx; insert_or_assign; return true
Put(t, k, v) ==
  /\ Call(t) /\ Free("db_mtx")
  /\ kv_store' = [kv_store EXCEPT ![k] = v]
  /\ ret' = [ret EXCEPT ![t] = TRUE]
  /\ UNCHANGED <<live_txs, locked_keys, owner, pc, arg, crashed, cur_tx, undo, held>>

\* get: lock db_mtx; find; nullopt when absent
Get(t, k) ==
  /\ Call(t) /\ Free("db_mtx")
  /\ ret' = [ret EXCEPT ![t] = kv_store[k]]
  /\ UNCHANGED <<engine, owner, pc, arg, crashed, cur_tx, undo, held>>

\* tx_start: lock txs_mtx; false if tx_id is live, else insert an empty buffer
TxStart(t, id) ==
  /\ Call(t) /\ Free("txs_mtx")
  /\ ret' = [ret EXCEPT ![t] = (live_txs[id] = NotLive)]
  /\ live_txs' = [live_txs EXCEPT ![id] = IF @ = NotLive THEN EmptyBuf ELSE @]
  /\ UNCHANGED <<kv_store, locked_keys, owner, pc, arg, crashed, cur_tx, undo, held>>

\* tx_put: lock txs_mtx; false if tx_id is not live, else buffer the write
TxPut(t, id, k, v) ==
  /\ Call(t) /\ Free("txs_mtx")
  /\ ret' = [ret EXCEPT ![t] = (live_txs[id] # NotLive)]
  /\ live_txs' = [live_txs EXCEPT ![id] = IF @ = NotLive THEN @ ELSE [@ EXCEPT ![k] = v]]
  /\ UNCHANGED <<kv_store, locked_keys, owner, pc, arg, crashed, cur_tx, undo, held>>

-----------------------------------------------------------------------------
(* tx_get: the conflict scan under gets_mtx, then safe_get under db_mtx    *)
(* with gets_mtx still held, then the key is appended to the tx's list.   *)

\* mutant: the scan compares against the caller's own list
ConflictOwn(id, k) == k \in locked_keys[id]

\* the loop over locked_keys: another tx has read k
Conflict(id, k) == \E other \in TxIds \ {id} : k \in locked_keys[other]

TxGetConflict(t, id, k) ==
  /\ Call(t) /\ Free("gets_mtx")
  /\ Conflict(id, k)
  /\ ret' = [ret EXCEPT ![t] = FALSE]
  /\ UNCHANGED <<engine, owner, pc, arg, crashed, cur_tx, undo, held>>

TxGetLock(t, id, k) ==
  /\ Call(t) /\ Free("gets_mtx")
  /\ ~Conflict(id, k)
  /\ Acquire(t, "gets_mtx")
  /\ pc' = [pc EXCEPT ![t] = "tx_get_read"]
  /\ arg' = [arg EXCEPT ![t] = [id |-> id, key |-> k]]
  /\ UNCHANGED <<engine, ret, crashed, cur_tx, undo, held>>

\* safe_get dereferences find(key) without comparing it to end(): on an
\* absent key it reads through the end iterator and the process dies.
TxGetRead(t) ==
  LET id == arg[t].id
      k  == arg[t].key
  IN /\ pc[t] = "tx_get_read" /\ ~crashed /\ Free("db_mtx")
     /\ \/ /\ kv_store[k] = NoValue
           /\ crashed' = TRUE
           /\ UNCHANGED <<engine, owner, locals>>
        \/ /\ kv_store[k] # NoValue
           /\ locked_keys' = [locked_keys EXCEPT ![id] = @ \cup {k}]
           /\ ReleaseAll(t)
           /\ Return(t, kv_store[k])
           /\ UNCHANGED <<kv_store, live_txs, crashed>>

-----------------------------------------------------------------------------
(* tx_commit: txs_mtx, db_mtx; copy live_txs[tx_id] (operator[] creates an *)
(* empty buffer for an unknown id); apply it; erase the tx; gets_mtx;      *)
(* erase its read locks; return true.                                      *)

TxBuf(b) == IF b = NotLive THEN EmptyBuf ELSE b

Overlay(store, b) == [k \in Keys |-> IF b[k] # NoValue THEN b[k] ELSE store[k]]

TxCommitTxs(t, id) ==
  /\ Call(t) /\ Free("txs_mtx")
  /\ Acquire(t, "txs_mtx")
  /\ pc' = [pc EXCEPT ![t] = "commit_db"]
  /\ arg' = [arg EXCEPT ![t].id = id]
  /\ UNCHANGED <<engine, ret, crashed, cur_tx, undo, held>>

TxCommitDb(t) ==
  LET id == arg[t].id
  IN /\ pc[t] = "commit_db" /\ ~crashed /\ Free("db_mtx")
     /\ Acquire(t, "db_mtx")
     /\ cur_tx' = [cur_tx EXCEPT ![t] = live_txs[id]]
     /\ undo' = [undo EXCEPT ![t] = kv_store]
     /\ kv_store' = Overlay(kv_store, TxBuf(live_txs[id]))
     /\ live_txs' = [live_txs EXCEPT ![id] = NotLive]
     /\ pc' = [pc EXCEPT ![t] = "commit_gets"]
     /\ UNCHANGED <<locked_keys, arg, ret, crashed, held>>

TxCommitGets(t) ==
  /\ pc[t] = "commit_gets" /\ ~crashed /\ Free("gets_mtx")
  /\ locked_keys' = [locked_keys EXCEPT ![arg[t].id] = {}]
  /\ ReleaseAll(t)
  /\ Return(t, TRUE)
  /\ UNCHANGED <<kv_store, live_txs, crashed>>

-----------------------------------------------------------------------------
(* tx_abort: gets_mtx; erase the read locks; txs_mtx; erase the tx.        *)

\* mutant: locked_keys.clear() instead of locked_keys.erase(tx_id)
TxAbortGetsClear(t, id) ==
  /\ Call(t) /\ Free("gets_mtx")
  /\ Acquire(t, "gets_mtx")
  /\ held' = [held EXCEPT ![t] = locked_keys[id]]
  /\ locked_keys' = [i \in TxIds |-> {}]
  /\ pc' = [pc EXCEPT ![t] = "abort_txs"]
  /\ arg' = [arg EXCEPT ![t].id = id]
  /\ UNCHANGED <<kv_store, live_txs, ret, crashed, cur_tx, undo>>

TxAbortGets(t, id) ==
  /\ Call(t) /\ Free("gets_mtx")
  /\ Acquire(t, "gets_mtx")
  /\ held' = [held EXCEPT ![t] = locked_keys[id]]
  /\ locked_keys' = [locked_keys EXCEPT ![id] = {}]
  /\ pc' = [pc EXCEPT ![t] = "abort_txs"]
  /\ arg' = [arg EXCEPT ![t].id = id]
  /\ UNCHANGED <<kv_store, live_txs, ret, crashed, cur_tx, undo>>

TxAbortTxs(t) ==
  /\ pc[t] = "abort_txs" /\ ~crashed /\ Free("txs_mtx")
  /\ live_txs' = [live_txs EXCEPT ![arg[t].id] = NotLive]
  /\ ReleaseAll(t)
  /\ Return(t, TRUE)
  /\ UNCHANGED <<kv_store, locked_keys, crashed>>

-----------------------------------------------------------------------------
Next ==
  \E t \in Threads :
    \/ \E k \in Keys : \/ Get(t, k)
                       \/ \E v \in Values : Put(t, k, v)
    \/ \E id \in TxIds :
         \/ TxStart(t, id)
         \/ \E k \in Keys : \/ \E v \in Values : TxPut(t, id, k, v)
                            \/ TxGetConflict(t, id, k)
                            \/ TxGetLock(t, id, k)
         \/ TxCommitTxs(t, id)
         \/ TxAbortGets(t, id)
    \/ TxGetRead(t)
    \/ TxCommitDb(t)
    \/ TxCommitGets(t)
    \/ TxAbortTxs(t)

Spec == Init /\ [][Next]_vars

-----------------------------------------------------------------------------
(* Properties.                                                             *)

TypeOK ==
  /\ kv_store \in [Keys -> Values \cup {NoValue}]
  /\ live_txs \in [TxIds -> Buffer \cup {NotLive}]
  /\ locked_keys \in [TxIds -> SUBSET Keys]
  /\ owner \in [Mutexes -> Threads \cup {NoThread}]
  /\ pc \in [Threads -> {"idle", "tx_get_read", "commit_db", "commit_gets", "abort_txs"}]
  /\ arg \in [Threads -> [id : TxIds, key : Keys]]
  /\ ret \in [Threads -> Results]
  /\ crashed \in BOOLEAN
  /\ cur_tx \in [Threads -> Buffer \cup {NotLive}]
  /\ undo \in [Threads -> [Keys -> Values \cup {NoValue}]]
  /\ held \in [Threads -> SUBSET Keys]
  \* every lock_guard dies with its method: an idle thread holds no mutex
  /\ \A m \in Mutexes : owner[m] # NoThread => pc[owner[m]] # "idle"

\* Spec 3 and 8: a key is in the read-lock set of at most one transaction.
\* tx_get scans the other transactions' lists and appends to its own under
\* one hold of gets_mtx, while commit and abort erase lists concurrently.
ReadLockExclusive ==
  \A i, j \in TxIds : i # j => locked_keys[i] \cap locked_keys[j] = {}

\* Spec 3: tx_get on an unknown id fails, and read locks are released on
\* commit and abort; so every read-locked key belongs to a live transaction
\* or to one whose tx_commit / tx_abort is still running.
Finishing(id) ==
  \E t \in Threads : pc[t] \in {"commit_gets", "abort_txs"} /\ arg[t].id = id
LocksHeldByLiveTxns ==
  \A id \in TxIds : locked_keys[id] # {} => live_txs[id] # NotLive \/ Finishing(id)

\* Spec 4.2 and 9 document txs_mtx -> db_mtx -> gets_mtx as the one order
\* that forbids deadlock: no set of threads is blocked, each on a mutex held
\* by another member of the set.
NeededMutex == [tx_get_read |-> "db_mtx", commit_db |-> "db_mtx",
                commit_gets |-> "gets_mtx", abort_txs |-> "txs_mtx"]
DeadlockFree ==
  ~\E S \in SUBSET Threads :
     /\ S # {}
     /\ \A t \in S : pc[t] # "idle" /\ owner[NeededMutex[pc[t]]] \in S

\* Spec 8, scenario 3: tx_get of an absent key succeeds with an empty value;
\* no sequence of engine calls kills the process.
EngineAlive == ~crashed

\* Spec 3 and 8 (scenario 3): tx_get fails on an unknown id and answers an
\* absent key with the empty value; so whatever ids and keys the callers
\* pass, tx_get neither leaves a read lock that no commit or abort will
\* release nor kills the process.
TxGetContract == LocksHeldByLiveTxns /\ EngineAlive

-----------------------------------------------------------------------------
(* Refinement of the atomic contract KvStoreAtomic.  Each method takes    *)
(* effect at its last lock step: tx_get when it reads, tx_commit when it   *)
(* erases the read locks, tx_abort when it erases the transaction.  Until *)
(* then the mapping undoes what the earlier steps did; nobody can observe *)
(* the difference, because the method still holds the mutex that guards   *)
(* what it changed.                                                        *)

Committing == {t \in Threads : pc[t] = "commit_gets"}
Aborting == {t \in Threads : pc[t] = "abort_txs"}

kvAbs == IF Committing = {} THEN kv_store ELSE undo[CHOOSE t \in Committing : TRUE]

liveAbs == [id \in TxIds |->
              IF \E t \in Committing : arg[t].id = id
              THEN cur_tx[CHOOSE t \in Committing : arg[t].id = id]
              ELSE live_txs[id]]

lockedAbs == [id \in TxIds |->
                locked_keys[id] \cup UNION {held[t] : t \in {u \in Aborting : arg[u].id = id}}]

Atomic == INSTANCE KvStoreAtomic
            WITH kv_store <- kvAbs, live_txs <- liveAbs, locked_keys <- lockedAbs

\* The engine behaves as if every method were atomic (spec 4.2 and 5).
ImplementsAtomic == Atomic!Spec

=============================================================================
