# TLA+ models of the Sharded-KV-store

This directory holds TLA+ models of the sharded key-value store in `src/source/`,
the TLC configurations that check them, and `PROJECT.json`, which maps every
definition to the source lines it models and lists the runs, the mutants, the
findings and the hazards.

## 1. Inventory

### Components

| Component | Source | State it keeps | Operations |
|---|---|---|---|
| KV engine (`KvStore`) | `kv_store.h` | `kv_store` (key -> value), `live_txs` (txn id -> write buffer), `locked_keys` (txn id -> keys read), three mutexes `db_mtx`, `txs_mtx`, `gets_mtx`, an iterator `it` | `put`, `get`, `tx_start`, `tx_put`, `tx_get` (+`safe_get`), `tx_commit`, `tx_abort`, `init_it`, `get_next_key` |
| Shard server | `server.cpp` | `ServerOP::local_kv` (a `KvStore`), a RocksDB handle, the accepted-connection stack `connections` | `master_connection` (INIT registration), `listen_for_connections`, `server_worker` (GET / PUT / TXN_START dispatch), `send_all` (redistribution sender), `reset_kv` |
| Master | `master_server.cpp` | `map_fds` (shard index -> port), `num_servers`, `started`, `manage_block`, `connections` stack, a mirror `local_kv` | `handle_connection` (INIT / client dispatch), `handle_client` (routing `key % N + 1`), `redistribute`, `manage_server`, `check_health` (not started by `main`) |
| Single-op client (`clt`) | `client.cpp` `client()` | none beyond one request | ask the master for the owner port, send the op to that shard, map the reply to an exit code (0 / 1 / 2) |
| Bench client | `client_2.cpp`, `client_thread.h` | per-thread local mirror `KvStore`, reply counter, barriers | INIT handshake and reverse connection, trace-driven PUT/GET loop, drain, `verify_all` |
| Framing and codec | `shared.h`, `shared.cpp` | none (socket bytes) | `convert_int_to_byte_array` / `convert_byte_array_to_int` (big endian), `read_n` (bounded zero-read retries), `secure_recv`, `secure_send`, `recv_clt_message`, `send_clt_message`, ... |
| Line-trace workload | `generate_traces.{h,cpp}` | vector of `TraceCmd` | `split`, `parse_trace`, `TraceCmd::init` (put/get choice by read per-mille) |
| Txn DAG and oracle | `load_txn.{h,cpp}` | `TxnGraph` (`ready_nodes`, `remaining_nodes`, nodes linked by `shared_ptr` successors) | `parse_txn_trace`, `GraphNode` destructor (republish on last predecessor), `get_ready`, `deep_copy`, `get_possible_results` (recursive oracle), arithmetic / bitwise command functions |

### How the components interact

* A `clt` process connects to the master and sends one framed `client_msg`.
  The master's single dispatcher (`manage_server`) pops the most recently
  accepted connection (`connections.back()`, a LIFO stack, polled every 5 ms)
  and answers with an `INIT` message carrying the port of shard
  `key % num_servers + 1`. The client then connects to that shard and sends the
  same request; the shard's single worker pops it from its own LIFO stack,
  applies it to its `KvStore` and replies with a `server_response::reply`.
* A shard registers at start-up by sending `INIT{port}` to the master. If client
  traffic has been seen (`started`), the master calls `redistribute`: it sends a
  `TXN_START` to every shard but the newest and pushes those sockets onto its
  own connection stack. A shard receiving `TXN_START` hands the current
  `KvStore` to a detached `send_all` thread and replaces its own store with a
  fresh one; `send_all` iterates the old store and, for every key, spawns a
  `clt ... -o PUT` process, so every key is re-inserted through the master under
  the new modulus.
* The KV engine's transaction API is called by nothing in `src/` today (the
  server has no TXN_PUT/GET/COMMIT/ABORT case); it is a library contract whose
  operations may be called concurrently.

### Hard behaviours

* Three engine mutexes taken in different orders by different operations
  (`tx_get`: gets -> db; `tx_commit`: txs -> db -> gets; `tx_abort`: gets -> txs).
* Redistribution interleaved with client traffic: routing decided at the master
  with one `N`, request served at a shard after that shard has been reset; re-
  inserts racing client writes; joins that happen while `started` is false.
* Order of the unordered-map iteration in `send_all`, and the loop condition
  `while (auto kv = get_next_key())` that is false for key 0.
* Arithmetic at the edge: `key % num_servers` with `num_servers = 0`, and the
  `uint32` key read into an `int`.
* Framing: zero-length and short frames, `recv` returning -1 inside `read_n`,
  a failed receive followed by re-dispatch of the previous message.
* DAG consumption by reference counting, condition-variable wake-ups in
  `get_ready`, and the oracle's enumeration of topological orders.

### What makes each component correct

* KV engine: read locks are exclusive between transactions; every read-locked
  key belongs to a live transaction; a commit's writes become visible
  atomically; each operation behaves as if atomic (linearisable against the
  atomic contract of spec section 4.2); no circular wait among the mutexes.
* Cluster (master + shards + clients): no stored key disappears through
  redistribution; once nothing is in flight every key's latest value is at
  its owner shard; routing always names a registered shard; every request and
  every redistribution eventually completes.
* Framing: `parse(frame(p)) = p` for all payload lengths, exactly `4 + L`
  bytes consumed, receive terminates.
* DAG and oracle: the oracle returns exactly the final states of the
  topological orders; consumption terminates with `remaining_nodes = 0`.

## 2. Plan

Modules in the order they are built (most important behaviour first):

1. `KvStore` - the engine at mutex granularity: one action per lock
   acquisition step of `put`, `get`, `tx_start`, `tx_put`, `tx_get`,
   `tx_commit`, `tx_abort`. `KvStoreAtomic` - the abstract contract of spec
   section 4.2 with every operation atomic. `MCKvStore` instantiates both and
   checks `KvStore` refines `KvStoreAtomic` under a refinement mapping that
   linearises every operation at its last lock step.
2. `ShardCluster` - master dispatcher, shard workers, single-op clients and
   the redistribution protocol (`redistribute`, `TXN_START`, `send_all`,
   re-insert clients). `MCShardCluster` with 2 shards, 2-3 keys including key 0,
   a bounded client workload.
3. Routing - the shard function `key % num_servers + 1` with C's `int`
   remainder on the `int` image of the u32 key, inside `ShardCluster`
   (`CRem`, `Owner`), against the spec's u32 owner function (`U32Mod`,
   `SpecOwner`).
4. `Framing` - a byte stream per connection; `send_framed`, `read_n` with its
   retry counter, `secure_recv`, `recv_clt_message`; round trip for payload
   lengths 0..L, the re-dispatch of a stale message after a failed receive in
   `server_worker`.
5. `TxnGraph` - `parse_txn_trace` and the reference-count republish rule,
   `get_ready` with its condition variable (consumer threads), the recursive
   oracle `get_possible_results` checked against a reference definition
   (all topological orders) on small DAGs.  The op functions of `op_type_map`
   on the stored values. `TxnSerial` - serial topological execution, which
   the consumers refine.
6. `BenchClient` - barrier, INIT handshake against the shard server,
   send/drain loop and `verify_all`.

Runs planned: engine safety + refinement (pass), engine circular wait
(violation), the `tx_get` contract (violation); cluster conservation and
settling (pass), lost writes across a join (violation), client before
registration (violation); framing round trip (pass), stale dispatch and
stalled peer (violations); DAG consumption with the oracle against its
reference (pass), lost wake-up (violation). Item 6 is not modelled, for
the reasons in section 3.6.

## 3. What is modelled

Every definition that models code is listed in `PROJECT.json` ("map") with
the source lines it translates. Each module has an `MC` module that gives its
constants small values, and one `.cfg` per run.

### 3.1 `KvStore`, `KvStoreAtomic`, `MCKvStore`: the engine

State: `kv_store`, `live_txs` (a write buffer per live id, or `NotLive`),
`locked_keys`, the `owner` of each of the three mutexes. Each thread has a
program counter `pc`, its arguments and its result.

Actions:
* A method that holds one mutex while it takes another is split at every
  acquisition: `TxGetConflict`/`TxGetLock` then `TxGetRead`, and
  `TxCommitTxs`, `TxCommitDb`, `TxCommitGets`.
* `TxAbortGets` and `TxAbortTxs` are split the same way.
* `put`, `get`, `tx_start` and `tx_put` take one mutex and are one action each.
* `ReleaseAll` is the lock_guard destructors at return.
* `safe_get` on an absent key sets `crashed`: it dereferences `end()`.

`KvStoreAtomic` is the contract of spec 4.2, with every method atomic.
`KvStore` instantiates it with a refinement mapping that linearises each
method at its last lock step and undoes the earlier steps until then
(`kvAbs`, `liveAbs`, `lockedAbs`).

The bounds are 2 threads, 2 ids, 2 keys and 1 value, which gives every
pairing of two methods on shared or distinct ids and keys.

Runs:
* `kvstore_safety` (pass) checks `ReadLockExclusive` and `ImplementsAtomic`
  (the refinement).
* `kvstore_deadlock` (violation) checks `DeadlockFree`. `tx_get` takes gets
  then db, and `tx_commit` takes db then gets.
* `kvstore_tx_get` (violation) checks `TxGetContract`. `tx_get` on an id that
  was never started leaves a read lock that nothing will release, and on an
  absent key it reads `end()`.

No fairness is assumed: the engine runs no thread of its own.

### 3.2 `ShardCluster`, `MCShardCluster`: master, shards, clients, redistribution

State:
* the master: `shardMap` (map_fds), `started`, its LIFO stack `mconns`, the
  mirror, and `mcrashed`;
* each shard: its stack `sconns`, its `store` (local_kv) and `rocks`;
* `clt` processes in `Procs` slots, with phases free, new, master, routed and
  shard;
* `send_all` threads in `SenderSlots`, each holding the snapshot it iterates;
* `acked`, the keys whose external PUT was answered.

Serving one popped connection is one step. The dispatcher serves a
connection until the peer closes, and the peer closes after one reply.
`Accept` is the listener's `push_back`, folded into the connect that causes
it.

Actions:
* `MasterRegister` and `MasterRedistribute` handle an INIT.
* `MasterServeClient` routes a request through `Owner`: `CRem` is C's
  truncated remainder, so a key of 2^31 or more (a negative `int`) can give
  a shard index of 0 or less. `map_fds.find` then returns `end()`, and
  `in->second` reads past the map; with libstdc++ that read yields port 0,
  which the model writes `NoShard`. Routing with no shard is
  `MasterDivByZero`.
* `MasterDropPeer` drops a peer connection.
* `ShardServeGet`, `ShardServePut` and `ShardServeTxn` are the shard's
  handlers. A PUT's reply carries `put_db`'s result, which the second
  assignment to `success` puts there. With `DbFaults` the RocksDB write may
  fail (`PutDbResults`): the value is then in `store` but not in `rocks`,
  the reply says failure, and the client exits 1, so the key is not
  `acked`. TXN_START snapshots the store, resets it and starts `send_all`.
* `SendAllKey` spawns a re-insert `clt`. `SendAllKeyStop` is the loop ending
  early at a `StopKeys` key: at key 0 the loop condition is false, and at
  key -1 `kv == -1` breaks. `SendAllEnd` is the loop's end.
* `ClientStart`, `ClientConnectMaster`, `ClientConnectShard`,
  `ClientConnectFail` and `ClientMasterGone` are the clt's steps.
  `ClientConnectFail` is `connect_to(0)` exiting with 1, so the retry loop
  around it never runs a second time.
* `ClientStartDirect` is `client()` with `direct = 1`: the request goes
  straight to the shard at PORT. `connect_to` exits when nothing listens
  there, so only a shard that has joined can be named. `DirectPorts` is the
  set of PORTs: `{s2}` in the passing runs and empty in the violation runs,
  which keeps their counterexamples to the paths they are about. A direct PUT
  to a shard that does not own the key is stored there. A direct PUT to s2
  after its INIT was sent and before the master handles it lands on a shard
  that the redistribution of that INIT does not snapshot.

Fairness: weak fairness for the master's loop, each shard worker, each clt
and each `send_all`. Each of them is a thread that polls or runs without
blocking on anything the model leaves out.

The bounds:
* 2 or 3 shards, so there are one or two redistributions, the second while
  re-inserts of the first are in flight;
* keys {1,2}, {0,1}, {-1,1} or {-1,0,1}, so keys 0 and -1 (the u32 key
  4294967295) appear only where they are asked about;
* 1 value, 2 external requests, 3 clt slots and 1 or 2 sender slots.

The exit code of `client()` (2 for NOT-FOUND, 0 on success, else 1) is the
process's status and changes nothing else, so it is not modelled.

Runs:
* `cluster_conservation` (pass) checks `KeyConserved`. An acknowledged key is
  always in a store, a snapshot or a re-insert clt.
* `cluster_settles` (pass, with `DbFaults`) checks `Settles`. Every clt,
  every `send_all` and every stack drains, also when `put_db` fails. No
  property is stated about RocksDB itself: nothing reads it back (`get_db`'s
  value is discarded), and an invariant tying `acked` to `rocks` would only
  restate the assignment in `ShardServePut`. This holds with keys 0 and -1, which stop `send_all`,
  and with a request the master answers with port 0.
* `cluster_lost_write` (violation) checks `OwnerHasKey`. After settling, an
  acknowledged key is missing from its owner. This is found either by the
  key-0 cut in `send_all` or by a PUT routed before the join being served
  after the TXN_START reset.
* `cluster_unregistered` (violation) checks `HandleClientContract`. The
  master must survive every request, and each reply must name shard
  `(k mod N) + 1` of the spec's u32 key `k` (or port 0 with no shard). The
  counterexample TLC prints is a client served before any INIT: the master
  computes `key % 0`. With `Registered0 <- MCRegistered1`, the first
  counterexample is key 4294967295 with two shards. Its `int` image -1 gives
  `-1 % 2 + 1 = 0`, so the reply is port 0 where the spec says shard 2.

### 3.3 `Framing`, `MCFraming`: one connection, byte level

The codec operators are `Encode`/`Decode`, `LEBytes`/`FromLE` and `Frame`.
They model the memcpy of a 32-bit word and `__builtin_bswap32`, and they are
checked against `BigEndianRef` on boundary lengths up to 2^31 - 1.

The peer side:
* `wire` holds the bytes not yet read, and `sent` the payloads framed.
* `SendFrame` is `send_clt_message`.
* `PeerClose` closes the connection. `PeerCrash` dies after part of a frame.
* `PeerStall` stops mid-frame without closing. It is used only in
  `SpecWithStall`.

The receiver is `server_worker`'s loop:
* `PeekData` and `PeekEnd` are the MSG_PEEK.
* `read_n` is split into `ReadSome` (any nonempty prefix), `ReadEof` (a
  zero-byte read, counted against `MaxRetries`) and `ReadShort` (retries
  exhausted).
* `LenDone` decodes the length field, and `BodyEmpty` and `BodyDone` finish
  `recv_clt_message`.
* `Dispatch` is `message.ops(0)` on whatever `message` holds. Where it holds
  nothing, `rcrashed` is set.

Fairness is weak fairness of `Receive`: the worker never blocks except in
`recv`, which the peer's actions feed.

The bounds are up to 2 messages of 0 to 2 bytes, and 2 retries. Splitting
every field and a crash inside every field needs no more.

Runs:
* `framing_roundtrip` (pass) checks `AcceptedInOrder`, `LengthCodecCorrect`
  and `ReceiverReturns`.
* `framing_stale_dispatch` (violation) checks `DispatchOnlyReceived`. An
  empty frame, or a peer dying mid-frame, re-dispatches the previous message.
* `framing_stall` (violation) checks `ReceiverReturns`. `recv` returning -1
  on timeout is never counted, so `read_n` spins.

### 3.4 `TxnGraph`, `TxnSerial`, `MCTxnGraph`: the transaction DAG and its oracle

The graph is the one `parse_txn_trace` returns: `Deps` and the commands are
constants. State:
* `ready` is `ready_nodes` and `remaining` is `remaining_nodes`.
* `refs[n]` is the number of live `shared_ptr`s to `n`'s GraphNode. That is
  the number of its predecessors not yet dropped.
* Each consumer has a `pc`, a `held` Node and the successors `torelease` it
  still holds.

Actions:
* `GetReady` and `Wakeup` run the body of `get_ready` (`TakeOrWait`): pop,
  return nullopt, or wait.
* `Execute` runs the node's commands. The consumer loop is spec 4.7's, since
  nothing under src/ calls `get_ready`.
* Dropping the Node releases its successors one by one. The drop is
  `ReleaseShared`, or `ReleaseLast` when the count reaches 0: `~GraphNode`
  calls `add_to_ready`.
* `Notify` is the `notify_one` after unlocking. It wakes one waiter, if there
  is one.
* `ReleaseDone` loops back to `get_ready`.

Keys pass through `ConvertKeyToInt`, which is 0 for every key (the memcpy
into `&key`). Every node has id 0, so the oracle applies every node.
Spec scenario 5 expects the oracle's outcomes to be keyed by the trace's key
(`{1 -> ...}`). The code keys them all by 0. This is recorded as the
`load_txn.cpp:21` hazard, not as a finding: it would need a violation run
of its own, and every run slot is in use.

Commands (`ApplyCmd`, the `std::visit` of `get_possible_results`):
* `put` and `set` write `state[cmd.key]`; `get` and the other `Op`s do
  nothing.
* The arithmetic and bitwise `OpFunc`s are `OpWrapper` (`op_wrapper`) with
  `ArithOp` or `BitOp`, and `NotFunc`. Both operands come from key 0, since
  the right-hand key is `convert_key_to_int(cmd.value)`. An absent or
  unparsable operand leaves the state alone.
* A stored value is the number its decimal text spells: `Dec(x)` for an
  int64, `Unsigned(r)` for the uint64 `2^64 + r`. `Parse`
  (`str_value_to_op_value<int64_t>`) rejects the second.
* `div` and `mod` truncate toward zero (`CDiv`, `CMod`). A zero divisor is
  SIGFPE in the code and an evaluation error in TLC.
* `bin_op_wrapper` returns the unsigned copy, so a negative result of
  `and`/`or`/`xor`/`nand`/`nor` is stored as `Unsigned(r)`. `not_func`
  copies back and stores signed. Bitwise ops are computed on `W` = 16-bit
  two's complement. Sign extension to 64 bits commutes with them, so this
  is exact for the model's values.
* `pause` and `kill` print a prompt and read an integer from stdin. They
  change no state and fall in the no-op branch.

`TxnSerial` is what the workload promises (spec 3, 4.7): nodes run one at a
time, each once, after all of their predecessors. `Run(n)` applies the same
`Apply`. `TxnGraph` implements it under the mapping `done <- Range(executed)`
and `st <- kv` (`ImplementsSerial`). An `Execute` step is a `Run` step; every
other consumer step is a stuttering step. The fairness of `TxnSerial` (some
node eventually runs while one is enabled) follows from the consumers'
fairness.

The oracle `GetPossibleResults` is the recursion of `get_possible_results`.
Its graph is the ready deque and the holder counts:
* `deep_copy` is `CopyRefs`. `deep_copy_network` copies, once each, the
  GraphNodes `Reachable` from the ready nodes, so a copied node is held
  only by copied predecessors.
* The entry point deep-copies the graph it is given.
* The branch with several ready nodes takes one deep copy per node.

It is checked against `TopoOutcomes`, the final states of every topological
order of the nodes not yet run. The check is made in every state where no
consumer holds a Node.

The graph is a diamond: n0 puts 3, then n1 (`add`) and n2 (`mult`) in
either order give 6²=36 or 3²·2=18. n3 is non-transactional and applies
`nand`, which stores the unsigned texts of -37 or -19. So the outcomes
depend on the order, the oracle takes both of its branches, and n3 is a
node released by whichever predecessor is dropped last. n3's `depends_on` also names n0. Once
n0 has run, n3 has one released predecessor and two live ones, so a copy
whose counts come from anything but the copied holders never releases n3.

Fairness is weak fairness per consumer. A waiting consumer has no enabled
step until it is notified, so fairness cannot wake it.

Runs:
* `txn_consume` (pass, 2 consumers) checks `DependencyOrder`,
  `HandedOutOnce`, `OracleMatchesReference`, `ImplementsSerial` and
  `AllReturn`. The mutant of `ImplementsSerial` drops a node whose last
  holder died without `add_to_ready`, as when `graph->valid` is false.
  That node never runs.
* `txn_lost_wakeup` (violation, 3 consumers) checks `AllReturn`. The last pop
  sets `remaining_nodes` to 0 without a notify, and a consumer waiting at that
  moment never returns.

### 3.5 Findings

`PROJECT.json` lists each finding with its run and source line:
* the lock-order deadlock in the engine;
* the unchecked `tx_get`;
* key 0 in `send_all`;
* writes lost across a join;
* `key % 0` before registration, and port 0 for u32 keys of 2^31 and more;
* empty and failed frames re-dispatched;
* `read_n` spinning on timeouts;
* the lost wake-up in `get_ready`.

### 3.6 Not modelled

* **Bench client** (`client_2.cpp`, `client_thread.h`). Against this
  repository's server it never gets past its first step, so modelling its
  loop would check behaviour that cannot happen:
  * it includes `client_thread_2.h`, which does not exist;
  * `connect_to_the_server` sends `INIT{port}` to a shard and blocks in
    `accept4` for a reverse connection, but `server_worker` has no INIT case
    and never connects back;
  * the single worker serves one connection until it goes quiet for 3 s, so
    threads waiting at `start_point` would lose their connections.

  Its own hazards are left to a review of the code:
  * `rand() % (nb_clients - 1)` divides by zero with one thread;
  * `verify_all` runs before the `terminate_point` barrier, where spec 4.6
    puts it after;
  * a thread's trace slice overlaps the next thread's slice once
    `nb_messages > step`.
* **Line-trace parser** (`generate_traces`) and **`txn_trace_dump`.** They
  are sequential I/O.
* **A client that dies while waiting for its reply.** `secure_send` calls
  `send` without `MSG_NOSIGNAL`, and nothing ignores SIGPIPE, so the reply
  would kill the shard or the master. The model's clients always wait, and
  no shard process dies.
* **Overflow of 64-bit `add`/`mult`.** It is undefined behaviour, and
  beyond TLC's 32-bit integers.
* **A shard's listener start.** `server.cpp` main registers
  (`master_connection`, line 317) before it starts the listener thread. The
  model binds the listener at the join. A request routed to the shard in
  between would make `connect_to` exit: a re-insert clt (a lost key), or the
  master in `redistribute` (a dead master). The window is one thread start,
  against the master's 5 ms poll plus a client round trip. The hazard is
  listed in `PROJECT.json`, without a property.
* **A negative key in a re-insert.** `send_all` passes the key through
  `std::to_string` to `clt -k`, which parses a `size_t` with cxxopts, a
  library that is not in the repository. The configurations avoid it: the
  only negative key, -1, stops `send_all` before any re-insert.
* **The data race on the connection vectors.** It is undefined behaviour
  below the grain of push and pop.
* **`check_health`.** `main` never starts it. It also calls
  `accept_connection` (`master_server.cpp:162`), which is not defined
  anywhere; only `accept_connections` exists. The model takes the master's
  listener to be `accept_connections`.
* **The server-to-client message direction.** It is the same framing code
  on another message type.
