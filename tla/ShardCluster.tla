---------------------------- MODULE ShardCluster ----------------------------
(***************************************************************************)
(* The cluster of src/source/master_server.cpp, server.cpp and the         *)
(* single-op client() of client.cpp: one master, shards that register      *)
(* with it, clt processes, and the redistribution that a join triggers.    *)
(*                                                                         *)
(* Each process has one thread of interest: the master's manage_server,   *)
(* each shard's server_worker, each clt process and each detached         *)
(* send_all thread.  The listeners only push accepted sockets onto a      *)
(* stack, so an accept is folded into the connect that causes it.  Both    *)
(* dispatchers pop the most recently accepted socket (connections.back()) *)
(* and serve it until the peer closes or the 3 s receive timeout fires,   *)
(* so serving one connection is one step.  The KV engine of a shard is    *)
(* used by its single worker only, so put / get are atomic here.          *)
(***************************************************************************)
EXTENDS Integers, Sequences, SequencesExt, FiniteSets

CONSTANTS
  Shards,       \* shard processes (identified by their listen port)
  Keys,         \* the keys clients use, as the int the C++ code holds: a u32
                \* key of 2^31 or more is negative (-1 is 4294967295)
  Values,       \* values a PUT can carry
  Blank,        \* the empty string: the value field of a GET request
  NoValue,      \* key absent from a map
  NoShard,      \* a clt that has no destination yet
  Procs,        \* slots for live clt processes (external and re-insert)
  SenderSlots,  \* slots for live send_all threads
  MaxOps,       \* bound on the external client requests issued
  Registered0,  \* map_fds at start: shards registered before any client
  Off,          \* a send_all slot with no thread
  DirectPorts,  \* the PORTs a direct = 1 client is started with
  DbFaults      \* TRUE: a RocksDB Put may fail

Ops == {"GET", "PUT"}
Store == [Keys -> Values \cup {NoValue}]
EmptyStore == [k \in Keys |-> NoValue]

\* the three kinds of socket on the master's stack, the two on a shard's
MasterConn == [kind : {"client"}, c : Procs] \cup [kind : {"init", "peer"}, s : Shards]
ShardConn == [kind : {"client"}, c : Procs] \cup [kind : {"txn"}]

\* connect_to on one side, accept_connections on the other: the listener
\* thread push_backs the accepted socket onto the vector that the serving
\* thread pops from the back
Accept(q, conn) == Append(q, conn)

\* a clt process: the request it carries and where it is in client()
Phases == {"free", "new", "master", "routed", "shard"}
Clt == [phase : Phases, op : Ops, key : Keys, val : Values \cup {Blank},
        dest : Shards \cup {NoShard}, ext : BOOLEAN]
FreeClt == [phase |-> "free", op |-> "GET", key |-> CHOOSE k \in Keys : TRUE,
            val |-> Blank, dest |-> NoShard, ext |-> FALSE]


VARIABLES
  shardMap,   \* map_fds: shard index i |-> the shard registered i-th
  started,    \* master: client traffic seen since the last redistribution
  mcrashed,   \* the master process died
  mirror,     \* master's local_kv, written by handle_client, never read
  mconns,     \* master's connections stack (back = Last)
  joined,     \* shards that have sent their INIT
  sconns,     \* each shard's connections stack
  store,      \* each shard's ServerOP::local_kv
  rocks,      \* each shard's RocksDB (written by PUT, read and discarded by GET)
  clt,        \* clt processes
  senders,    \* send_all threads: the keys of the snapshot still to send
  issued,     \* external requests issued so far
  acked       \* history: keys an external PUT was answered success=true for

vars == <<shardMap, started, mcrashed, mirror, mconns, joined, sconns, store,
          rocks, clt, senders, issued, acked>>

NumServers == Len(shardMap)

\* C's int remainder: truncated toward zero, negative for a negative i
CRem(i, n) == IF i >= 0 THEN i % n ELSE (i % n) - (IF i % n = 0 THEN 0 ELSE n)

\* handle_client: int key = ops(0).key(); int shard = (key % num_servers) + 1;
\* map_fds holds the indices 1..num_servers.  A shard index below 1 makes
\* find() return end(), and in->second reads past the map: the port read
\* there is 0 (the high half of the node count), modelled as NoShard.
Owner(k) ==
  LET idx == CRem(k, NumServers) + 1
  IN IF idx \in 1..NumServers THEN shardMap[idx] ELSE NoShard

Init ==
  /\ shardMap = Registered0
  /\ started = FALSE
  /\ mcrashed = FALSE
  /\ mirror = [k \in Keys |-> NoValue]
  /\ mconns = <<>>
  /\ joined = ToSet(Registered0)
  /\ sconns = [s \in Shards |-> <<>>]
  /\ store = [s \in Shards |-> EmptyStore]
  /\ rocks = [s \in Shards |-> EmptyStore]
  /\ clt = [c \in Procs |-> FreeClt]
  /\ senders = [i \in SenderSlots |-> Off]
  /\ issued = 0
  /\ acked = {}

-----------------------------------------------------------------------------
(* Shards joining: server.cpp main calls master_connection() before it     *)
(* starts its listener and worker; connect_to exits when nobody listens.   *)

\* master_connection: connect, send INIT{port}, close
ShardJoin(s) ==
  /\ ~mcrashed /\ s \notin joined
  /\ joined' = joined \cup {s}
  /\ mconns' = Accept(mconns, [kind |-> "init", s |-> s])
  /\ UNCHANGED <<shardMap, started, mcrashed, mirror, sconns, store, rocks, clt,
                 senders, issued, acked>>

-----------------------------------------------------------------------------
(* The master's manage_server: pop connections.back(), handle_connection.  *)

Top == Last(mconns)
MasterPop(kind) == ~mcrashed /\ mconns # <<>> /\ Top.kind = kind

\* INIT while no client traffic was seen: map_fds.insert({1 + num_servers++, port})
MasterRegister ==
  /\ MasterPop("init") /\ ~started
  /\ shardMap' = Append(shardMap, Top.s)
  /\ mconns' = Front(mconns)
  /\ UNCHANGED <<started, mcrashed, mirror, joined, sconns, store, rocks, clt,
                 senders, issued, acked>>

\* mutant: the INIT socket stays on the stack (pop_back missing)
MasterRedistributeNoPop ==
  /\ MasterPop("init") /\ started
  /\ LET olds == shardMap
     IN /\ shardMap' = Append(shardMap, Top.s)
        /\ sconns' = [p \in Shards |-> IF p \in ToSet(olds)
                                         THEN Accept(sconns[p], [kind |-> "txn"])
                                         ELSE sconns[p]]
        /\ mconns' = mconns \o [i \in 1..Len(olds) |-> [kind |-> "peer", s |-> olds[i]]]
  /\ mirror' = [k \in Keys |-> NoValue]
  /\ started' = FALSE
  /\ UNCHANGED <<mcrashed, joined, store, rocks, clt, senders, issued, acked>>

\* INIT after client traffic: register, then redistribute(): reset the
\* mirror, and for every shard but the newest connect (the shard's listener
\* pushes the socket), push the socket onto the master's own stack and send
\* TXN_START; then started = false
MasterRedistribute ==
  /\ MasterPop("init") /\ started
  /\ LET olds == shardMap
     IN /\ shardMap' = Append(shardMap, Top.s)
        /\ sconns' = [p \in Shards |-> IF p \in ToSet(olds)
                                         THEN Accept(sconns[p], [kind |-> "txn"])
                                         ELSE sconns[p]]
        /\ mconns' = Front(mconns) \o [i \in 1..Len(olds) |-> [kind |-> "peer", s |-> olds[i]]]
  /\ mirror' = [k \in Keys |-> NoValue]
  /\ started' = FALSE
  /\ UNCHANGED <<mcrashed, joined, store, rocks, clt, senders, issued, acked>>

\* a client request: started = true; handle_client mirrors the request,
\* routes by key % num_servers and answers INIT{port of the owner}
MasterServeClient ==
  /\ MasterPop("client") /\ NumServers > 0
  /\ LET c == Top.c IN
       /\ mirror' = [mirror EXCEPT ![clt[c].key] = clt[c].val]
       /\ clt' = [clt EXCEPT ![c].phase = "routed", ![c].dest = Owner(clt[c].key)]
  /\ started' = TRUE
  /\ mconns' = Front(mconns)
  /\ UNCHANGED <<shardMap, mcrashed, joined, sconns, store, rocks, senders,
                 issued, acked>>

\* the same with no shard registered: key % 0 raises SIGFPE
MasterDivByZero ==
  /\ MasterPop("client") /\ NumServers = 0
  /\ mcrashed' = TRUE
  /\ UNCHANGED <<shardMap, started, mirror, mconns, joined, sconns, store, rocks,
                 clt, senders, issued, acked>>

\* a socket redistribute() pushed: nothing arrives, the peek times out
MasterDropPeer ==
  /\ MasterPop("peer")
  /\ mconns' = Front(mconns)
  /\ UNCHANGED <<shardMap, started, mcrashed, mirror, joined, sconns, store, rocks,
                 clt, senders, issued, acked>>

-----------------------------------------------------------------------------
(* clt processes, client() of client.cpp.                                 *)

\* an external clt: connect to the master and send the one-op request
ClientStart(c, op, k, v) ==
  /\ ~mcrashed /\ issued < MaxOps /\ clt[c].phase = "free"
  /\ clt' = [clt EXCEPT ![c] = [phase |-> "master", op |-> op, key |-> k,
                                val |-> v, dest |-> NoShard, ext |-> TRUE]]
  /\ mconns' = Accept(mconns, [kind |-> "client", c |-> c])
  /\ issued' = issued + 1
  /\ UNCHANGED <<shardMap, started, mcrashed, mirror, joined, sconns, store, rocks,
                 senders, acked>>

\* an external clt with direct = 1: server_port = PORT, then connect_to the
\* shard and send the request; connect_to exits(1) when nothing listens at
\* PORT, so only a shard whose listener runs (one that has joined) is sent to
ClientStartDirect(c, op, k, v, s) ==
  /\ issued < MaxOps /\ clt[c].phase = "free" /\ s \in joined
  /\ clt' = [clt EXCEPT ![c] = [phase |-> "shard", op |-> op, key |-> k,
                                val |-> v, dest |-> s, ext |-> TRUE]]
  /\ sconns' = [sconns EXCEPT ![s] = Accept(@, [kind |-> "client", c |-> c])]
  /\ issued' = issued + 1
  /\ UNCHANGED <<shardMap, started, mcrashed, mirror, mconns, joined, store, rocks,
                 senders, acked>>

\* a clt spawned by send_all connects to the master
ClientConnectMaster(c) ==
  /\ ~mcrashed /\ clt[c].phase = "new"
  /\ clt' = [clt EXCEPT ![c].phase = "master"]
  /\ mconns' = Accept(mconns, [kind |-> "client", c |-> c])
  /\ UNCHANGED <<shardMap, started, mcrashed, mirror, joined, sconns, store, rocks,
                 senders, issued, acked>>

\* the master is dead: connect_to exits, or the reply never comes
ClientMasterGone(c) ==
  /\ mcrashed /\ clt[c].phase \in {"new", "master"}
  /\ clt' = [clt EXCEPT ![c] = FreeClt]
  /\ UNCHANGED <<shardMap, started, mcrashed, mirror, mconns, joined, sconns, store,
                 rocks, senders, issued, acked>>

\* with the port from the master's reply: connect to the shard, send again
ClientConnectShard(c) ==
  /\ clt[c].phase = "routed" /\ clt[c].dest # NoShard
  /\ clt' = [clt EXCEPT ![c].phase = "shard"]
  /\ sconns' = [sconns EXCEPT ![clt[c].dest] = Accept(@, [kind |-> "client", c |-> c])]
  /\ UNCHANGED <<shardMap, started, mcrashed, mirror, mconns, joined, store, rocks,
                 senders, issued, acked>>

\* port 0: connect_to fails and exits(1), so the retry loop around it never
\* runs again; the request is not sent
ClientConnectFail(c) ==
  /\ clt[c].phase = "routed" /\ clt[c].dest = NoShard
  /\ clt' = [clt EXCEPT ![c] = FreeClt]
  /\ UNCHANGED <<shardMap, started, mcrashed, mirror, mconns, joined, sconns, store,
                 rocks, senders, issued, acked>>

-----------------------------------------------------------------------------
(* A shard's server_worker: pop connections.back() and serve it.  The      *)
(* clt reads the reply, closes and exits, which ends the serving loop.     *)

STop(s) == Last(sconns[s])
ShardPop(s, kind) == sconns[s] # <<>> /\ STop(s).kind = kind

\* GET: get_db (value discarded), then local_kv_get; reply, clt exits
ShardServeGet(s) ==
  /\ ShardPop(s, "client") /\ clt[STop(s).c].op = "GET"
  /\ sconns' = [sconns EXCEPT ![s] = Front(@)]
  /\ clt' = [clt EXCEPT ![STop(s).c] = FreeClt]
  /\ UNCHANGED <<shardMap, started, mcrashed, mirror, mconns, joined, store, rocks,
                 senders, issued, acked>>

\* put_db: rock_db.Put's status; !ok prints the error and returns false
PutDbResults == IF DbFaults THEN BOOLEAN ELSE {TRUE}

\* PUT: success = local_kv_put, then success = put_db; the reply carries
\* the second, and client() exits 0 only on it
ShardServePut(s) ==
  /\ ShardPop(s, "client") /\ clt[STop(s).c].op = "PUT"
  /\ \E ok \in PutDbResults : LET r == clt[STop(s).c] IN
       /\ store' = [store EXCEPT ![s][r.key] = r.val]
       /\ rocks' = IF ok THEN [rocks EXCEPT ![s][r.key] = r.val] ELSE rocks
       /\ acked' = IF r.ext /\ ok THEN acked \cup {r.key} ELSE acked
  /\ sconns' = [sconns EXCEPT ![s] = Front(@)]
  /\ clt' = [clt EXCEPT ![STop(s).c] = FreeClt]
  /\ UNCHANGED <<shardMap, started, mcrashed, mirror, mconns, joined, senders, issued>>

\* mutant: reset_kv() before get_local_kv(): send_all gets the fresh map
ShardServeTxnSwapped(s) ==
  /\ ShardPop(s, "txn")
  /\ \E i \in SenderSlots :
       /\ senders[i] = Off
       /\ senders' = [senders EXCEPT ![i] = EmptyStore]
  /\ store' = [store EXCEPT ![s] = EmptyStore]
  /\ sconns' = [sconns EXCEPT ![s] = Front(@)]
  /\ UNCHANGED <<shardMap, started, mcrashed, mirror, mconns, joined, rocks, clt,
                 issued, acked>>

\* TXN_START: hand the current local_kv (iterator at begin) to a detached
\* send_all thread, then reset_kv; the master closes the socket later
ShardServeTxn(s) ==
  /\ ShardPop(s, "txn")
  /\ \E i \in SenderSlots :
       /\ senders[i] = Off
       /\ senders' = [senders EXCEPT ![i] = store[s]]
  /\ store' = [store EXCEPT ![s] = EmptyStore]
  /\ sconns' = [sconns EXCEPT ![s] = Front(@)]
  /\ UNCHANGED <<shardMap, started, mcrashed, mirror, mconns, joined, rocks, clt,
                 issued, acked>>

-----------------------------------------------------------------------------
(* send_all: while (auto kv = get_next_key()) { ... system("clt ... &") }  *)
(* The unordered_map's iteration order is not specified: any unsent key   *)
(* may come next.                                                          *)

Unsent(i) == {k \in Keys : senders[i][k] # NoValue}

\* the two keys that end the loop: 0 fails the loop condition, -1 breaks
StopKeys == {0, -1}

\* any other key: spawn a re-insert clt PUT k v
SendAllKey(i) ==
  /\ senders[i] # Off
  /\ \E k \in Unsent(i) \ StopKeys, c \in Procs :
       /\ clt[c].phase = "free"
       /\ clt' = [clt EXCEPT ![c] = [phase |-> "new", op |-> "PUT", key |-> k,
                                     val |-> senders[i][k], dest |-> NoShard, ext |-> FALSE]]
       /\ senders' = [senders EXCEPT ![i][k] = NoValue]
  /\ UNCHANGED <<shardMap, started, mcrashed, mirror, mconns, joined, sconns, store,
                 rocks, issued, acked>>

\* key 0 or -1 comes next: the thread ends with the other keys unsent
SendAllKeyStop(i) ==
  /\ senders[i] # Off /\ Unsent(i) \cap StopKeys # {}
  /\ senders' = [senders EXCEPT ![i] = Off]
  /\ UNCHANGED <<shardMap, started, mcrashed, mirror, mconns, joined, sconns, store,
                 rocks, clt, issued, acked>>

\* mutant: no break on kv == -1, the thread never leaves the loop
SendAllEndSpin(i) ==
  /\ senders[i] # Off /\ Unsent(i) = {}
  /\ UNCHANGED vars

\* the end: get_next_key returns -1, get(-1) is empty, kv == -1 breaks
SendAllEnd(i) ==
  /\ senders[i] # Off /\ Unsent(i) = {}
  /\ senders' = [senders EXCEPT ![i] = Off]
  /\ UNCHANGED <<shardMap, started, mcrashed, mirror, mconns, joined, sconns, store,
                 rocks, clt, issued, acked>>

-----------------------------------------------------------------------------
MasterStep == \/ MasterRegister \/ MasterRedistribute \/ MasterServeClient
              \/ MasterDivByZero \/ MasterDropPeer
ShardStep(s) == ShardServeGet(s) \/ ShardServePut(s) \/ ShardServeTxn(s)
CltStep(c) == ClientConnectMaster(c) \/ ClientMasterGone(c) \/ ClientConnectShard(c)
              \/ ClientConnectFail(c)
SendAllStep(i) == SendAllKey(i) \/ SendAllKeyStop(i) \/ SendAllEnd(i)

Next ==
  \/ \E s \in Shards : ShardJoin(s) \/ ShardStep(s)
  \/ MasterStep
  \/ \E c \in Procs : \/ CltStep(c)
                      \/ \E k \in Keys : \/ ClientStart(c, "GET", k, Blank)
                                         \/ \E v \in Values : ClientStart(c, "PUT", k, v)
                                         \/ \E s \in DirectPorts :
                                              \/ ClientStartDirect(c, "GET", k, Blank, s)
                                              \/ \E v \in Values : ClientStartDirect(c, "PUT", k, v, s)
  \/ \E i \in SenderSlots : SendAllStep(i)

\* Every thread polls its stack every 5 ms and blocks only for a bounded
\* timeout, so each is weakly fair; joins and new requests are not forced.
Fairness ==
  /\ WF_vars(MasterStep)
  /\ \A s \in Shards : WF_vars(ShardStep(s))
  /\ \A c \in Procs : WF_vars(CltStep(c))
  /\ \A i \in SenderSlots : WF_vars(SendAllStep(i))

Spec == Init /\ [][Next]_vars /\ Fairness

-----------------------------------------------------------------------------
(* Properties.                                                             *)

TypeOK ==
  /\ shardMap \in Seq(Shards) /\ Len(shardMap) <= Cardinality(Shards)
  /\ started \in BOOLEAN /\ mcrashed \in BOOLEAN
  /\ mirror \in [Keys -> Values \cup {Blank, NoValue}]
  /\ mconns \in Seq(MasterConn)
  /\ joined \subseteq Shards
  /\ sconns \in [Shards -> Seq(ShardConn)]
  /\ store \in [Shards -> Store] /\ rocks \in [Shards -> Store]
  /\ clt \in [Procs -> Clt]
  /\ senders \in [SenderSlots -> Store \cup {Off}]
  /\ issued \in 0..MaxOps
  /\ acked \subseteq Keys

\* where a key can be while it is being moved
Stored(k) == \E s \in Shards : store[s][k] # NoValue
Sending(k) == \E i \in SenderSlots : senders[i] # Off /\ senders[i][k] # NoValue
Reinserting(k) == \E c \in Procs : clt[c].phase # "free" /\ ~clt[c].ext /\ clt[c].key = k

\* Spec 4.5: redistribution moves every key to its new owner.  A key an
\* external PUT stored is, at every moment, in some shard's local_kv, in
\* the snapshot of a running send_all, or in a re-insert clt on its way:
\* the TXN_START handler, send_all's loop and the re-insert PUT never drop it.
KeyConserved ==
  \A k \in acked : Stored(k) \/ Sending(k) \/ Reinserting(k)

\* nothing in flight: no clt, no send_all thread, no socket waiting (the
\* stack of a dead master is never popped again)
Quiescent ==
  /\ \A c \in Procs : clt[c].phase = "free"
  /\ \A i \in SenderSlots : senders[i] = Off
  /\ mconns = <<>> \/ mcrashed
  /\ \A s \in Shards : sconns[s] = <<>>

\* Spec 4.5 and scenario 4: once redistribution and every request are over,
\* a key whose PUT was acknowledged is at the shard the master now routes it
\* to, so a GET finds it.  The TXN_START handler, send_all's loop, the
\* LIFO stacks and the re-insert clts all have to get it there.
OwnerHasKey ==
  Quiescent /\ NumServers > 0 => \A k \in acked : store[Owner(k)][k] # NoValue

\* Spec 2 and 7: a key is a u32 and its owner is shard (k mod N) + 1; a
\* request that arrives before any shard registered is answered with port 0.
U32Mod(i, n) ==
  IF i >= 0 THEN i % n ELSE ((i % n) + (((65536 % n) * (65536 % n)) % n)) % n
SpecOwner(k) == IF NumServers = 0 THEN NoShard ELSE shardMap[U32Mod(k, NumServers) + 1]

\* The handle_client contract: the master process survives every request,
\* and each reply it sends names the port the spec's owner function gives
\* for the key under the shard map of that moment.  Violated by the int
\* arithmetic of handle_client (division by num_servers = 0, a negative
\* remainder for a key of 2^31 or more) and the LIFO stack that lets a
\* request overtake an INIT.
HandleClientContract ==
  /\ [](~mcrashed)
  /\ [][\A c \in Procs : clt[c].phase = "master" /\ clt'[c].phase = "routed"
                         => clt'[c].dest = SpecOwner(clt[c].key)]_vars

\* Every clt eventually exits, every send_all thread eventually ends and
\* both dispatchers empty their stacks: the cluster settles once the
\* workload and the joins are spent, even when the master has died.
Settles == <>[]Quiescent

=============================================================================
