--------------------------- MODULE MCShardCluster ---------------------------
(***************************************************************************)
(* Model-checking instance of ShardCluster.  Two shards give exactly one   *)
(* join after client traffic, hence one redistribution with one TXN_START; *)
(* a third shard gives a second redistribution while re-inserts of the     *)
(* first can still be in flight.  Keys are ints: 1 and 2 land on different *)
(* shards when two are registered, key 0 is the one send_all's loop       *)
(* condition treats as false, and -1 is the int image of the u32 key      *)
(* 4294967295, which handle_client's int remainder cannot route.          *)
(***************************************************************************)
EXTENDS ShardCluster

CONSTANTS s1, s2, s3, v1, v2

MCShards2 == {s1, s2}
MCShards3 == {s1, s2, s3}
MCValues1 == {v1}
MCValues2 == {v1, v2}
MCKeys12 == {1, 2}
MCKeys01 == {0, 1}
MCKeys012 == {0, 1, 2}
\* the u32 keys 4294967295 (the int -1) and 1
MCKeysWide == {-1, 1}
MCKeysWide0 == {-1, 0, 1}
\* s1 was started and registered before the first client (the usual start order)
MCRegistered1 == <<s1>>
\* a client is started before any shard
MCRegistered0 == <<>>
MCProcs == 1..3
\* PORTs the direct clients name: none, or one shard
MCDirectNone == {}
MCDirect2 == {s2}
MCSenders1 == 1..1
MCSenders2 == 1..2

=============================================================================
