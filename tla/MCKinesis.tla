----------------------------- MODULE MCKinesis -----------------------------
(* Small instances of Kinesis for TLC. *)
EXTENDS Kinesis, TLC

CONSTANTS clicks, k0, k1, c1

(* Two shards, a partition key in each, and a consumer of shard 0. *)
Hashes == (k0 :> 4) @@ (k1 :> 7)
TwoShards == [n \in {clicks} |-> 2]
OneConsumer == [c \in {c1} |-> [stream |-> clicks, shard |-> 0]]
Mixed == {<<k0, k1>>}
Anonymous == Permutations(Iterators) \cup Permutations(Workers)
=============================================================================
