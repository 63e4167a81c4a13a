-------------------------- MODULE MCShardMigration --------------------------
(***************************************************************************)
(* Instances of ShardMigration for TLC.                                    *)
(***************************************************************************)
EXTENDS ShardMigration, TLC

CONSTANTS g1, g2, w1, w2

\* Both requests write the only shard, which moves to the other group and back.
OneShard == w1 :> 1 @@ w2 :> 1
BackAndForth == {<<g2>>, <<g1>>}

\* Two shards leave together for another group and for nobody, and come back.
NoWrites == << >>
TwoShards == {<<g2, g2>>, <<g1, NoGroup>>}

\* The requests differ in nothing.
WriteSymmetry == Permutations(Write)
=============================================================================
