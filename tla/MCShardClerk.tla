---------------------------- MODULE MCShardClerk ----------------------------
EXTENDS ShardClerk

CONSTANTS t1, t2, g1, g2

\* The shard is assigned, moves once, and its first group is shut down.
MovesOnce == <<NoGroup, g1, g2>>

\* A second read is routed by what the calls before it have cached.
OneWriteTwoReads == [t \in Thread |-> IF t \in Writer THEN 1 ELSE 2]
=============================================================================
