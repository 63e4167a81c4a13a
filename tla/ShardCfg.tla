------------------------------ MODULE ShardCfg ------------------------------
(***************************************************************************)
(* Shard configurations, src/src/shardkv1/shardcfg/shardcfg.go: how the    *)
(* next configuration is computed when groups join or leave.               *)
(*                                                                         *)
(* Several administrators work at the same time, each on a copy of the     *)
(* configuration it has read (join and leave in src/src/shardkv1/test.go). *)
(* A step is one iteration of a loop of Rebalance.  Go walks through a map *)
(* in any order, so every walk over Groups is given some order.  Server    *)
(* names are left out: a group is its number.  What follows, moving the    *)
(* shards, is the subject of ShardMigration; here a computed configuration *)
(* is published if its number is the next one and dropped otherwise.       *)
(***************************************************************************)
EXTENDS Integers, Sequences, FiniteSets, SequencesExt

CONSTANTS
    Admin,       \* the administrators
    Gid,         \* the group numbers
    NShards,     \* number of shards
    MaxNum       \* bound: the highest configuration number

ASSUME GidAssumption == Gid \subseteq Nat \ {0} /\ IsFiniteSet(Gid)
\* analyze looks for the least load from 257 down.
ASSUME SizeAssumption == NShards \in 1..256 /\ MaxNum \in Nat

VARIABLES
    published,   \* the current configuration
    work         \* per administrator: what it computes, and from what

vars == <<published, work>>

Shard == 1..NShards

Config == [Num : 0..MaxNum, Shards : [Shard -> Gid \union {0}], Groups : SUBSET Gid]

MakeShardConfig == [Num |-> 0, Shards |-> [s \in Shard |-> 0], Groups |-> {}]

Idle == [pc |-> "idle", shard |-> 0, base |-> MakeShardConfig, cfg |-> MakeShardConfig]

Init ==
    /\ published = MakeShardConfig
    /\ work = [a \in Admin |-> Idle]

(***************************************************************************)
(* analyze: the most and the least loaded group.                           *)
(***************************************************************************)
count(c, g) == Cardinality({s \in Shard : c.Shards[s] = g})

\* Mutant: the order of the map is used as it comes.
inOrderUnsorted(order) == order

\* Position i holds the group that is the i-th smallest.
inOrder(order) == [i \in DOMAIN order |-> CHOOSE g \in Range(order) :
    Cardinality({h \in Range(order) : h <= g}) = i]

\* Of several groups with that load the first in the order is taken.
mostGroup(c, gids) ==
    LET most(g) == \A h \in c.Groups : count(c, h) <= count(c, g)
    IN  gids[SelectInSeq(gids, most)]

leastGroup(c, gids) ==
    LET least(g) == \A h \in c.Groups : count(c, h) >= count(c, g)
    IN  gids[SelectInSeq(gids, least)]

(***************************************************************************)
(* Join and Leave.  A request to add a group that is there, or to remove   *)
(* one that is not, is refused and the copy is thrown away.                *)
(***************************************************************************)
Computes(a, groups) ==
    /\ work[a].pc = "idle" /\ published.Num < MaxNum
    /\ work' = [work EXCEPT ![a] =
            [pc |-> "assign", shard |-> 1, base |-> published,
             cfg |-> [published EXCEPT !.Num = @ + 1, !.Groups = groups]]]
    /\ UNCHANGED published

JoinBalance(a, gids) ==
    gids \intersect published.Groups = {} /\ Computes(a, published.Groups \union gids)

LeaveBalance(a, gids) ==
    gids \subseteq published.Groups /\ Computes(a, published.Groups \ gids)

(***************************************************************************)
(* Rebalance.                                                              *)
(***************************************************************************)
\* No groups: every shard is unassigned.
Unassign(a) ==
    /\ work[a].pc = "assign" /\ work[a].cfg.Groups = {}
    /\ work' = [work EXCEPT ![a].cfg.Shards = [s \in Shard |-> 0], ![a].pc = "ready"]
    /\ UNCHANGED published

\* Mutant: every shard is assigned anew.
NeedsGroupAlways(c, s) == TRUE

NeedsGroup(c, s) == c.Shards[s] \notin c.Groups

\* One iteration of the loop that assigns the shards nobody has.
Assign(a, gids) ==
    LET s == work[a].shard
        c == work[a].cfg
    IN  /\ work[a].pc = "assign" /\ c.Groups # {}
        /\ work' = [work EXCEPT
                ![a].cfg.Shards[s] =
                    IF NeedsGroup(c, s) THEN leastGroup(c, gids) ELSE @,
                ![a].shard = IF s = NShards THEN 0 ELSE s + 1,
                ![a].pc = IF s = NShards THEN "move" ELSE "assign"]
        /\ UNCHANGED published

\* Mutant: a difference of one is not good enough.
EvenExactly(c, most, least) == count(c, most) < count(c, least) + 1

Even(c, most, least) == count(c, most) < count(c, least) + 2

FirstShardOf(c, g) == CHOOSE s \in Shard :
    c.Shards[s] = g /\ \A r \in Shard : c.Shards[r] = g => s <= r

\* One iteration of the loop that evens the loads out.
Move(a, gids) ==
    LET c == work[a].cfg
        most == mostGroup(c, gids)
        least == leastGroup(c, gids)
    IN  /\ work[a].pc = "move"
        /\ work' = IF Even(c, most, least) THEN [work EXCEPT ![a].pc = "ready"]
                   ELSE [work EXCEPT ![a].cfg.Shards[FirstShardOf(c, most)] = least]
        /\ UNCHANGED published

\* The configuration is published, unless it comes too late.
ChangeConfigTo(a) ==
    /\ work[a].pc = "ready"
    /\ published' = IF work[a].cfg.Num = published.Num + 1 THEN work[a].cfg ELSE published
    /\ work' = [work EXCEPT ![a] = Idle]

Rebalance(a) ==
    \/ Unassign(a)
    \/ \E gids \in {inOrder(order) : order \in SetToSeqs(work[a].cfg.Groups)} :
            Assign(a, gids) \/ Move(a, gids)

Next ==
    \E a \in Admin :
        \/ \E gids \in SUBSET Gid \ {{}} : JoinBalance(a, gids) \/ LeaveBalance(a, gids)
        \/ Rebalance(a)
        \/ ChangeConfigTo(a)

Spec == Init /\ [][Next]_vars

\* A computation that was begun goes on.
FairSpec == Spec /\ \A a \in Admin : WF_vars(Rebalance(a))

-----------------------------------------------------------------------------
TypeOK ==
    /\ published \in Config
    /\ work \in [Admin -> [pc : {"idle", "assign", "move", "ready"},
                           shard : 0..NShards, base : Config, cfg : Config]]

\* CheckConfig: every shard has a group that is there, and no group has two
\* shards more than another.
Valid(shards, groups) ==
    LET load(g) == Cardinality({s \in Shard : shards[s] = g})
    IN  /\ \A s \in Shard : shards[s] \in groups
        /\ \A g, h \in groups : load(g) <= load(h) + 1

Moved(from, to) == Cardinality({s \in Shard : from[s] # to[s]})

\* Whatever joined or left before, Rebalance ends in a configuration CheckConfig
\* accepts, and no such configuration moves fewer shards.
RebalanceIsOptimal ==
    \A a \in Admin : work[a].pc = "ready" =>
        LET old == work[a].base.Shards
            new == work[a].cfg
        IN  IF new.Groups = {} THEN \A s \in Shard : new.Shards[s] = 0
            ELSE /\ Valid(new.Shards, new.Groups)
                 /\ \A other \in [Shard -> new.Groups] :
                        Moved(old, other) < Moved(old, new.Shards) => ~Valid(other, new.Groups)

\* Administrators that made the same change to the same configuration have
\* computed the same one ("Enforce deterministic ordering, map iteration is
\* randomized in go").
SameResult ==
    \A a, b \in Admin :
        /\ work[a].pc = "ready" /\ work[b].pc = "ready"
        /\ work[a].base = work[b].base /\ work[a].cfg.Groups = work[b].cfg.Groups
        => work[a].cfg = work[b].cfg

\* The loop of Rebalance, which has no bound of its own, ends.
RebalanceEnds == \A a \in Admin : work[a].pc = "assign" ~> work[a].pc = "ready"
=============================================================================
