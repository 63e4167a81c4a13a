----------------------------- MODULE ShardClerk -----------------------------
(***************************************************************************)
(* A clerk of the sharded store that several goroutines share:             *)
(* src/src/shardkv1/client.go (the cached configuration and the route) and *)
(* src/src/shardkv1/shardgrp/client.go (the guess at a group's leader and  *)
(* the round through its servers), with the Get and the Put of             *)
(* src/src/shardkv1/shardgrp/server.go.                                    *)
(*                                                                         *)
(* The clerk is followed for one shard while the controller moves it from  *)
(* group to group; that the controller moves it correctly, and that a      *)
(* repeated Put is executed once, is what ShardMigration and Dedup are     *)
(* about, so a migration is three steps here and the data of a shard is    *)
(* the set of those whose Puts it has executed.                            *)
(***************************************************************************)
EXTENDS Integers, Sequences, FiniteSets, FiniteSetsExt

CONSTANTS
    Thread,        \* goroutines that use the clerk
    Writer,        \* bound: those that call Put; the others call Get
    Group,         \* shard groups
    NoGroup,       \* gid 0: the shard is assigned to nobody
    Plan,          \* the group of the shard in configurations 1, 2, ...
    NServers,      \* servers of a group
    MaxCalls,      \* bound: per goroutine, the calls it makes
    MaxFaults      \* bound: calls that fail although their group runs, and
                   \*        changes of a group's leader

ASSUME GroupAssumption == NoGroup \notin Group
ASSUME PlanAssumption == Plan \in Seq(Group \cup {NoGroup}) /\ Plan # << >>
ASSUME ServersAssumption == NServers \in Nat \ {0}
ASSUME CallsAssumption == MaxCalls \in [Thread -> Nat] /\ MaxFaults \in Nat

VARIABLES
    published,     \* number of the configuration Query returns, 0 before the first
    shard,         \* per group: status and data of the shard
    leaderOf,      \* per group: index of the server that leads
    down,          \* groups that have been shut down
    config,        \* the clerk: number of the cached configuration, 0 for nil
    leader,        \* the clerk: per group, the server it takes for the leader
    th,            \* per goroutine: the call it executes
    acked,         \* history: those of whom a Put was answered OK
    routed,        \* history: the highest configuration a call was routed by
    calls, faults

world    == <<published, shard, leaderOf, down>>
clerk    == <<config, leader>>
counters == <<calls, faults>>
vars == <<world, clerk, th, acked, routed, counters>>

Server == 0..NServers - 1
Client == Thread \cup {"other"}
Route(num) == IF num = 0 THEN NoGroup ELSE Plan[num]

Idle == [pc |-> "idle", op |-> "Get", force |-> FALSE, cfg |-> 0,
         gid |-> NoGroup, attempts |-> 0, receivedReply |-> FALSE, server |-> 0,
         err |-> "none", value |-> {}, acked |-> {}, routed |-> 0]

Call ==
    [pc : {"idle", "load", "query", "store", "leader", "call", "reply"},
     op : {"Get", "Put"}, force : BOOLEAN, cfg : 0..Len(Plan),
     gid : Group \cup {NoGroup}, attempts : Server, receivedReply : BOOLEAN,
     server : Server, err : {"none", "failed", "OK", "ErrWrongGroup", "ErrWrongLeader"},
     value : SUBSET Client, acked : SUBSET Client, routed : 0..Len(Plan)]

TypeOK ==
    /\ published \in 0..Len(Plan) /\ config \in 0..Len(Plan)
    /\ shard \in [Group -> [Status : {"Absent", "Serving", "Frozen"},
                            Data : SUBSET Client]]
    /\ leaderOf \in [Group -> Server] /\ leader \in [Group -> Server]
    /\ down \subseteq Group
    /\ th \in [Thread -> Call]
    /\ acked \subseteq Client /\ routed \in 0..Len(Plan)
    /\ calls \in [Thread -> Nat] /\ faults \in 0..MaxFaults

Init ==
    /\ published = 0
    /\ shard = [g \in Group |->
                  [Status |-> IF g = Plan[1] THEN "Serving" ELSE "Absent", Data |-> {}]]
    /\ leaderOf = [g \in Group |-> NServers - 1]
    /\ down = {}
    /\ config = 0 /\ leader = [g \in Group |-> 0]
    /\ th = [t \in Thread |-> Idle]
    /\ acked = {} /\ routed = 0
    /\ calls = [t \in Thread |-> 0] /\ faults = 0

----------------------------------------------------------------------------
(***************************************************************************)
(* The controller and the groups.                                          *)
(***************************************************************************)
\* The migration from the published configuration to its successor: where the
\* shard is taken from and where it goes.
Source == Plan[published]
Target == Plan[published + 1]
Moves == published \in 1..Len(Plan) - 1 /\ Source # Target

\* Query returns the successor when its group serves the shard; the first
\* configuration is created.
Publish ==
    /\ published < Len(Plan)
    /\ Moves => /\ Source # NoGroup => shard[Source].Status = "Frozen"
                /\ Target # NoGroup => shard[Target].Status = "Serving"
    /\ published' = published + 1
    /\ UNCHANGED <<shard, leaderOf, down, clerk, th, acked, routed, counters>>

Freeze ==
    /\ Moves /\ Source # NoGroup
    /\ shard[Source].Status = "Serving"
    /\ shard' = [shard EXCEPT ![Source].Status = "Frozen"]
    /\ UNCHANGED <<published, leaderOf, down, clerk, th, acked, routed, counters>>

\* Without a source the shard begins empty.  The old copy is deleted after
\* publication, which the clerk cannot tell from its being frozen.
Install ==
    /\ Moves /\ Target # NoGroup
    /\ Source # NoGroup => shard[Source].Status = "Frozen"
    /\ shard[Target].Status # "Serving"
    /\ shard' = [shard EXCEPT ![Target] =
                    [Status |-> "Serving",
                     Data |-> IF Source = NoGroup THEN {} ELSE shard[Source].Data]]
    /\ UNCHANGED <<published, leaderOf, down, clerk, th, acked, routed, counters>>

\* A group that has left for good is shut down.
ShutDown(g) ==
    /\ g \notin down /\ \A n \in Max({published, 1})..Len(Plan) : Plan[n] # g
    /\ down' = down \cup {g}
    /\ UNCHANGED <<published, shard, leaderOf, clerk, th, acked, routed, counters>>

\* Bound: one Put of another clerk, which has heard of the last configuration.
OtherPut ==
    /\ "other" \notin acked /\ published = Len(Plan) /\ Source # NoGroup
    /\ shard' = [shard EXCEPT ![Source].Data = @ \cup {"other"}]
    /\ acked' = acked \cup {"other"}
    /\ UNCHANGED <<published, leaderOf, down, clerk, th, routed, counters>>

Elect(g) ==
    /\ faults < MaxFaults
    /\ \E s \in Server \ {leaderOf[g]} : leaderOf' = [leaderOf EXCEPT ![g] = s]
    /\ faults' = faults + 1
    /\ UNCHANGED <<published, shard, down, clerk, th, acked, routed, calls>>

----------------------------------------------------------------------------
(***************************************************************************)
(* Clerk.Get and Clerk.Put of client.go.                                   *)
(***************************************************************************)
Becomes(t, call) == th' = [th EXCEPT ![t] = call]

Begin(t) ==
    /\ th[t].pc = "idle" /\ calls[t] < MaxCalls[t]
    /\ calls' = [calls EXCEPT ![t] = @ + 1]
    /\ Becomes(t, IF t \in Writer
                  THEN [Idle EXCEPT !.pc = "load", !.op = "Put", !.routed = routed]
                  ELSE [Idle EXCEPT !.pc = "load", !.acked = acked, !.routed = routed])
    /\ UNCHANGED <<world, clerk, acked, routed, faults>>

\* Back to the top of the loop, with forceRefresh.
Again(call) ==
    [Idle EXCEPT !.pc = "load", !.op = call.op, !.force = TRUE,
                 !.acked = call.acked, !.routed = routed]

\* loadConfig has returned: on to the group of the shard, if it has one.
Use(t, num) ==
    /\ Becomes(t, IF Route(num) = NoGroup THEN Again(th[t])
                  ELSE [th[t] EXCEPT !.pc = "leader", !.gid = Route(num), !.cfg = num])
    /\ routed' = Max({routed, num})

\* loadConfig up to the controller's answer.
LoadCached(t) ==
    /\ th[t].pc = "load" /\ ~th[t].force /\ config # 0
    /\ Use(t, config)
    /\ UNCHANGED <<world, clerk, acked, counters>>

LoadRefresh(t) ==
    /\ th[t].pc = "load" /\ (th[t].force \/ config = 0)
    /\ Becomes(t, [th[t] EXCEPT !.pc = "query"])
    /\ UNCHANGED <<world, clerk, acked, routed, counters>>

Query(t) ==
    /\ th[t].pc = "query"
    /\ Becomes(t, IF published = 0 THEN Again(th[t])
                  ELSE [th[t] EXCEPT !.pc = "store", !.cfg = published])
    /\ UNCHANGED <<world, clerk, acked, routed, counters>>

\* Mutant: the answer replaces whatever is cached.
NewerAny(queried) == queried

Newer(queried) == IF queried >= config THEN queried ELSE config

Store(t) ==
    /\ th[t].pc = "store"
    /\ config' = Newer(th[t].cfg)
    /\ Use(t, config')
    /\ UNCHANGED <<world, leader, acked, counters>>

----------------------------------------------------------------------------
(***************************************************************************)
(* Get and PutRequest of shardgrp/client.go.                               *)
(***************************************************************************)
Leader(t) ==
    /\ th[t].pc = "leader"
    /\ Becomes(t, [th[t] EXCEPT !.pc = "call", !.server = leader[th[t].gid]])
    /\ UNCHANGED <<world, clerk, acked, routed, counters>>

\* Mutant: a frozen shard still answers reads.
ServesFrozen(g, op) ==
    \/ shard[g].Status = "Serving"
    \/ shard[g].Status = "Frozen" /\ op = "Get"

\* DoOp looks at the status before anything else.
Serves(g, op) == shard[g].Status = "Serving"

\* DoOp of the group: the Put is in the table of executed requests afterwards.
Execute(t) ==
    LET g == th[t].gid
    IN  shard' = IF th[t].op = "Put" /\ Serves(g, "Put")
                 THEN [shard EXCEPT ![g].Data = @ \cup {t}] ELSE shard

\* The leader executes the request and its answer arrives.
Answer(t) ==
    /\ th[t].pc = "call" /\ th[t].gid \notin down
    /\ th[t].server = leaderOf[th[t].gid]
    /\ Execute(t)
    /\ Becomes(t, [th[t] EXCEPT !.pc = "reply",
                     !.err = IF Serves(th[t].gid, th[t].op) THEN "OK" ELSE "ErrWrongGroup",
                     !.value = IF th[t].op = "Get" THEN shard[th[t].gid].Data ELSE {}])
    /\ UNCHANGED <<published, leaderOf, down, clerk, acked, routed, counters>>

\* Another server, or a group that is gone.
Refuse(t) ==
    /\ th[t].pc = "call"
    /\ th[t].gid \in down \/ th[t].server # leaderOf[th[t].gid]
    /\ Becomes(t, [th[t] EXCEPT !.pc = "reply",
                     !.err = IF th[t].gid \in down THEN "failed" ELSE "ErrWrongLeader"])
    /\ UNCHANGED <<world, clerk, acked, routed, counters>>

\* The request or the answer is lost, or the server stops leading before it can
\* answer: the request may have been executed.
Fail(t) ==
    /\ th[t].pc = "call" /\ th[t].gid \notin down /\ faults < MaxFaults
    /\ Execute(t) \/ UNCHANGED shard
    /\ \E err \in {"failed", "ErrWrongLeader"} :
          Becomes(t, [th[t] EXCEPT !.pc = "reply", !.err = err])
    /\ faults' = faults + 1
    /\ UNCHANGED <<published, leaderOf, down, clerk, acked, routed, calls>>

\* The final answers: rememberLeader, and the call returns or is routed again.
Finish(t) ==
    /\ th[t].pc = "reply" /\ th[t].err \in {"OK", "ErrWrongGroup"}
    /\ leader' = [leader EXCEPT ![th[t].gid] = th[t].server]
    /\ acked' = IF th[t].err = "OK" /\ th[t].op = "Put" THEN acked \cup {t} ELSE acked
    /\ Becomes(t, IF th[t].err = "OK" THEN Idle ELSE Again(th[t]))
    /\ UNCHANGED <<world, config, routed, counters>>

\* advanceLeader: only if nobody else has moved on from this server.
advanceLeader(g, failed) ==
    leader' = [leader EXCEPT ![g] = IF @ = failed THEN (failed + 1) % NServers ELSE @]

\* Mutant: the round starts again, whether a server answered or not.
RoundOverStay(call) ==
    [call EXCEPT !.pc = "leader", !.attempts = 0, !.receivedReply = FALSE]

\* All servers were tried: a group none of whose servers answers may be gone.
RoundOver(call) ==
    IF call.receivedReply
    THEN [call EXCEPT !.pc = "leader", !.attempts = 0, !.receivedReply = FALSE]
    ELSE Again(call)

NextServer(t) ==
    LET received == th[t].receivedReply \/ th[t].err # "failed"
        call == [th[t] EXCEPT !.server = 0, !.err = "none", !.receivedReply = received]
    IN  /\ th[t].pc = "reply" /\ th[t].err \in {"failed", "ErrWrongLeader"}
        /\ advanceLeader(th[t].gid, th[t].server)
        /\ Becomes(t, IF call.attempts + 1 = NServers THEN RoundOver(call)
                      ELSE [call EXCEPT !.pc = "leader", !.attempts = @ + 1])
        /\ UNCHANGED <<world, config, acked, routed, counters>>

----------------------------------------------------------------------------
Step(t) ==
    \/ LoadCached(t) \/ LoadRefresh(t) \/ Query(t) \/ Store(t)
    \/ Leader(t) \/ Answer(t) \/ Refuse(t) \/ Finish(t) \/ NextServer(t)

Migrate == Freeze \/ Install \/ Publish

Next ==
    \/ \E t \in Thread : Step(t) \/ Fail(t) \/ Begin(t)
    \/ Migrate \/ OtherPut
    \/ \E g \in Group : ShutDown(g) \/ Elect(g)

\* Goroutines run, calls return, and the controller finishes what it began.
Spec ==
    /\ Init /\ [][Next]_vars
    /\ \A t \in Thread : WF_vars(Step(t))
    /\ WF_vars(Migrate)

----------------------------------------------------------------------------
(***************************************************************************)
(* Properties.                                                             *)
(***************************************************************************)
(* A call is never routed by a configuration older than one the clerk had  *)
(* already routed a call by when this round of it began, although          *)
(* refreshes of loadConfig overlap and their answers arrive out of order.  *)
RouteNeverGoesBack ==
    \A t \in Thread : th[t].pc \in {"leader", "call", "reply"} => th[t].cfg >= th[t].routed

(* A Get that is answered OK sees every Put that was answered OK before it *)
(* was called, from whichever group its clerk's cached route and guessed   *)
(* leader have led it to.                                                  *)
ReadIsFresh ==
    \A t \in Thread : th[t].op = "Get" /\ th[t].err = "OK" => th[t].acked \subseteq th[t].value

(* Once configurations, leaders and the network settle, every Get and Put  *)
(* returns: no goroutine stays with a group that is gone, or follows a     *)
(* guess at the leader that the others keep moving.                        *)
CallsReturn == \A t \in Thread : []<>(th[t].pc = "idle")
=============================================================================
