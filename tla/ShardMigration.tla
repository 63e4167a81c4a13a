-------------------------- MODULE ShardMigration --------------------------
(***************************************************************************)
(* Reconfiguration of the sharded store: controllers that take over from   *)
(* one another (src/src/shardkv1/shardctrler/shardctrler.go), the shard    *)
(* groups they move shards between (src/src/shardkv1/shardgrp/server.go    *)
(* and client.go) and the clerks that write meanwhile                      *)
(* (src/src/shardkv1/client.go).                                           *)
(*                                                                         *)
(* A step is one operation of a replicated or locked server (a DoOp of a   *)
(* group, a Get or Put of the kvsrv that stores the controller state)      *)
(* together with what its caller does before its next RPC.  A group is one *)
(* state machine here; Raft.tla is about how its replicas agree.  A call   *)
(* can fail although it was, or will be, executed, so every request that   *)
(* was ever sent to a group can be executed again at any later time, also  *)
(* when its sender has been superseded.                                    *)
(*                                                                         *)
(* A shard holds one key.  Its value is the sequence of the writes that    *)
(* were applied to it, so its version is the length of that sequence.      *)
(***************************************************************************)
EXTENDS Integers, Sequences, FiniteSets, KvSrv

CONSTANTS
    Controller,    \* ShardCtrler objects
    Group,         \* shard groups
    NoGroup,       \* gid 0: the shard is assigned to nobody
    Gid1,          \* the group that starts with every shard
    NShards,       \* number of shards
    Write,         \* Put requests; each stands for its (ClientID, Sequence)
    ShardOf,       \* the shard of the key a request writes
    Assignment,    \* the shard assignments an administrator may ask for
    None,          \* a nil pointer
    MaxNum,        \* bound: the highest configuration number
    MaxEpoch,      \* bound: the highest controller epoch
    MaxVersion,    \* bound: the highest version a client asks to overwrite
    Reliable,      \* the controllers that do not crash
    Creators       \* bound: the controllers InitConfig is called on

Shard == 1..NShards
Gid == Group \union {NoGroup}

ASSUME GroupAssumption == NoGroup \notin Group /\ Gid1 \in Group
ASSUME ShardAssumption == NShards \in Nat \ {0} /\ ShardOf \in [Write -> Shard]
ASSUME AssignmentAssumption == Assignment \subseteq [Shard -> Gid]
ASSUME BoundAssumption == MaxNum \in Nat \ {0} /\ MaxEpoch \in Nat \ {0} /\ MaxVersion \in Nat

VARIABLES
    store,      \* the kvsrv key "shardctrler/current-config"
    ctl,        \* the controllers
    shards,     \* the state machines of the groups
    sent,       \* every request ever sent to a group
    clients     \* the Put calls of the clerks

vars == <<store, ctl, shards, sent, clients>>

-----------------------------------------------------------------------------
(***************************************************************************)
(* Data.                                                                   *)
(***************************************************************************)
Config == [Num : 1..MaxNum, Shards : Assignment \union {[s \in Shard |-> Gid1]}]
InitialConfig == [Num |-> 1, Shards |-> [s \in Shard |-> Gid1]]
MigrationRecord == [From : Config, To : Config]
ControllerState ==
    [Owner : Controller, Epoch : 1..MaxEpoch, Current : Config,
     Pending : MigrationRecord \union {None}]

\* What a compareAndSwap is for.
Purpose == {"initialized", "elected", "chosen", "published", "cleared"}

Reply == {"OK", "ErrVersion", "ErrNoKey"}
\* What a transfer carries: the values and the table of answered requests.
Transfer == [Values : Seq(Write), Requests : [Write -> Reply \union {None}]]
EmptyTransfer == [Values |-> << >>, Requests |-> [w \in Write |-> None]]

ShardState ==
    [Status : {"Absent", "Serving", "Frozen"}, ConfigNum : 0..MaxNum,
     Data : Transfer]

\* A controller object and the call it executes under changeMu.
IdleController ==
    [pc |-> "idle", epoch |-> 0, initialized |-> FALSE, deposed |-> FALSE,
     next |-> None, version |-> 0, state |-> None, after |-> None,
     resent |-> FALSE, shard |-> 0, data |-> EmptyTransfer, called |-> FALSE]

\* The fields a controller keeps when a call returns.
Return(ct) ==
    [IdleController EXCEPT !.epoch = ct.epoch, !.initialized = ct.initialized,
                           !.deposed = ct.deposed]
Deposed(ct) == [Return(ct) EXCEPT !.deposed = TRUE]

Init ==
    /\ store = [Version |-> 0, Value |-> None]
    /\ ctl = [c \in Controller |-> IdleController]
    /\ shards = [g \in Group |-> [s \in Shard |->
                    [Status |-> IF g = Gid1 THEN "Serving" ELSE "Absent",
                     ConfigNum |-> IF g = Gid1 THEN 1 ELSE 0,
                     Data |-> EmptyTransfer]]]
    /\ sent = {}
    /\ clients = [w \in Write |->
                    [pc |-> "idle", gid |-> NoGroup, version |-> 0,
                     answer |-> None]]

-----------------------------------------------------------------------------
(***************************************************************************)
(* The controller.  readOwned is one Get of the kvsrv; compareAndSwap is a *)
(* Put that is resent until it is answered and, when the answer is         *)
(* ErrMaybe, a Get that compares the whole record.                         *)
(***************************************************************************)
Owned(c) ==
    /\ store.Value # None
    /\ store.Value.Owner = c
    /\ store.Value.Epoch = ctl[c].epoch

\* compareAndSwap(version, state) begins; "after" says what success leads to.
compareAndSwap(ct, version, state, after) ==
    [ct EXCEPT !.pc = "cas", !.version = version, !.state = state,
               !.after = after, !.resent = FALSE, !.shard = 0,
               !.data = EmptyTransfer, !.called = FALSE]

\* The controller goes on to a step that reads the record afresh.
ReadAfresh(ct, pc) ==
    [ct EXCEPT !.pc = pc, !.version = 0, !.state = None, !.after = None,
               !.resent = FALSE]

\* A recovery is finished: ChangeConfigTo goes on to choose its migration.
Recovered(ct) ==
    IF ct.next = None THEN Return(ct) ELSE ReadAfresh(ct, "choose")

Source(record, s) == record.From.Shards[s]
Target(record, s) == record.To.Shards[s]
First(S) == CHOOSE s \in S : \A t \in S : s <= t

\* Mutant: the loop starts behind the shard it is at.
CopyFromNext(ct, s) ==
    LET record == ct.state.Pending
        rest == {t \in (s + 1)..NShards : Source(record, t) # Target(record, t)}
    IN  IF rest = {}
        THEN compareAndSwap(ct, ct.version, [ct.state EXCEPT !.Current = record.To],
                            "published")
        ELSE [ct EXCEPT !.shard = First(rest), !.data = EmptyTransfer,
                        !.called = FALSE, !.pc = "Freeze"]

\* The copy loop reaches shard s: the next shard that moves, or the publication.
CopyFrom(ct, s) ==
    LET record == ct.state.Pending
        rest == {t \in s..NShards : Source(record, t) # Target(record, t)}
    IN  IF rest = {}
        THEN compareAndSwap(ct, ct.version, [ct.state EXCEPT !.Current = record.To],
                            "published")
        ELSE [ct EXCEPT !.shard = First(rest), !.data = EmptyTransfer,
                        !.called = FALSE,
                        !.pc = IF Source(record, First(rest)) # NoGroup
                               THEN "Freeze" ELSE "Install"]

\* The deletion loop reaches shard s: the next old copy, or clearing the record.
DeleteFrom(ct, s) ==
    LET record == ct.state.Pending
        rest == {t \in s..NShards : /\ Source(record, t) # NoGroup
                                    /\ Source(record, t) # Target(record, t)}
    IN  IF rest = {}
        THEN compareAndSwap(ct, ct.version, [ct.state EXCEPT !.Pending = None],
                            "cleared")
        ELSE [ct EXCEPT !.pc = "Delete", !.shard = First(rest), !.called = FALSE]

\* What the caller of compareAndSwap does with "true".
Succeeded(ct) ==
    CASE ct.after = "initialized" ->
            Return([ct EXCEPT !.epoch = ct.state.Epoch, !.initialized = TRUE])
      [] ct.after = "elected" ->
            ReadAfresh([ct EXCEPT !.epoch = ct.state.Epoch], "recover")
      [] ct.after = "chosen" -> ReadAfresh([ct EXCEPT !.next = None], "recover")
      [] ct.after = "published" -> [ct EXCEPT !.pc = "confirm"]
      [] ct.after = "cleared" -> Recovered(ct)

\* And with "false": only a candidate tries again.
Failed(ct) ==
    IF ct.after = "elected" THEN ReadAfresh(ct, "elect") ELSE Return(ct)

Becomes(c, ct) == ctl' = [ctl EXCEPT ![c] = ct]

\* InitConfig: create the record with this controller as its first owner.
InitConfig(c) ==
    /\ c \in Creators
    /\ ctl[c].pc = "idle"
    /\ Becomes(c, compareAndSwap(ctl[c], 0,
            [Owner |-> c, Epoch |-> 1, Current |-> InitialConfig,
             Pending |-> None], "initialized"))
    /\ UNCHANGED <<store, shards, sent, clients>>

\* InitController (next = None) or ChangeConfigTo(next) is called.  An object
\* that has led before only checks that it still leads.
Call(c, next) ==
    /\ ctl[c].pc = "idle" /\ ~ctl[c].deposed
    /\ IF ctl[c].initialized
       THEN Becomes(c, IF Owned(c) THEN [ctl[c] EXCEPT !.pc = "recover", !.next = next]
                       ELSE Deposed(ctl[c]))
       ELSE Becomes(c, [ctl[c] EXCEPT !.pc = "elect", !.initialized = TRUE,
                                      !.next = next])
    /\ UNCHANGED <<store, shards, sent, clients>>

\* Mutant: the new owner starts with a clean record.
ElectedAfresh(c) ==
    [store.Value EXCEPT !.Owner = c, !.Epoch = @ + 1, !.Pending = None]

\* A takeover changes the owner and keeps the migration already chosen.
Elected(c) == [store.Value EXCEPT !.Owner = c, !.Epoch = @ + 1]

\* One round of the election loop of ensureLeadershipLocked.
ensureLeadership(c) ==
    /\ ctl[c].pc = "elect"
    /\ \/ /\ store.Value = None
          /\ Becomes(c, Deposed(ctl[c]))
       \/ /\ store.Value # None
          /\ store.Value.Epoch < MaxEpoch
          /\ Becomes(c, compareAndSwap(ctl[c], store.Version, Elected(c), "elected"))
    /\ UNCHANGED <<store, shards, sent, clients>>

\* The kvsrv executes the Put of a compareAndSwap and the answer arrives.
PutAnswered(c) ==
    LET ct == ctl[c]
        err == ClerkErr(PutErr(store, ct.version), ct.resent)
    IN  /\ ct.pc = "cas"
        /\ store' = PutEntry(store, ct.version, ct.state)
        /\ Becomes(c, CASE err = "OK" -> Succeeded(ct)
                        [] err = "ErrMaybe" -> [ct EXCEPT !.pc = "readback"]
                        [] OTHER -> Failed(ct))
        /\ UNCHANGED <<shards, sent, clients>>

\* The call fails, with the request executed or not, and is repeated.
PutFailed(c) ==
    /\ ctl[c].pc = "cas"
    /\ store' \in {store, PutEntry(store, ctl[c].version, ctl[c].state)}
    /\ Becomes(c, [ctl[c] EXCEPT !.resent = TRUE])
    /\ UNCHANGED <<shards, sent, clients>>

\* ErrMaybe: read the record back and compare it with the one written.
ReadBack(c) ==
    /\ ctl[c].pc = "readback"
    /\ Becomes(c, IF store.Value = ctl[c].state THEN Succeeded(ctl[c])
                  ELSE Failed(ctl[c]))
    /\ UNCHANGED <<store, shards, sent, clients>>

\* Mutant: nothing is left to do when the target is published.
ResumeCopyOnly(ct) ==
    IF ct.state.Current = ct.state.Pending.From
    THEN CopyFrom(ct, 1)
    ELSE Return(ct)

\* Where a pending migration is taken up again: copying or, when its target is
\* already published, deleting the old copies.
Resume(ct) ==
    IF ct.state.Current = ct.state.Pending.From
    THEN CopyFrom(ct, 1)
    ELSE [ct EXCEPT !.pc = "confirm"]

\* recoverPendingLocked reads the record and finds where to resume.
recoverPending(c) ==
    /\ ctl[c].pc = "recover"
    /\ Becomes(c,
         IF ~Owned(c) THEN Deposed(ctl[c])
         ELSE IF store.Value.Pending = None THEN Recovered(ctl[c])
         ELSE Resume([ctl[c] EXCEPT !.state = store.Value,
                                    !.version = store.Version]))
    /\ UNCHANGED <<store, shards, sent, clients>>

\* The new configuration is published: read the record again before deleting.
confirmPublished(c) ==
    /\ ctl[c].pc = "confirm"
    /\ LET record == ctl[c].state.Pending
       IN  Becomes(c,
             IF ~Owned(c) THEN Deposed(ctl[c])
             ELSE IF store.Value.Pending # record \/ store.Value.Current # record.To
             THEN Return(ctl[c])
             ELSE DeleteFrom([ctl[c] EXCEPT !.state = store.Value,
                                            !.version = store.Version], 1))
    /\ UNCHANGED <<store, shards, sent, clients>>

\* ChangeConfigTo persists the migration it is asked for.
chooseMigration(c) ==
    /\ ctl[c].pc = "choose"
    /\ Becomes(c,
         IF ~Owned(c) THEN Deposed(ctl[c])
         ELSE IF ctl[c].next.Num # store.Value.Current.Num + 1 THEN Return(ctl[c])
         ELSE compareAndSwap(ctl[c], store.Version,
                [store.Value EXCEPT !.Pending = [From |-> store.Value.Current,
                                                 To |-> ctl[c].next]],
                "chosen"))
    /\ UNCHANGED <<store, shards, sent, clients>>

-----------------------------------------------------------------------------
(***************************************************************************)
(* The migration calls.                                                    *)
(***************************************************************************)
\* The request the controller is about to send or waits for.
Request(ct) ==
    LET record == ct.state.Pending
    IN  [type |-> ct.pc, shard |-> ct.shard, num |-> record.To.Num,
         gid |-> IF ct.pc = "Install" THEN Target(record, ct.shard)
                 ELSE Source(record, ct.shard),
         data |-> ct.data]

MigrationCall == {"Freeze", "Install", "Delete"}

\* Every attempt first checks that the controller still leads.
SendMigration(c) ==
    /\ ctl[c].pc \in MigrationCall /\ ~ctl[c].called
    /\ IF Owned(c)
       THEN /\ sent' = sent \union {Request(ctl[c])}
            /\ Becomes(c, [ctl[c] EXCEPT !.called = TRUE])
       ELSE /\ Becomes(c, Deposed(ctl[c]))
            /\ UNCHANGED sent
    /\ UNCHANGED <<store, shards, clients>>

\* The call fails or times out; the request stays under way.
CallFailed(c) ==
    /\ ctl[c].pc \in MigrationCall /\ ctl[c].called
    /\ Becomes(c, [ctl[c] EXCEPT !.called = FALSE])
    /\ UNCHANGED <<store, shards, sent, clients>>

\* FreezeShard: stop serving in favour of a later configuration.
FreezeRepeated(st, num) == num = st.ConfigNum /\ st.Status = "Frozen"
FreezeFirst(st, num) == st.Status = "Serving" /\ num > st.ConfigNum

\* InstallShard: an absent shard is taken over from an earlier configuration.
\* Mutant: the configuration number is not looked at.
InstallAnyConfig(st, num) == st.Status = "Absent"

InstallRepeated(st, num) == num = st.ConfigNum /\ st.Status = "Serving"
InstallFirst(st, num) == st.Status = "Absent" /\ num > st.ConfigNum

\* Mutant: a Delete of the current configuration counts as done already.
DeleteRepeatedInclusive(st, num) == num <= st.ConfigNum

\* DeleteShard: drop the frozen copy of exactly this configuration.
DeleteRepeated(st, num) ==
    num < st.ConfigNum \/ (num = st.ConfigNum /\ st.Status = "Absent")
DeleteFirst(st, num) == num = st.ConfigNum /\ st.Status = "Frozen"

\* Mutant: only the values are transferred.
InstalledValues(m) ==
    [Status |-> "Serving", ConfigNum |-> m.num,
     Data |-> [m.data EXCEPT !.Requests = EmptyTransfer.Requests]]

\* The installed shard: the transferred values and answered requests.
Installed(m) == [Status |-> "Serving", ConfigNum |-> m.num, Data |-> m.data]

\* The deleted shard keeps its configuration number as a fence.
Deleted(st) == [st EXCEPT !.Status = "Absent", !.Data = EmptyTransfer]

\* The state of the shard after DoOp executed the request ...
DoMigration(st, m) ==
    CASE m.type = "Freeze" /\ ~FreezeRepeated(st, m.num) /\ FreezeFirst(st, m.num) ->
            [st EXCEPT !.Status = "Frozen", !.ConfigNum = m.num]
      [] m.type = "Install" /\ ~InstallRepeated(st, m.num) /\ InstallFirst(st, m.num) ->
            Installed(m)
      [] m.type = "Delete" /\ ~DeleteRepeated(st, m.num) /\ DeleteFirst(st, m.num) ->
            Deleted(st)
      [] OTHER -> st

\* ... and whether it answers OK rather than ErrWrongGroup.
Accepted(st, m) ==
    \/ m.type = "Freeze" /\ (FreezeRepeated(st, m.num) \/ FreezeFirst(st, m.num))
    \/ m.type = "Install" /\ (InstallRepeated(st, m.num) \/ InstallFirst(st, m.num))
    \/ m.type = "Delete" /\ (DeleteRepeated(st, m.num) \/ DeleteFirst(st, m.num))

\* The controller goes on after an OK.
Proceed(ct, data) ==
    CASE ct.pc = "Freeze" ->
            IF Target(ct.state.Pending, ct.shard) # NoGroup
            THEN [ct EXCEPT !.pc = "Install", !.data = data, !.called = FALSE]
            ELSE CopyFrom(ct, ct.shard + 1)
      [] ct.pc = "Install" -> CopyFrom([ct EXCEPT !.called = FALSE], ct.shard + 1)
      [] ct.pc = "Delete" -> DeleteFrom([ct EXCEPT !.called = FALSE], ct.shard + 1)

\* The group executes the request and the controller gets the answer.
MigrationAnswered(c) ==
    /\ ctl[c].pc \in MigrationCall /\ ctl[c].called
    /\ LET m == Request(ctl[c])
           st == shards[m.gid][m.shard]
       IN  /\ shards' = [shards EXCEPT ![m.gid][m.shard] = DoMigration(st, m)]
           /\ Becomes(c, IF Accepted(st, m)
                         THEN Proceed(ctl[c], DoMigration(st, m).Data)
                         ELSE Return(ctl[c]))
    /\ UNCHANGED <<store, sent, clients>>

\* The group executes a request, or a retry of it, whose sender does not listen.
MigrationDelayed(m) ==
    /\ m.type \in MigrationCall
    /\ shards' = [shards EXCEPT ![m.gid][m.shard] = DoMigration(@, m)]
    /\ UNCHANGED <<store, ctl, sent, clients>>

-----------------------------------------------------------------------------
(***************************************************************************)
(* The clerks.                                                             *)
(***************************************************************************)
BeginPut(w, version) ==
    /\ clients[w].pc = "idle"
    /\ clients' = [clients EXCEPT ![w].pc = "active", ![w].version = version]
    /\ UNCHANGED <<store, ctl, shards, sent>>

\* The clerk reads the current configuration when it has none it can use.
loadConfig(w) ==
    /\ clients[w].pc # "done" /\ clients[w].gid = NoGroup
    /\ store.Value # None
    /\ clients' = [clients EXCEPT ![w].gid = store.Value.Current.Shards[ShardOf[w]]]
    /\ UNCHANGED <<store, ctl, shards, sent>>

PutMessage(w, g) == [type |-> "Put", id |-> w, gid |-> g]

SendPut(w) ==
    /\ clients[w].pc = "active" /\ clients[w].gid # NoGroup
    /\ sent' = sent \union {PutMessage(w, clients[w].gid)}
    /\ UNCHANGED <<store, ctl, shards, clients>>

\* The whole group is unreachable: look the route up again.
GroupUnreachable(w) ==
    /\ clients[w].pc = "active" /\ clients[w].gid # NoGroup
    /\ clients' = [clients EXCEPT ![w].gid = NoGroup]
    /\ UNCHANGED <<store, ctl, shards, sent>>

\* What the state machine answers to a Put it has not executed yet.
PutResult(data, version) ==
    CASE data.Values = << >> /\ version # 0 -> "ErrNoKey"
      [] data.Values # << >> /\ version # Len(data.Values) -> "ErrVersion"
      [] OTHER -> "OK"

\* The answer to a Put, taken from the request table if it is there.
Answer(data, w) ==
    IF data.Requests[w] # None THEN data.Requests[w]
    ELSE PutResult(data, clients[w].version)

\* DoOp of a Put on a serving shard.
DoPut(data, w) ==
    IF data.Requests[w] # None THEN data
    ELSE [Values |-> IF PutResult(data, clients[w].version) = "OK"
                     THEN Append(data.Values, w) ELSE data.Values,
          Requests |-> [data.Requests EXCEPT ![w] = PutResult(data, clients[w].version)]]

\* The group executes a Put; the clerk gets the answer or has stopped listening.
Put(m, heard) ==
    /\ m.type = "Put"
    /\ heard => clients[m.id].pc = "active" /\ clients[m.id].gid = m.gid
    /\ LET st == shards[m.gid][ShardOf[m.id]]
           serving == st.Status = "Serving"
       IN  /\ shards' = IF serving
                        THEN [shards EXCEPT ![m.gid][ShardOf[m.id]].Data = DoPut(@, m.id)]
                        ELSE shards
           /\ clients' = IF ~heard THEN clients
                         ELSE IF serving
                         THEN [clients EXCEPT ![m.id].pc = "done",
                                              ![m.id].gid = NoGroup,
                                              ![m.id].answer = Answer(st.Data, m.id)]
                         ELSE [clients EXCEPT ![m.id].gid = NoGroup]
    /\ UNCHANGED <<store, ctl, sent>>

-----------------------------------------------------------------------------
Configured == [Num : 2..MaxNum, Shards : Assignment]

ControllerStep(c) ==
    \/ ensureLeadership(c)
    \/ PutAnswered(c)
    \/ ReadBack(c)
    \/ recoverPending(c)
    \/ confirmPublished(c)
    \/ chooseMigration(c)
    \/ SendMigration(c)
    \/ MigrationAnswered(c)

Next ==
    \/ \E c \in Controller :
        \/ InitConfig(c)
        \/ \E next \in Configured \union {None} : Call(c, next)
        \/ ControllerStep(c)
        \/ PutFailed(c)
        \/ CallFailed(c)
    \/ \E m \in sent : MigrationDelayed(m)
    \/ \E w \in Write :
        \/ \E version \in 0..MaxVersion : BeginPut(w, version)
        \/ loadConfig(w)
        \/ SendPut(w)
        \/ GroupUnreachable(w)
    \/ \E m \in sent, heard \in BOOLEAN : Put(m, heard)

Spec == Init /\ [][Next]_vars

\* A controller that does not crash keeps running, and a call it keeps
\* repeating is answered in the end.
Fairness ==
    \A c \in Reliable :
        WF_vars(ControllerStep(c)) /\ SF_vars(MigrationAnswered(c))

FairSpec == Spec /\ Fairness

-----------------------------------------------------------------------------
(***************************************************************************)
(* Properties.                                                             *)
(***************************************************************************)
Messages ==
    [type : MigrationCall, shard : Shard, num : 2..MaxNum, gid : Group, data : Transfer]
    \union [type : {"Put"}, id : Write, gid : Group]

\* A nil pointer points to nothing.
ASSUME NoneAssumption ==
    /\ None \notin MigrationRecord /\ None \notin ControllerState
    /\ None \notin Configured /\ None \notin Purpose /\ None \notin Reply

ControllerObject ==
    [pc : {"idle", "elect", "cas", "readback", "recover", "choose", "confirm"}
          \union MigrationCall,
     epoch : 0..MaxEpoch, initialized : BOOLEAN, deposed : BOOLEAN,
     next : Configured \union {None}, version : Nat,
     state : ControllerState \union {None},
     after : Purpose \union {None}, resent : BOOLEAN,
     shard : 0..NShards, data : Transfer, called : BOOLEAN]

PutCall ==
    [pc : {"idle", "active", "done"}, gid : Gid, version : 0..MaxVersion,
     answer : Reply \union {None}]

\* The types of the state, and that a controller that writes or migrates holds
\* the record it read.
TypeOK ==
    /\ store \in [Version : Nat, Value : ControllerState \union {None}]
    /\ ctl \in [Controller -> ControllerObject]
    /\ \A c \in Controller :
        /\ ctl[c].pc \in {"cas", "readback"} =>
                ctl[c].state # None /\ ctl[c].after # None
        /\ ctl[c].pc \in MigrationCall \union {"confirm"} =>
                ctl[c].state # None /\ ctl[c].state.Pending # None
        /\ ctl[c].pc = "choose" => ctl[c].next # None
    /\ shards \in [Group -> [Shard -> ShardState]]
    /\ \A m \in sent : m \in Messages
    /\ clients \in [Write -> PutCall]

\* At most one group serves a shard, and no frozen copy of it is newer than the
\* one that serves: the fencing by configuration number in DoOp holds against
\* superseded controllers and delayed Freeze, Install and Delete requests.
ServingCopyIsNewest ==
    \A s \in Shard : \A g, h \in Group :
        shards[g][s].Status = "Serving" /\ g # h =>
            \/ shards[h][s].Status = "Absent"
            \/ /\ shards[h][s].Status = "Frozen"
               /\ shards[h][s].ConfigNum <= shards[g][s].ConfigNum

\* When no migration is pending the published configuration is the truth: each
\* shard is served by the group it is assigned to and by nobody else, and no
\* old copy is left behind.  (recoverPendingLocked clears the record last.)
SettledConfigurationHolds ==
    store.Value # None /\ store.Value.Pending = None =>
        \A s \in Shard, g \in Group :
            shards[g][s].Status =
                IF store.Value.Current.Shards[s] = g THEN "Serving" ELSE "Absent"

\* Once a configuration is published, clients that follow it are served: the
\* old copies are not deleted before every target has installed its shard.
PublishedOwnerServes ==
    store.Value # None =>
        \A s \in Shard :
            LET now == store.Value
                g == now.Current.Shards[s]
            IN  g # NoGroup =>
                \/ shards[g][s].Status = "Serving"
                \/ /\ now.Pending # None
                   /\ now.Current = now.Pending.From
                   /\ now.Pending.To.Shards[s] # g
                   /\ shards[g][s].Status = "Frozen"

\* A configuration number has one immutable plan: a pending migration is only
\* ever removed, after its target configuration was published, and only the
\* target of the pending migration is ever published.
PlanIsImmutable ==
    [][store.Value # None =>
        LET old == store.Value
            new == store'.Value
        IN  /\ old.Pending \notin {None, new.Pending} =>
                    new.Pending = None /\ old.Current = old.Pending.To
            /\ old.Current # new.Current =>
                    old.Pending = [From |-> old.Current, To |-> new.Current]]_vars

InCharge(c) == store.Value # None /\ store.Value.Owner = c

\* A pending migration does not stay pending: the controller in charge finishes
\* it, whatever point its predecessor left it at, unless it is superseded.
OwnerFinishesMigration ==
    \A c \in Reliable :
        (InCharge(c) /\ store.Value.Pending # None)
            ~> (InCharge(c) => store.Value.Pending = None)

\* The copy of shard s that counts: the newest one, the serving one of two.
Copies(s) == {g \in Group : shards[g][s].Status # "Absent"}
Newest(s) ==
    CHOOSE g \in Copies(s) : \A h \in Copies(s) :
        \/ shards[h][s].ConfigNum < shards[g][s].ConfigNum
        \/ /\ shards[h][s].ConfigNum = shards[g][s].ConfigNum
           /\ shards[g][s].Status = "Serving" \/ g = h

Held(s) == IF Copies(s) = {} THEN EmptyTransfer ELSE shards[Newest(s)][s].Data

\* The store as its clients see it.
Stored == [s \in Shard |-> Held(s)]
Assigned == [s \in Shard |-> store.Value # None => store.Value.Current.Shards[s] # NoGroup]
Calls ==
    [w \in Write |-> [pc |-> clients[w].pc, version |-> clients[w].version,
                      answer |-> clients[w].answer]]

Store == INSTANCE ShardStore WITH data <- Stored, assigned <- Assigned, call <- Calls

\* Through every migration, takeover, delayed request and retry the groups
\* together behave like one store that executes each Put at most once, answers
\* it truthfully and forgets only what a configuration left unassigned.
ImplementsStore == Store!StoreSpec
=============================================================================
