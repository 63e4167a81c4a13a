# Verification of raft-sharded-kv

TLA+ models of the Go code under `src/src/`, the TLC configurations that check
them on small instances, and TLAPS proofs of what matters most for instances of
every size. `PROJECT.json` ties each definition to the source lines it stands
for, each property to a mutation of the code that it catches, and each hazard
of the code to the properties that would notice it.

## 1. The system

A linearizable key/value store whose keys are spread over *shards*, the shards
over *groups*, each group being a Raft cluster, plus two smaller programs
(a lock service and MapReduce) that share the repository.

| component | source | state it keeps | operations | hard part |
|---|---|---|---|---|
| Raft | `raft1/raft.go` | term, vote, log, snapshot (persisted); role, commit and apply indices, next/matchIndex (volatile) | `Start`, `Snapshot`, `Kill`, `Make`; RPC handlers `RequestVote`, `AppendEntries`, `InstallSnapshot`; election and heartbeat tickers, one replication worker per peer, applier | a lock dropped across every call and every send on `applyCh`; reordered replies; restarts; log offsets relative to a snapshot |
| replicated state machine | `kvraft1/rsm/rsm.go` | waiters by operation identity, epoch, sequence, applied index | `Submit`, applier (`DoOp`, snapshot, wake-up), `Restore`, restart | wake-ups, lost leadership, identity across restarts |
| deduplication | `kvraft1/dedup/dedup.go` | clerk: next sequence, completed calls, acknowledged prefix; table: watermark and saved replies per clerk | `Begin`, `Ack`, `Complete`; `Table.Do` | calls that finish out of order, copies that arrive after their reply was pruned |
| replicated key/value service | `kvraft1/server.go`, `client.go` | the map of versioned values, the request table | `Get`, `Put`, `DoOp`, `Snapshot`, `Restore` | retries at another leader |
| shard group | `shardkv1/shardgrp/` | per shard: status (absent, serving, frozen), configuration number, values, request table | `Get`, `Put`, `FreezeShard`, `InstallShard`, `DeleteShard` | delayed and repeated migration requests |
| shard controller | `shardkv1/shardctrler/shardctrler.go` | one record in kvsrv: owner, epoch, current configuration, pending migration | `InitConfig`, `InitController`, `ChangeConfigTo`, `Query` | takeovers and crashes in the middle of a migration, `ErrMaybe` |
| sharded clerk | `shardkv1/client.go`, `shardgrp/client.go` | a cached configuration, a guess at each group's leader | `Get`, `Put`, `loadConfig`, `rememberLeader`, `advanceLeader` | routes that are out of date, refreshes that overlap, groups that are gone |
| shard configurations | `shardkv1/shardcfg/shardcfg.go` | number, shard assignment, groups | `Join`, `Leave`, `Rebalance`, `Copy` | balance, few movements, the same result everywhere |
| single-server store | `kvsrv1/server.go`, `client.go` | versioned values under one mutex | `Get`, `Put` | a lost answer: `ErrMaybe` |
| lock | `kvsrv1/lock/lock.go` | one key of kvsrv | `Acquire`, `Release` | own writes whose answer was lost |
| MapReduce | `mr/` | coordinator: phase and task table; workers: files | `RequestTask`, `ReportTask`; map and reduce work | time-outs of workers that are slow and not dead |
| simulated network | `labrpc/labrpc.go` | registered servers, enabled ends | `Call`, `processReq`, `AddServer`, `DeleteServer`, `Enable`, `Cleanup` | loses, delays and reorders calls and answers; the server may be replaced under a call |
| socket transport | `tester1/demux/`, `tester1/sockrpc/` | outstanding calls of a connection | `SendReceive`, reader, server loop | the connection breaks at any point |
| harness | `tester1/group.go`, `srv.go`, `daemonclnt.go`, `daemonsrv.go` | the process of a server, its persister | shutdown, checkpoint, kill, start | the copy of the persister against late handlers |
| the rest of the harness, `labgob`, `main`, `mrapps` | | - | - | not part of the protocols |

How they interact. A sharded clerk reads the configuration from the control
record (a kvsrv key) and sends its `Put` to a group's server; the server calls
`Submit` of its RSM; the RSM calls `Start` of Raft, and the RSM's applier takes
committed operations from `applyCh`, executes them through the request table and
wakes the waiting `Submit`. The controller writes its plan to the control record
by compare-and-swap and then drives Freeze, Install and Delete through the
groups' clerks, so that its calls too are operations in the groups' Raft logs.
The lock and the controller both rest on kvsrv's conditional `Put`.

What makes each part correct, in words (the definitions are in section 4):

* Raft: one leader per term; committed entries are durable, agreed and found at
  every server that can still be elected; replies in any order never make the
  leader believe too much; the service executes the committed sequence exactly,
  through snapshots and restarts. Its goroutines: a leader that stays one
  replicates and applies everything even if a call never returns; `Kill` ends
  them all before `stopped` is closed.
* RSM: an OK answers the caller's own operation; a waiting `Submit` returns.
* Deduplication: at most one execution per request; the answer is that
  execution's; the clerk's "impossible" panic is impossible.
* Sharding: one serving copy; fenced against old controllers and old requests;
  an immutable plan per configuration number; every plan can be and is finished;
  the groups together look like one store. A clerk's routes never go back, its
  reads are fresh, its calls return.
* Configurations: whatever joins and leaves, the result is balanced, moves as few
  shards as possible, and is the same whoever computes it; the computation ends.
* Lock: mutual exclusion, no orphaned lock, no waiting for oneself.
* Network and harness: an acknowledged call survives the restart of its server;
  no caller waits for a connection that is gone.
* MapReduce: reducers find complete input; "done" means the output is there; the
  job finishes if one worker survives.

The hazards list of `PROJECT.json` names the places where each of these could
go wrong, with the line.

## 2. Modules

| module | models | refers to |
|---|---|---|
| `Raft` | `raft.go`, with the service's executing and snapshotting loop above it | |
| `RaftThreads` | the goroutines of one server of `raft.go`: workers, notifications, tickers, rescues, applier, `Kill` | |
| `Rsm` | `rsm.go` over an abstract Raft | |
| `Dedup`, `MCDedup` | `dedup.go` | |
| `KvSrv` | the conditional `Put` of kvsrv and the clerk's `ErrMaybe` | |
| `KvLock` | `lock.go` | `KvSrv` |
| `ShardMigration`, `MCShardMigration` | controllers, shard groups, sharded clerks | `KvSrv`, `ShardStore` |
| `ShardStore` | abstract specification: the store the clients are promised | |
| `ShardClerk`, `MCShardClerk` | a clerk shared by goroutines: `client.go` and `shardgrp/client.go` | |
| `Network` | `labrpc.go` and the restart of a server by the harness | `Demux` |
| `Demux` | the calls multiplexed over the socket of a server process | |
| `ShardCfg` | `shardcfg.go`: `Join`, `Leave`, `Rebalance` | |
| `MapReduce` | `mr/coordinator.go`, `mr/worker.go` | |
| `RaftProofs` | theorems about `Raft`: types, durability, elections | `Raft` |
| `RaftLogProofs` | theorems about `Raft`: the log, what is committed, what reaches the service, what only grows | `RaftProofs` |
| `DedupProofs`, `RsmProofs`, `ShardCfgProofs` | theorems about `Dedup`, `Rsm`, `ShardCfg` | |
| `SingleServerProofs` | theorems about the parts in which one process serves many: `MapReduce`, `KvLock`, `Network` and `RaftThreads` | `MapReduce`, `KvLock`, `Network`, `RaftThreads` |
| `ShardMigrationProofs` | theorems about `ShardMigration`, the refinement of `ShardStore` among them | `ShardMigration` |
| `ShardClerkProofs` | theorems about `ShardClerk` | `ShardClerk` |

Operators whose comment begins with "Mutant:" are wrong on purpose: each is a
plausible mistake in the definition that follows it, and is used only to
show that a property notices the mistake.

### Raft

A step is what the code does in one critical section of `rf.mu`: a whole
handler; the construction of a request, up to the point where the lock is
dropped; the processing of a reply, from the point where it is taken again. The
requests and replies in between are the variable `rpcs`; they are handled in any
order or dropped. The lowercase variables are the fields of the Go object;
`persister` is the disk, written by `persist` inside the step as in the code.
`applyCh` holds the batch the applier has claimed under the lock and not yet
delivered, so an `InstallSnapshot` or a `Snapshot` can come in between
(`applier`, `Deliver`, `Snapshot`). `Kill` sets the dead flag and answers to a
killed server are lost or marked stopped as in the handlers; `Make` reads the
disk. A log's first element is the dummy entry that stands for the snapshot,
exactly as in the slice of the code, and all index arithmetic is by offset.

Abstracted: election deadlines, heartbeat intervals and notification channels
decide only *when* a step happens, so every step may happen at any time (what
makes the steps happen is `RaftThreads`). A
command is a number; a snapshot is the sequence of commands it stands for, so
that "the right snapshot" can be said. `votesCast`, `elected` and `committed` are
history variables that no guard reads.

Two constants only narrow an instance: `Crashing` are the servers that `Kill` is
called on, `Electors` those that requests for votes reach (the others' requests
are lost). With both equal to `Server` nothing is excluded; the theorems hold for
every choice.

### RaftThreads

`Raft` says what a step may do, `RaftThreads` which goroutine takes it and what
wakes that goroutine. One server is followed: its replication worker per peer
(`runReplicationWorker`, `replicateUntilStable`), the notify channel of one slot,
the flag `replicateBusy`, the heartbeat ticker with
`heartbeatOrNotifyReplication` and the rescue goroutine it launches for a
busy worker, the election ticker as far as `Kill` has to end it, the applier with
its condition variable, `launch` and its count `workers`, and `Kill`. A step
ends where the code takes or drops `rf.mu` or touches a channel.

Abstracted: a log is its length; what a follower answers is chosen freely
(success, a conflict with any smaller index, a higher term), so the module does
not depend on `Raft`; an election is one step `becomeLeader`; the vote and
heartbeat goroutines that only live for one call are left out, since they
change nothing here that `HigherTerm` does not; the 500 ms between two
rescues are one tick. At most one rescue goroutine per peer is alive at a time.
A group of one server is left out.

### Rsm

Raft appears by what `Raft` establishes of it: one leader per term, one agreed
log with terms that do not decrease, in which an old leader's proposal may still
appear or never does. `Submit` is split where the code can be interrupted:
registration, `Start`, and each arm of the `select`. The applier is split
between executing an operation and waking its waiter. The random epoch of a
server's start is a fresh number. The reply of an operation is its position in
the log, so replies of different operations differ. `Submit` before the Raft
object exists, which only the tester's construction order could cause, is
left out.

### Dedup

One clerk, calls in any number of goroutines, and one or more tables (one per
shard) fed from its one sequence. A request carries the acknowledged
prefix of the moment it was sent, and every copy can be executed at any later
time, again and again. Requests without a client identity are left out: they are
executed unconditionally.

### KvSrv and KvLock

A request is an operator on the entry because the server handles it under one
mutex. In the lock a step is one executed request with the client's code up to
its next request. `PutLost` covers the lost request, the lost answer and the
copy that arrives late. A copy that arrives after its `Put` has returned cannot
succeed, because the version it names has passed; the argument is in the header
of `KvSrv`. `Release` is called by the holder only, as in every use.

### ShardMigration and ShardStore

A group is one state machine: how its replicas agree is the subject of `Raft`
and `Rsm`. Controllers may stop anywhere and others take over. Every migration or
`Put` request ever sent stays in `sent` and may be executed at any later time,
repeatedly, heard or unheard. A shard has one key, whose value is the sequence
of the writes that reached it. Each client makes one `Put` with an identity of
its own; pruning the table is `Dedup`'s subject. The abstract store `ShardStore`
has one copy of each shard and lets a `Put` take effect once; it may forget a
shard only while the published configuration assigns it to nobody, which is when
the code deletes it without a successor. The refinement mapping takes the newest
copy of each shard, the serving one of two of the same number.

Left out here: several goroutines in one clerk and `Get` (`ShardClerk`), and the
replica-level `Snapshot`/`Restore` of a group.

### ShardClerk

One clerk and one shard, several goroutines in `Get` and `Put`. `loadConfig` is
split at the controller's answer, where the code drops the lock: the answer is
stored only if the cached configuration is not newer. A call to a group is split
into reading the guessed leader, the call, and the processing of its answer, in
which `rememberLeader` or `advanceLeader` is called for everybody who shares the
clerk. Groups move the shard in the three steps the controller drives (freeze,
install, publish), elect other leaders, lose calls, and are shut down once
nothing assigns the shard to them. The data of a shard is the set of clients
whose `Put` it has executed, the clerk's own and another clerk's: enough to say
that a read has seen a write.

Abstracted: fencing and repetition of migration requests and of `Put` are the
subject of `ShardMigration` and `Dedup`. A group's server list does not change, so the
rebuilding of a group's clerk does not arise.

### Demux and Network

`Demux` is the socket from the tester to one server process: `SendReceive`
registers the call, writes, and waits; the reader delivers answers or, when the
connection breaks, closes the call map and fails what is outstanding; the server
reads requests and runs each handler in its own goroutine. A tag is used once per connection,
so a call is its own tag.

`Network` puts it under `ClientEnd.Call` and `processReq` (the request is taken,
routed, lost or dispatched, the server is looked at every 100 ms and once more
after the handler) and adds the harness: the server is deleted from the
network, its persister is copied, the process is killed, a new one starts from
the copy and is added. A handler's effect is that its call is in the persister
when it returns, which is what `PersistBeforeReply` says of Raft's handlers.

The checkpoint in `daemonsrv.go` closes the listener (`rpcs.Close()`); open
connections stay open, and a handler may run and answer after the copy was
made. What keeps such an answer from the caller is `isServerDead`, which
`processReq` asks again after the handler: that is what `AckedIsDurable` rests on, and its
mutant removes it.

Left out: `TesterRPC.Forward` (the opposite direction, over the same code),
`DemuxClnt.Close`, dialling, framing, statistics and marshalling.

### ShardCfg

Administrators work at the same time, each on its own copy of the published
configuration, and publish what they computed if its number is still the next.
A step is one iteration of one of `Rebalance`'s two loops. Go's map iteration has
no fixed order, so every walk over the groups is given an arbitrary one, which
`slices.Sort` then puts in order (`inOrder`: at place *i* stands the group with *i*
groups up to it). Server
names are left out; the movement of the shards is `ShardMigration`'s subject,
which takes arbitrary assignments and so does not depend on this module.

### MapReduce

A step is one RPC of the coordinator or one file a worker reads or renames into
place; because of the rename a final name is absent or complete. Which tasks are
overdue is chosen freely among those in progress. A restart of the coordinator
is not supported by the code and not modelled.

## 3. Runs

Bounds are constants, named in the modules and set in the `.cfg` files. All runs
switch deadlock checking off because every bounded model, and MapReduce itself,
may come to rest.

| run | what is explored | why the bounds suffice |
|---|---|---|
| `raft_leader_change` | 3 servers, 3 terms, 2 commands, elections called by two of them and decided by the third, replication to two peers, a candidate or the voter may crash | three terms are the shortest history in which an old-term entry on a majority is overwritten (the case behind the commit rule); rival candidates in one term; votes and late replies that cross a restart; conflicts and back-off over logs of different terms |
| `raft_compaction` | 1 term, 2 commands, 2 messages in flight, 1 snapshot, 1 restart, appliers of the leader and of a follower | requests and replies to one follower that overtake each other; snapshots taken, sent and installed between an applier's claim and its delivery; replays after a restart |
| `raft_threads` | 1 peer, a log of up to 2 entries, one of which may be in the persister, one call that never returns | one peer is a majority with the leader; the lost call occupies the worker, so that everything after it goes through the rescue goroutine; two entries let a `Start` fall between `caughtUp` and the notification |
| `rsm` | 2 servers, 2 calls, 2 terms, one server started twice | an operation of a previous start replayed while a new call waits; a leader elected again between two looks of the ticker |
| `dedup` | 4 calls, 2 tables | calls completing out of order with acknowledgements that jump, copies before, between and after pruning |
| `kv_lock` | 3 clients, versions up to 5 | a lost answer, a take and a release by another client, and a third one waiting |
| `shard_takeover` | 2 controllers (one may crash anywhere), 2 shards, 2 groups, 3 configurations, 3 epochs | shards move away, one becomes unassigned, come back; takeovers at every point, every old request again at any time |
| `shard_exactly_once` | 1 controller, 2 `Put` requests, the shard moves to another group and back | a retry on each side of a move, and delayed copies at a former owner that has become owner again |
| `shard_clerk` | 2 goroutines (one writes, the other reads twice), 2 groups of 2 servers, the shard unassigned, then in each group, one failed call or change of leader | overlapping refreshes on either side of a move; a group that leaves while a call is in its round; a guess at the leader moved by both goroutines |
| `network` | 2 calls, 2 processes of the server, the end switched off and on | a call that began at the first process and is answered when the second runs; a connection that breaks before, during and after each step of a call |
| `shard_config` | 2 administrators, 3 groups, 4 shards, 3 configurations | several groups join or leave at once, shards that do and do not divide evenly, every map order, an administrator that comes too late |
| `mapreduce` | 3 workers, one reliable, 2 map and 2 reduce tasks | the same task at two workers, one late in the next phase |

Symmetry is used where elements are interchangeable and nothing temporal but
step properties is checked: tables in `dedup`, requests in `shard_exactly_once`.
The other runs use none; in the Raft runs the servers differ in what their bounds
allow them, which saves more than symmetry would: with three servers doing
everything, three terms are out of reach of an exhaustive search. A server
outside a bound still handles every message it receives. What is lost by it: a
third candidate, and an election won by the votes of the two candidates alone,
occur in no run; the proofs of section 5 make no such restriction.

No run found a violation in the code, and every property is violated by at least
one mutation of the code (`mutants` in `PROJECT.json`).

## 4. Properties

* `Raft`: `PersistBeforeReply`, `OneVotePerTerm`, `ElectionSafety` (elections
  through crashes); `LogMatching`, `StateMachineSafety`,
  `ElectableServersHoldCommitted` (commitment); `MatchIndexSound`,
  `BackoffMakesProgress` (the leader's bookkeeping under reordering);
  `ServiceAppliesCommittedPrefix`, `SnapshotIsCommittedPrefix` (compaction and
  delivery); step property `NeverBackwards`.
* `RaftThreads`: `StoppedIsQuiet`; liveness `LeaderReplicates` (a leader that stays
  one brings its log to its peer and its entries to its service) and `KillStops`.
* `Rsm`: `ReplyIsOwnExecution`, and the liveness property `SubmitReturns`.
* `Dedup`: `AtMostOnce`, `ActiveIsNeverStale`, `AnswerIsOwnExecution`.
* `KvLock`: `MutualExclusion`, `HolderKnows`; liveness `FreeLockIsTaken`.
* `ShardMigration`: `ServingCopyIsNewest`, `SettledConfigurationHolds`,
  `PublishedOwnerServes`; step property `PlanIsImmutable`; liveness `OwnerFinishesMigration`; refinement
  `ImplementsStore`.
* `ShardClerk`: `RouteNeverGoesBack`, `ReadIsFresh`; liveness `CallsReturn`.
* `Network`: `AckedIsDurable`; liveness `CallReturns` and, of `Demux`,
  `SendReceiveReturns`.
* `ShardCfg`: `RebalanceIsOptimal` (valid in the sense of `CheckConfig`, and no
  valid assignment moves fewer shards: the reference definition ranges over all
  of them), `SameResult`, liveness `RebalanceEnds`.
* `MapReduce`: `ReducersFindInput`, `DoneMeansOutput`, liveness `JobFinishes`.

The inductive invariants (`DedupInv`, `LockInv`, `RsmInv`, `JobInv`, `NetInv`,
`ThreadInv`, `CfgInv`, `RouteInv`, `MigrationInv`, `ElectionInv`, `LogInv`, `ServiceInv`) are not checked by a run of their own, since they
are proved (section 5).

### Fairness

* `KvLock`: weak fairness of each client's steps. The clerk retries until it is
  answered, and a step of a client is always possible while it is in a call;
  losses (`PutLost`) are not fair and cannot go on alone for ever.
* `Rsm`: weak fairness of the goroutines (`Submit`, applier), of hearing about a
  newer term, and of committing at the leader of the newest term. The last two
  are what a connected majority gives; without one `Submit` may wait. No
  deadline is assumed.
* `ShardMigration`: for a controller that does not crash, weak fairness of its
  steps and strong fairness of the answers to its migration calls: it
  repeats a call until it is answered, and a group with a majority answers in
  the end. Crashing controllers, clerks and delayed requests are not fair.
* `RaftThreads`: weak fairness of each goroutine, of the ticker and of the applier:
  Go runs what can run, and a call that was not lost is answered. A lost call is
  assumed to return only after `Kill` (its timer in the network runs out in the
  end); before, it may outlast everything. Elections, `Start`, `Kill` and losses are
  not fair, and `MaxLost` bounds the losses, as the network's settling does.
* `ShardClerk`: weak fairness of each goroutine's steps, the answers of its calls
  included, and of the controller, which finishes a migration it began
  (`OwnerFinishesMigration`). Faults are bounded and not fair.
* `Network`: weak fairness of the goroutines of a call and of the socket. No
  handler has to return and the harness need not go on, which is why `CallReturns`
  excepts a call whose handler is running at a server that is not dead.
* `ShardCfg`: weak fairness of `Rebalance`: it is one call that waits for nobody,
  so what was begun goes on. Publishing is not fair.
* `MapReduce`: weak fairness of one reliable worker, which asks again every
  second and so sees a task idle or overdue after at most ten.

## 5. Proofs

Checked by `tlapm` for any set of servers, clients or tables and any bound.

`RaftProofs` proves:

* `TypeCorrect`, `Spec => []TypeOK`. Most of it is the slice arithmetic of the log:
  a compacted, merged or truncated log is again a non-empty sequence of entries,
  and what the handlers put into `rpcs` is typed.
* `Durability`: memory and disk agree between critical sections
  (`PersistBeforeReply`). Every action that changes a persistent field calls
  `persist` in the same step, and `Make` reads back what was written.
* `ElectionInvariant`, by the inductive invariant `ElectionInv`. `ElectionSafety`
  alone is not inductive: one has to know that a vote counted by a candidate was
  cast, that a vote cast in a server's current term is what `votedFor` says, that
  no vote lies in a term its voter has not reached, and that a recorded winner
  has the votes of a majority. Two majorities then share a voter.
* `VotesUnique` (`OneVotePerTerm`) and `OneLeaderPerTerm` (`ElectionSafety`)
  follow. Restarts need no extra argument because of `Durability`.

`RaftLogProofs` proves `LogInvariant`, `Spec => []Explained`, and from it `LogsMatch`
(`LogMatching`), `CommittedOnce` (`StateMachineSafety`), `LeadersComplete`
(`ElectableServersHoldCommitted`), `MatchIndexTruthful` (`MatchIndexSound`) and
`BackoffMoves` (`BackoffMakesProgress`), for any number of servers, terms, crashes,
lost calls and snapshots. None of the five is inductive: whether an entry may still be overwritten depends on who led which
term and on what was acknowledged before a server moved on, and none of that is in
the state any more. The code keeps no such record, and the model has no variable
for it either; `Explained` says that there is a history `h` (the log of each term's
leader, its length, and the index up to which each server acknowledged it) with
`LogInv(h)`, and every step of the proof says how the history grows. The parts of
`LogInv`:

* `Lineage`: every leader's log is made of pieces of earlier leaders' logs, so
  one term at an index determines everything below it. `Stored`: a server's log,
  down to its snapshot, is that of the leader of its last term. `Sound`: so is every
  piece carried by a request. These three give `LogMatching`.
* `Role`: a leader has the whole log of its term, and counts no peer for more than
  it acknowledged. `Acked`: what a server acknowledged in its present term it has.
* `Chosen` and `Blocked`: an entry is chosen when a majority acknowledged it in
  its own term, and blocked when a majority left that term without having
  acknowledged it. It cannot be both, since two majorities meet, and blocked entries
  stay blocked. `Acked`, `Ballot` and `Complete` say that a server, a candidate's
  log against that of its voter, and a later leader, hold an
  entry or it is blocked. Here the rule that `advanceCommitIndex` counts
  entries of its own term only is needed.
* `Commits` and `Agreed`: what is committed was chosen, in that order.
* `Hint`, a part of `Sound`: a refusal names a term other than the one the
  leader's log has at the index it probed, and an index at or below that one, or, if the
  follower has compacted past it, one beyond it that the leader's log reaches
  (the follower's snapshot is committed, so the leader has it). Neither
  `ConflictIndex` nor the leader's last entry of `ConflictTerm` can then be the probed
  index, whatever was appended or compacted before the refusal arrived.

The proof has one lemma per action. Most steps are *calm* (`Calm`): the history
stays and no log gets worse. The others are an acknowledgement (`AppendEntries`,
`InstallSnapshot`), a leader that appends (`Start`) and a candidate that wins
(`RequestVoteReply`, or `startElection` in a group of one), whose log becomes the
leader's log of a new term.

The same module goes on to the service: `ServiceInvariant`, `Spec => []ServiceInv`,
and from it `ServiceInOrder` (`ServiceAppliesCommittedPrefix`) and
`SnapshotsAreCommitted` (`SnapshotIsCommittedPrefix`). The log is used only through
`Committing`. `ServiceInv` follows an entry from the log to the service: the batch the
applier claimed continues where the service stands, entry by entry or with one
snapshot (`Delivers`); it ends where the next claim begins, or the snapshot
that waits for the applier bridges the gap (`Claimed`), which is what is left of a batch
claimed before an `InstallSnapshot`; and every snapshot, in memory or in flight, is the
committed prefix its index names. `OnlyForward` (`NeverBackwards`) follows from both
invariants: an `InstallSnapshot` is taken only above `commitIndex`, so neither
the boundary nor what was applied falls, and only a restart, which changes `dead`, is
exempt.

`DedupProofs` proves `DedupInvariant` and from it `ExecutedAtMostOnce`,
`NoStaleAnswer` and `TrueAnswers`. An executed request is still recorded in the
table or lies at or below its watermark; no watermark exceeds what the clerk has
acknowledged; the clerk acknowledges only completed calls. So a copy is answered
from the record, or refused, and never refused while its call waits.

`RsmProofs` proves `IdentityInvariant`, `Spec => []RsmInv`, and from it
`RepliesAreOwn` (`ReplyIsOwnExecution`). What makes an answer the caller's own is
not the log index it waits for but the identity of the operation, so the invariant
is about identities: a call's comes from a start of its server that is over or
from the present one, whose counter has passed it; no two calls share one;
proposals, log entries and waiters carry the identity of the call they belong to.
That is why an operation of an earlier start, replayed from the log, cannot wake a
new call.

`SingleServerProofs` holds the theorems of four small components. It extends the
four modules, which share no constant and no variable; for that reason the
specifications of three of them have a prefix (`LockSpec`, `NetSpec`, `ThreadSpec`).

* `JobInvariant`, `Spec => []JobInv`, and `InputIsThere` (`ReducersFindInput`),
  `OutputIsThere` (`DoneMeansOutput`). A worker in the middle of a map task has
  renamed the files of the reducers before its step, and a reduce worker was
  handed its task after the maps were over. A task is completed only after a
  worker with all its files in place reported it, and files are never removed; so
  it does not matter whose report it was, how often the task was handed out, or how
  late the others are.
* `LockInvariant`, and from it `LockExcludes` (`MutualExclusion`) and
  `LockNotOrphaned` (`HolderKnows`). `LockInv` relates the version a client is about
  to name to the stored one: while they are equal the `Put` is still ahead and the
  value is the one the client read; once they differ, the stored owner tells the
  client whether the write was its own.
* `AckedIsDurableAlways` (`AckedIsDurable`), by `NetInv`. The property speaks of
  what a caller has heard and of the persister the next process will read, which
  have no variable in common. `NetInv` follows the call in between: it is on one
  connection, that of the process `readEndnameInfo` found, from dispatch to answer
  (`OnOneConn`); what a process has handled is in that process's persister
  (`HandledIsSaved`); and whoever is registered is the running process
  (`RegisteredRuns`). When `Reply` finds the server it called still registered,
  that process runs and has not been checkpointed, so its persister is the one
  the next process will get; and what is durable only grows from then on
  (`AnswerIsDurable`), because the copy is made after `DeleteServer` and read before
  `AddServer`.
* `StoppedIsQuietAlways` (`StoppedIsQuiet`), by `ThreadInv`: `rf.workers` is the
  number of worker and rescue goroutines that run, plus the applier and the two
  tickers (`Counted`). It is raised under the mutex before a goroutine starts and
  only while the server is not dead, so that once it is zero at a dead server
  it stays zero.

`ShardCfgProofs` proves `CfgInvAlways`, `Spec => []CfgInv`, and from it
`SameResultAlways` (`SameResult`) and `RebalanceIsOptimalAlways`
(`RebalanceIsOptimal`).

* Sorting makes the order of Go's map irrelevant: whatever the walk, `inOrder`
  gives the same sequence, so an iteration is a function of the state it begins
  with (`iteration`). `CfgInv` says that what an administrator has is reached from its
  copy of the configuration by that function. `Reaches` says this without
  induction (every set that has the beginning and is closed under the function has
  the end), and two who come from the same beginning to a state the function
  leaves alone have come to the same one (`SameEnd`).
* Optimality compares the result with every assignment of the shards. `CfgInv`
  carries what the loops keep: no group has both given and received a shard
  (`OneWay`), one that received has at most one shard more than any other
  (`ReceiversAreLow`), nobody has more than one more than a group that gave
  (`GiversAreHigh`), and a receiver has no more than a giver
  (`ReceiversBelowGivers`). At the end the loads differ by at most one. In any
  other assignment with such loads either no giver has more than in the result
  (`OptimalForGivers`) or every receiver has at least as many
  (`OptimalForReceivers`), and in both cases it leaves no more shards where they
  were than the result does (`Optimal`), which a mapping of shards to shards
  shows without a sum over the groups.

`ShardMigrationProofs` proves `MigrationInvariant`, `Spec => []MigrationInv`, for
any number of controllers, groups, shards and clients, and from it

* `ServingIsNewest` (`ServingCopyIsNewest`), `SettledHolds`
  (`SettledConfigurationHolds`), `PublishedServes` (`PublishedOwnerServes`) and the
  step property `PlanStaysImmutable` (`PlanIsImmutable`);
* `GroupsAreOneStore`, the refinement `ImplementsStore`.

None of the properties is inductive: each depends on what the requests still under
way, of every controller that ever ran, can do. Three ideas carry
`MigrationInv`. What a controller knows is a lower bound that stays true:
configuration numbers and epochs of the control record only grow, so
whatever a controller read is at most what is stored. A migration request
ever sent is *spent* (its number is below that of the copy it would
touch, or its effect is there, so that executing it changes nothing) or
*wanted* by the migration under way, never anything else. And the
copies of a shard always have one of a few shapes (`Shape`): settled in the
owner; frozen at the source with or without the copy installed at the
destination; and not yet or already deleted at the source; everything else is
older and not serving. The proof has one lemma per action and, for the executed
requests, one per kind of request and shape. For the refinement
the invariant is extended with `PutsBegun` (a request in any copy's table belongs
to a `Put` that was begun). A step that executes a `Put` at a serving copy is the
store's step because the serving copy is the newest; every migration step
leaves the newest copy's data as it is and so is a stutter, except a delete without
a successor, which is the abstract store's `Forget`.

`ShardClerkProofs` proves `ClerkInvariant`, `Spec => []RouteInv`; from it
`RoutesNeverGoBack` (`RouteNeverGoesBack`), and with a further invariant
`ReadsAreFresh` (`ReadIsFresh`). `RouteInv` says that whatever the clerk has
routed by it has cached, or something newer. For freshness
one follows the data (`FreshInv`): only the owner's copy serves, and it has every
write that was answered OK, whether the answer was looked at or not. `ReadsAreFresh` has the
hypothesis `PlanKeepsShard`: once the shard is assigned, no later configuration of
the plan assigns it to nobody; the code deletes a shard that nobody is to have,
and a read after that is not meant to be fresh.

Assumptions: `Server` is finite and not empty, `None` and `Free` are no servers,
clients, records or snapshots waiting for the applier, bounds are natural numbers, the plan of `ShardClerk` is a
non-empty sequence of groups, `Conn` are the numbers of the server's processes,
`Peer` is finite and not empty, group identifiers are a finite set of positive numbers, and there
are between 1 and 256 shards (`analyze` looks for the least load from 257 down; the
repository has 12). TLC evaluates them in the runs.

Only model-checked: the liveness properties (fairness is outside the prover's
reach): `LeaderReplicates`, `KillStops`, `SubmitReturns`, `FreeLockIsTaken`,
`OwnerFinishesMigration`, `CallsReturn`, `CallReturns`, `SendReceiveReturns`,
`RebalanceEnds` and `JobFinishes`. Every invariant, every step property and the
refinement is a theorem. `TypeCorrect` is the type invariant's only check: no run
repeats it.

## 6. Not modelled

* `labgob`, a wrapper of `encoding/gob`; `main` and `mrapps`, entry points and
  sample applications.
* Of the harness: scenarios, partitions of a group, annotations, the
  linearizability checker's histories and models (`kvtest1`, `models1`). They
  drive and judge the system and keep no state of it.
* Time: election deadlines are random intervals, so that a leader is elected in
  the end holds with probability one and is not stated; `LeaderReplicates` begins
  where a leader exists.
* Of kvsrv, its clerk's `Get` and a store of several keys: keys do not
  interact. Of the replicated service, its clerk's cached leader, which is the
  scheme of `ShardClerk` without routes.
* Requests without a client identity in `dedup`, and the exhaustion of 64-bit
  sequence numbers, which is not reachable in practice.

## 7. Plan

Done: Raft, because everything rests on it; the pieces whose failures tests
hardly reach (deduplication, migration, RSM, lock, configurations, MapReduce)
and the abstract store above migration; the goroutines of a Raft server, the
shared clerk with its reads, and the network with the restart of servers.

Every invariant and step property the runs check is proved, and so is the
refinement. What is left is to model more: the opposite direction of the socket,
the clerk of the replicated service, and a store of several keys.
