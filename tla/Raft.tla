------------------------------- MODULE Raft -------------------------------
(***************************************************************************)
(* The consensus layer of the store, src/src/raft1/raft.go: leader         *)
(* election, log replication with conflict back-off, commitment, log       *)
(* compaction, delivery to the service and recovery from the persister.    *)
(*                                                                         *)
(* A step is what the code does in one critical section of rf.mu: a whole  *)
(* RPC handler, the construction of a request before the lock is dropped,  *)
(* or the processing of a reply after it is taken again.  Between the two  *)
(* halves of a call anything can happen, so the requests and replies in    *)
(* flight are part of the state.  Timers (election deadline, heartbeat and *)
(* rescue ticks) and the notify channels only decide WHEN a step is taken; *)
(* here it may be taken at any time.                                       *)
(***************************************************************************)
EXTENDS Integers, Sequences, FiniteSets, FiniteSetsExt

CONSTANTS
    Server,        \* the peers of one Raft group
    None,          \* "nobody" for votedFor, "nothing" for pendingSnapshot
    MaxTerm,       \* bound: no election is started from this term on
    MaxOps,        \* bound: number of commands submitted with Start
    MaxInFlight,   \* bound: number of requests and replies in flight
    MaxRestarts,   \* bound: number of calls of Kill
    Crashing,      \* bound: the servers that are killed
    MaxSnapshots,  \* bound: number of snapshots taken by the services
    Timers,        \* bound: the servers whose election timer fires
    Electors,      \* bound: the servers that requests for votes reach
    Workers,       \* bound: the peers whose replication worker is scheduled
    Busy,          \* bound: the peers whose worker may wait for an old reply
    Appliers       \* bound: the servers whose applier goroutine is scheduled

ASSUME ServerAssumption == IsFiniteSet(Server) /\ Server # {}
ASSUME NoneAssumption   == None \notin Server

VARIABLES
    \* the fields persist() writes, as they are in memory
    currentTerm, votedFor, logs, lastIncludedIndex, lastIncludedTerm, snapshot,
    persister,         \* what Persister.Save last stored, per server
    \* volatile fields of the Raft object
    state, commitIndex, lastApplied, nextIndex, matchIndex, pendingSnapshot,
    dead,
    votesGranted,      \* the peers counted by the "votes" closure variable
    applyCh,           \* messages the applier has claimed and not yet sent
    applied,           \* the service: the commands its state is made of
    appliedIndex,      \* the service: index of the last message it consumed
    rpcs,              \* requests and replies in flight
    \* history and bound counters, which no action reads except for the bounds
    votesCast,         \* every <<term, voter, candidate>> vote ever granted
    elected,           \* every <<term, server>> that became leader
    committed,         \* the entries ever committed, in log order
    ops, restarts, snapshots

persistent == <<currentTerm, votedFor, logs, lastIncludedIndex,
                lastIncludedTerm, snapshot>>
leadership == <<nextIndex, matchIndex>>
service    == <<applyCh, applied, appliedIndex>>
counters   == <<ops, restarts, snapshots>>
vars == <<persistent, persister, state, commitIndex, lastApplied, leadership,
          pendingSnapshot, dead, votesGranted, service, rpcs,
          votesCast, elected, committed, counters>>

Follower  == "Follower"
Candidate == "Candidate"
Leader    == "Leader"

(***************************************************************************)
(* Log indices.  logs[i][1] is the dummy entry that stands for everything  *)
(* the snapshot covers; Go's offset k is position k + 1 here.              *)
(***************************************************************************)
firstLogIndex(i) == lastIncludedIndex[i]
lastLogIndex(i) == lastIncludedIndex[i] + Len(logs[i]) - 1
toOffset(i, index) == index - lastIncludedIndex[i]
containsIndex(i, index) ==
    index >= lastIncludedIndex[i] /\ index <= lastLogIndex(i)
termAt(i, index) == logs[i][toOffset(i, index) + 1].Term
lastLogTerm(i) == logs[i][Len(logs[i])].Term

\* The last index at which log i has an entry of this term, -1 if there is none.
lastIndexOfTerm(i, term) ==
    LET offsets == {k \in 1..Len(logs[i]) : logs[i][k].Term = term}
    IN  IF offsets = {} THEN -1 ELSE lastIncludedIndex[i] + Max(offsets) - 1

\* Mutant: half of the peers is taken for a majority.
IsMajorityHalf(n) == n >= Cardinality(Server) \div 2

IsMajority(n) == n >= Cardinality(Server) \div 2 + 1

(***************************************************************************)
(* persist() and Persister.Save: metadata, log and snapshot in one atomic  *)
(* replacement.                                                            *)
(***************************************************************************)
PersistentState(i) ==
    [currentTerm |-> currentTerm[i], votedFor |-> votedFor[i],
     logs |-> logs[i], lastIncludedIndex |-> lastIncludedIndex[i],
     lastIncludedTerm |-> lastIncludedTerm[i], snapshot |-> snapshot[i]]

\* Mutant: the state is encoded before the fields are updated.
persistTooEarly(i) == persister' = [persister EXCEPT ![i] = PersistentState(i)]

persist(i) == persister' = [persister EXCEPT ![i] = PersistentState(i)']

(***************************************************************************)
(* Role changes.                                                           *)
(***************************************************************************)
becomeFollower(i, term) ==
    /\ currentTerm' = [currentTerm EXCEPT ![i] = IF term > @ THEN term ELSE @]
    /\ votedFor' = [votedFor EXCEPT ![i] =
                       IF term > currentTerm[i] THEN None ELSE @]
    /\ state' = [state EXCEPT ![i] = Follower]

\* A reply of a higher term ends the leadership or candidacy of i.
stepDown(i, term) ==
    /\ becomeFollower(i, term)
    /\ UNCHANGED <<logs, lastIncludedIndex, lastIncludedTerm, snapshot>>
    /\ persist(i)

becomeLeader(i) ==
    /\ state' = [state EXCEPT ![i] = Leader]
    /\ nextIndex' = [nextIndex EXCEPT ![i] =
                        [p \in Server |-> lastLogIndex(i) + 1]]
    /\ matchIndex' = [matchIndex EXCEPT ![i] =
                        [p \in Server |-> IF p = i THEN lastLogIndex(i) ELSE 0]]
    /\ elected' = elected \cup {<<currentTerm'[i], i>>}

(***************************************************************************)
(* Calls.  labrpc may lose or delay a request or its reply and never       *)
(* duplicates one.  A request whose caller was killed (live = FALSE) can   *)
(* still reach its target, but its reply goes nowhere.                     *)
(***************************************************************************)
IsRequest(m) ==
    m.type \in {"RequestVote", "AppendEntries", "Heartbeat", "InstallSnapshot"}

Answer(request, reply) ==
    rpcs' = (rpcs \ {request}) \cup (IF request.live THEN {reply} ELSE {})

\* Bound: a step that issues n calls leaves at most MaxInFlight of them.
MayCall(n) == Cardinality(rpcs) + n <= MaxInFlight

DropRPC(m) ==
    /\ rpcs' = rpcs \ {m}
    /\ UNCHANGED <<persistent, persister, state, commitIndex, lastApplied,
                   leadership, pendingSnapshot, dead, votesGranted, service,
                   votesCast, elected, committed, counters>>

(***************************************************************************)
(* Elections.                                                              *)
(***************************************************************************)
\* reach: the peers whose request is not lost on the way out.
startElection(i, reach) ==
    /\ ~dead[i] /\ state[i] # Leader
    /\ i \in Timers /\ currentTerm[i] < MaxTerm
    /\ reach \subseteq Electors /\ MayCall(Cardinality(reach))
    /\ currentTerm' = [currentTerm EXCEPT ![i] = @ + 1]
    /\ votedFor' = [votedFor EXCEPT ![i] = i]
    /\ UNCHANGED <<logs, lastIncludedIndex, lastIncludedTerm, snapshot>>
    /\ persist(i)
    /\ votesGranted' = [votesGranted EXCEPT ![i] = {i}]
    /\ votesCast' = votesCast \cup {<<currentTerm[i] + 1, i, i>>}
    /\ IF IsMajority(1)
       THEN becomeLeader(i) /\ UNCHANGED rpcs
       ELSE /\ state' = [state EXCEPT ![i] = Candidate]
            /\ rpcs' = rpcs \cup
                 {[type |-> "RequestVote", from |-> i, to |-> p, live |-> TRUE,
                   Term |-> currentTerm[i] + 1,
                   LastLogIndex |-> lastLogIndex(i),
                   LastLogTerm |-> lastLogTerm(i)] : p \in reach}
            /\ UNCHANGED <<leadership, elected>>
    /\ UNCHANGED <<commitIndex, lastApplied, pendingSnapshot, dead, service,
                   committed, counters>>

UpToDate(m, i) ==
    \/ m.LastLogTerm > lastLogTerm(i)
    \/ m.LastLogTerm = lastLogTerm(i) /\ m.LastLogIndex >= lastLogIndex(i)

\* Mutant: a vote already given in this term is ignored.
canVoteAgain(m, i) == m.Term >= currentTerm[i]

canVote(m, i) ==
    m.Term > currentTerm[i] \/ votedFor[i] = None \/ votedFor[i] = m.from

RequestVote(m) ==
    LET i == m.to
        stale   == dead[i] \/ m.Term < currentTerm[i]
        granted == ~stale /\ canVote(m, i) /\ UpToDate(m, i)
        higher  == ~stale /\ m.Term > currentTerm[i]
    IN
    /\ m.type = "RequestVote"
    /\ currentTerm' = [currentTerm EXCEPT ![i] = IF higher THEN m.Term ELSE @]
    /\ votedFor' = [votedFor EXCEPT ![i] =
                       IF granted THEN m.from ELSE IF higher THEN None ELSE @]
    /\ state' = [state EXCEPT ![i] = IF higher THEN Follower ELSE @]
    /\ UNCHANGED <<logs, lastIncludedIndex, lastIncludedTerm, snapshot>>
    /\ IF higher \/ granted THEN persist(i) ELSE UNCHANGED persister
    /\ votesCast' = votesCast \cup
                      (IF granted THEN {<<m.Term, i, m.from>>} ELSE {})
    /\ Answer(m, [type |-> "RequestVoteReply", from |-> i, to |-> m.from,
                  Term |-> currentTerm'[i], VoteGranted |-> granted,
                  term |-> m.Term])
    /\ UNCHANGED <<commitIndex, lastApplied, leadership, pendingSnapshot, dead,
                   votesGranted, service, elected, committed, counters>>

\* The reply half of startElection's goroutine; m.term is the captured term.
RequestVoteReply(m) ==
    LET i == m.to IN
    /\ m.type = "RequestVoteReply"
    /\ rpcs' = rpcs \ {m}
    /\ \/ /\ m.Term > currentTerm[i]
          /\ stepDown(i, m.Term)
          /\ UNCHANGED <<leadership, votesGranted, elected>>
       \/ /\ m.Term <= currentTerm[i]
          /\ \/ state[i] # Candidate
             \/ currentTerm[i] # m.term
             \/ ~m.VoteGranted
          /\ UNCHANGED <<persistent, persister, state, leadership,
                         votesGranted, elected>>
       \/ /\ m.Term <= currentTerm[i]
          /\ state[i] = Candidate /\ currentTerm[i] = m.term /\ m.VoteGranted
          /\ votesGranted' = [votesGranted EXCEPT ![i] = @ \cup {m.from}]
          /\ UNCHANGED <<persistent, persister>>
          /\ IF IsMajority(Cardinality(votesGranted'[i]))
             THEN becomeLeader(i)
             ELSE UNCHANGED <<state, leadership, elected>>
    /\ UNCHANGED <<commitIndex, lastApplied, pendingSnapshot, dead, service,
                   votesCast, committed, counters>>

(***************************************************************************)
(* Replication, leader side.  Replicate is the locked part of one round of *)
(* replicateUntilStable (worker or rescue goroutine); Heartbeat is the     *)
(* empty AppendEntries sent while a worker waits for an old reply.         *)
(***************************************************************************)
ReplicationArgs(i, p) ==
    LET next == nextIndex[i][p]
        prev == next - 1
    IN  IF next <= lastIncludedIndex[i]
        THEN [type |-> "InstallSnapshot", from |-> i, to |-> p, live |-> TRUE,
              Term |-> currentTerm[i],
              LastIncludedIndex |-> lastIncludedIndex[i],
              LastIncludedTerm |-> lastIncludedTerm[i],
              Data |-> snapshot[i]]
        ELSE [type |-> "AppendEntries", from |-> i, to |-> p, live |-> TRUE,
              Term |-> currentTerm[i],
              PrevLogIndex |-> prev, PrevLogTerm |-> termAt(i, prev),
              Entries |-> SubSeq(logs[i], toOffset(i, next) + 1, Len(logs[i])),
              LeaderCommit |-> commitIndex[i]]

Replicate(i, p) ==
    /\ p \in Workers /\ MayCall(1)
    /\ ~dead[i] /\ state[i] = Leader /\ p # i
    /\ nextIndex[i][p] <= lastIncludedIndex[i]
         \/ containsIndex(i, nextIndex[i][p] - 1)
    /\ rpcs' = rpcs \cup {ReplicationArgs(i, p)}
    /\ UNCHANGED <<persistent, persister, state, commitIndex, lastApplied,
                   leadership, pendingSnapshot, dead, votesGranted, service,
                   votesCast, elected, committed, counters>>

Heartbeat(i, p) ==
    /\ p \in Busy /\ MayCall(1)
    /\ ~dead[i] /\ state[i] = Leader /\ p # i
    /\ rpcs' = rpcs \cup
         {[type |-> "Heartbeat", from |-> i, to |-> p, live |-> TRUE,
           Term |-> currentTerm[i],
           PrevLogIndex |-> lastLogIndex(i), PrevLogTerm |-> lastLogTerm(i),
           Entries |-> <<>>, LeaderCommit |-> commitIndex[i]]}
    /\ UNCHANGED <<persistent, persister, state, commitIndex, lastApplied,
                   leadership, pendingSnapshot, dead, votesGranted, service,
                   votesCast, elected, committed, counters>>

(***************************************************************************)
(* Replication, follower side.                                             *)
(***************************************************************************)

\* Mutant: the search for the run stops one index too late.
firstIndexOfRunOffByOne(i, index) ==
    1 + Min({k \in firstLogIndex(i)..index :
                \A q \in k..index : termAt(i, q) = termAt(i, index)})

\* The first index of the run of equal terms that ends at index.
firstIndexOfRun(i, index) ==
    Min({k \in firstLogIndex(i)..index :
            \A q \in k..index : termAt(i, q) = termAt(i, index)})

\* The outcome of the PrevLog checks as the reply reports it.
PrevLogCheck(i, m) ==
    IF m.PrevLogIndex > lastLogIndex(i)
    THEN [Success |-> FALSE, ConflictTerm |-> -1,
          ConflictIndex |-> lastLogIndex(i) + 1]
    ELSE IF m.PrevLogIndex < firstLogIndex(i)
    THEN [Success |-> FALSE, ConflictTerm |-> -1,
          ConflictIndex |-> firstLogIndex(i) + 1]
    ELSE IF termAt(i, m.PrevLogIndex) # m.PrevLogTerm
    THEN [Success |-> FALSE, ConflictTerm |-> termAt(i, m.PrevLogIndex),
          ConflictIndex |-> firstIndexOfRun(i, m.PrevLogIndex)]
    ELSE [Success |-> TRUE, ConflictTerm |-> -1, ConflictIndex |-> 0]

\* Mutant: whatever follows prev is replaced, conflict or not.
mergedLogTruncating(i, prev, entries) ==
    SubSeq(logs[i], 1, toOffset(i, prev) + 1) \o entries

\* Mutant: all of the entries are appended after the part that agrees, and not
\* only those from the first new one on.
mergedLogWhole(i, prev, entries) ==
    LET new == {k \in 1..Len(entries) :
                  \/ prev + k > lastLogIndex(i)
                  \/ termAt(i, prev + k) # entries[k].Term}
    IN  IF new = {} THEN logs[i]
        ELSE SubSeq(logs[i], 1, toOffset(i, prev + Min(new))) \o entries

\* Log i after the entries that follow prev were merged into it: nothing is
\* cut unless an entry really conflicts.
mergedLog(i, prev, entries) ==
    LET new == {k \in 1..Len(entries) :
                  \/ prev + k > lastLogIndex(i)
                  \/ termAt(i, prev + k) # entries[k].Term}
        k == Min(new)
    IN  IF new = {} THEN logs[i]
        ELSE SubSeq(logs[i], 1, toOffset(i, prev + k))
               \o SubSeq(entries, k, Len(entries))

\* Mutant: the leader's commit index is adopted before the PrevLog checks.
followerCommitUnchecked(i, m, success) ==
    Max({commitIndex[i],
         Min({m.LeaderCommit, m.PrevLogIndex + Len(m.Entries)})})

\* commitIndex of i after an AppendEntries whose PrevLog checks had this result.
followerCommit(i, m, success) ==
    IF success
    THEN Max({commitIndex[i],
              Min({m.LeaderCommit, m.PrevLogIndex + Len(m.Entries)})})
    ELSE commitIndex[i]

AppendReply(m, term, result, stopped) ==
    IF m.type = "Heartbeat"
    THEN [type |-> "HeartbeatReply", from |-> m.to, to |-> m.from,
          Term |-> term]
    ELSE [type |-> "AppendEntriesReply", from |-> m.to, to |-> m.from,
          Term |-> term, Stopped |-> stopped, Success |-> result.Success,
          ConflictTerm |-> result.ConflictTerm,
          ConflictIndex |-> result.ConflictIndex, term |-> m.Term,
          PrevLogIndex |-> m.PrevLogIndex, Count |-> Len(m.Entries)]

Rejected == [Success |-> FALSE, ConflictTerm |-> -1, ConflictIndex |-> 0]

AppendEntries(m) ==
    LET i == m.to
        result == PrevLogCheck(i, m)
        newLog == IF result.Success
                  THEN mergedLog(i, m.PrevLogIndex, m.Entries) ELSE logs[i]
    IN
    /\ m.type \in {"AppendEntries", "Heartbeat"}
    /\ \/ /\ dead[i] \/ m.Term < currentTerm[i]
          /\ Answer(m, AppendReply(m, currentTerm[i], Rejected, dead[i]))
          /\ UNCHANGED <<persistent, persister, state, commitIndex>>
       \/ /\ ~dead[i] /\ m.Term >= currentTerm[i]
          /\ becomeFollower(i, m.Term)
          /\ logs' = [logs EXCEPT ![i] = newLog]
          /\ commitIndex' = [commitIndex EXCEPT ![i] =
                followerCommit(i, m, result.Success)]
          /\ UNCHANGED <<lastIncludedIndex, lastIncludedTerm, snapshot>>
          /\ IF m.Term > currentTerm[i] \/ newLog # logs[i]
             THEN persist(i) ELSE UNCHANGED persister
          /\ Answer(m, AppendReply(m, m.Term, result, FALSE))
    /\ UNCHANGED <<lastApplied, leadership, pendingSnapshot, dead,
                   votesGranted, service, votesCast, elected, committed,
                   counters>>

\* The log after a snapshot up to (index, term): the suffix survives only if
\* the old log agrees with the snapshot at the boundary.
compactedLog(i, index, term) ==
    <<[Term |-> term, Command |-> None]>> \o
    (IF containsIndex(i, index) /\ termAt(i, index) = term
     THEN SubSeq(logs[i], toOffset(i, index) + 2, Len(logs[i])) ELSE <<>>)

SnapshotReply(m, term, stopped) ==
    [type |-> "InstallSnapshotReply", from |-> m.to, to |-> m.from,
     Term |-> term, Stopped |-> stopped, term |-> m.Term,
     LastIncludedIndex |-> m.LastIncludedIndex]

\* Mutant: the snapshot is compared with the last one, not with commitIndex.
isNewerThanSnapshot(i, m) == m.LastIncludedIndex > lastIncludedIndex[i]

\* A snapshot the log has committed past is ignored.
isNewer(i, m) == m.LastIncludedIndex > commitIndex[i]

InstallSnapshot(m) ==
    LET i == m.to
        install == isNewer(i, m)
    IN
    /\ m.type = "InstallSnapshot"
    /\ \/ /\ dead[i] \/ m.Term < currentTerm[i]
          /\ Answer(m, SnapshotReply(m, currentTerm[i], dead[i]))
          /\ UNCHANGED <<persistent, persister, state, commitIndex,
                         lastApplied, pendingSnapshot>>
       \/ /\ ~dead[i] /\ m.Term >= currentTerm[i]
          /\ becomeFollower(i, m.Term)
          /\ IF install
             THEN /\ logs' = [logs EXCEPT ![i] =
                       compactedLog(i, m.LastIncludedIndex, m.LastIncludedTerm)]
                  /\ lastIncludedIndex' = [lastIncludedIndex EXCEPT ![i] = m.LastIncludedIndex]
                  /\ lastIncludedTerm' = [lastIncludedTerm EXCEPT ![i] = m.LastIncludedTerm]
                  /\ snapshot' = [snapshot EXCEPT ![i] = m.Data]
                  /\ commitIndex' = [commitIndex EXCEPT ![i] = m.LastIncludedIndex]
                  /\ lastApplied' = [lastApplied EXCEPT ![i] = m.LastIncludedIndex]
                  /\ pendingSnapshot' = [pendingSnapshot EXCEPT ![i] =
                       [Index |-> m.LastIncludedIndex, Data |-> m.Data]]
             ELSE UNCHANGED <<logs, lastIncludedIndex, lastIncludedTerm,
                              snapshot, commitIndex, lastApplied,
                              pendingSnapshot>>
          /\ IF m.Term > currentTerm[i] \/ install
             THEN persist(i) ELSE UNCHANGED persister
          /\ Answer(m, SnapshotReply(m, m.Term, FALSE))
    /\ UNCHANGED <<leadership, dead, votesGranted, service, votesCast,
                   elected, committed, counters>>

(***************************************************************************)
(* Replies of the replication calls, and commitment.                       *)
(***************************************************************************)

\* Mutant: an entry of an older term is committed by counting replicas.
advanceCommitIndexAnyTerm(i, log, match) ==
    LET base == lastIncludedIndex[i] - 1
        committable ==
          {n \in (commitIndex[i] + 1)..(base + Len(log)) :
              IsMajority(Cardinality({p \in Server : match[p] >= n}))}
    IN  IF committable = {} THEN commitIndex[i] ELSE Max(committable)

\* commitIndex of leader i with this log and these match indices: the highest
\* entry of the current term that a majority stores.
advanceCommitIndex(i, log, match) ==
    LET base == lastIncludedIndex[i] - 1
        committable ==
          {n \in (commitIndex[i] + 1)..(base + Len(log)) :
              /\ n > base
              /\ log[n - base].Term = currentTerm[i]
              /\ IsMajority(Cardinality({p \in Server : match[p] >= n}))}
    IN  IF committable = {} THEN commitIndex[i] ELSE Max(committable)

\* History: the log prefix of i up to its new commit index is committed.
RecordCommit(i, log, index) ==
    committed' = IF index <= Len(committed) THEN committed
                 ELSE committed \o SubSeq(log,
                        Len(committed) + 2 - lastIncludedIndex[i],
                        index + 1 - lastIncludedIndex[i])

\* nextIndex after the peer confirmed everything up to through.
nextAfterSuccess(i, p, through) == Max({nextIndex[i][p], through + 1})

\* nextIndex after a conflict reply: the follower's hint, or just past the
\* leader's last entry of the conflicting term, kept within bounds.
backedOffNext(i, p, m) ==
    LET own  == lastIndexOfTerm(i, m.ConflictTerm)
        hint == IF m.ConflictTerm # -1 /\ own >= 0 THEN own + 1
                ELSE m.ConflictIndex
        atLeast1 == Max({hint, 1})
        atMostEnd == Min({atLeast1, lastLogIndex(i) + 1})
    IN  Max({atMostEnd, matchIndex[i][p] + 1})

\* The reply is of use: i still leads the term it sent the request in.
Expected(i, m) ==
    m.Term <= currentTerm[i] /\ state[i] = Leader /\ currentTerm[i] = m.term

AppendEntriesReply(m) ==
    LET i == m.to
        p == m.from
        through == m.PrevLogIndex + m.Count
    IN
    /\ m.type = "AppendEntriesReply"
    /\ rpcs' = rpcs \ {m}
    /\ \/ /\ ~m.Stopped /\ m.Term > currentTerm[i]
          /\ stepDown(i, m.Term)
          /\ UNCHANGED <<leadership, commitIndex, committed>>
       \/ /\ \/ m.Stopped
             \/ m.Term <= currentTerm[i] /\ ~Expected(i, m)
             \/ /\ Expected(i, m) /\ ~m.Success
                /\ nextIndex[i][p] # m.PrevLogIndex + 1
          /\ UNCHANGED <<persistent, persister, state, leadership,
                         commitIndex, committed>>
       \/ /\ ~m.Stopped /\ Expected(i, m) /\ m.Success
          /\ matchIndex' = [matchIndex EXCEPT ![i][p] = Max({@, through})]
          /\ nextIndex' = [nextIndex EXCEPT ![i][p] = nextAfterSuccess(i, p, through)]
          /\ commitIndex' = [commitIndex EXCEPT ![i] =
                IF through > matchIndex[i][p]
                THEN advanceCommitIndex(i, logs[i], matchIndex'[i]) ELSE @]
          /\ RecordCommit(i, logs[i], commitIndex'[i])
          /\ UNCHANGED <<persistent, persister, state>>
       \/ /\ ~m.Stopped /\ Expected(i, m) /\ ~m.Success
          /\ nextIndex[i][p] = m.PrevLogIndex + 1
          /\ nextIndex' = [nextIndex EXCEPT ![i][p] = backedOffNext(i, p, m)]
          /\ UNCHANGED <<persistent, persister, state, matchIndex,
                         commitIndex, committed>>
    /\ UNCHANGED <<lastApplied, pendingSnapshot, dead, votesGranted, service,
                   votesCast, elected, counters>>

HeartbeatReply(m) ==
    LET i == m.to IN
    /\ m.type = "HeartbeatReply"
    /\ rpcs' = rpcs \ {m}
    /\ \/ m.Term > currentTerm[i] /\ stepDown(i, m.Term)
       \/ m.Term <= currentTerm[i] /\ UNCHANGED <<persistent, persister, state>>
    /\ UNCHANGED <<commitIndex, lastApplied, leadership, pendingSnapshot, dead,
                   votesGranted, service, votesCast, elected, committed,
                   counters>>

InstallSnapshotReply(m) ==
    LET i == m.to
        p == m.from
    IN
    /\ m.type = "InstallSnapshotReply"
    /\ rpcs' = rpcs \ {m}
    /\ \/ /\ ~m.Stopped /\ m.Term > currentTerm[i]
          /\ stepDown(i, m.Term)
          /\ UNCHANGED leadership
       \/ /\ m.Stopped \/ (m.Term <= currentTerm[i] /\ ~Expected(i, m))
          /\ UNCHANGED <<persistent, persister, state, leadership>>
       \/ /\ ~m.Stopped /\ Expected(i, m)
          /\ matchIndex' = [matchIndex EXCEPT ![i][p] = Max({@, m.LastIncludedIndex})]
          /\ nextIndex' = [nextIndex EXCEPT ![i][p] =
                            nextAfterSuccess(i, p, m.LastIncludedIndex)]
          /\ UNCHANGED <<persistent, persister, state>>
    /\ UNCHANGED <<commitIndex, lastApplied, pendingSnapshot, dead,
                   votesGranted, service, votesCast, elected, committed,
                   counters>>

(***************************************************************************)
(* The service's side: submitting, applying, compacting.                   *)
(***************************************************************************)

\* Every command is a fresh one, as the operations the RSM wraps are; the
\* commands are numbered in the order in which they were submitted.
Start(i) ==
    LET index == lastLogIndex(i) + 1
        log   == Append(logs[i], [Term |-> currentTerm[i], Command |-> ops + 1])
    IN
    /\ ops < MaxOps
    /\ ~dead[i] /\ state[i] = Leader
    /\ ops' = ops + 1
    /\ logs' = [logs EXCEPT ![i] = log]
    /\ UNCHANGED <<currentTerm, votedFor, lastIncludedIndex, lastIncludedTerm,
                   snapshot>>
    /\ persist(i)
    /\ matchIndex' = [matchIndex EXCEPT ![i][i] = index]
    /\ nextIndex' = [nextIndex EXCEPT ![i][i] = index + 1]
    /\ commitIndex' = [commitIndex EXCEPT ![i] =
          IF Cardinality(Server) = 1
          THEN advanceCommitIndex(i, log, matchIndex'[i]) ELSE @]
    /\ RecordCommit(i, log, commitIndex'[i])
    /\ UNCHANGED <<state, lastApplied, pendingSnapshot, dead, votesGranted,
                   service, rpcs, votesCast, elected, restarts, snapshots>>

\* Mutant: the last entry handed out is handed out again.
firstUnclaimedInclusive(i) == Max({lastApplied[i], lastIncludedIndex[i] + 1})

\* The first index the applier has not handed out yet.
firstUnclaimed(i) == Max({lastApplied[i], lastIncludedIndex[i]}) + 1

\* The applier goroutine, idle, claims the pending snapshot or, if there is
\* none, every committed entry that was not claimed yet.  An index outside the
\* log would panic here; ServiceAppliesCommittedPrefix shows that there is none.
applier(i) ==
    /\ i \in Appliers /\ ~dead[i] /\ applyCh[i] = <<>>
    /\ \/ /\ pendingSnapshot[i] # None
          /\ applyCh' = [applyCh EXCEPT ![i] =
                <<[SnapshotValid |-> TRUE, Index |-> pendingSnapshot[i].Index,
                   Data |-> pendingSnapshot[i].Data]>>]
          /\ lastApplied' = [lastApplied EXCEPT ![i] =
                Max({@, pendingSnapshot[i].Index})]
          /\ pendingSnapshot' = [pendingSnapshot EXCEPT ![i] = None]
       \/ /\ pendingSnapshot[i] = None /\ lastApplied[i] < commitIndex[i]
          /\ LET first == firstUnclaimed(i) IN
             /\ \A index \in first..commitIndex[i] : containsIndex(i, index)
             /\ applyCh' = [applyCh EXCEPT ![i] =
                  [k \in 1..(commitIndex[i] - first + 1) |->
                    [SnapshotValid |-> FALSE, Index |-> first + k - 1,
                     Data |-> <<logs[i][toOffset(i, first + k - 1) + 1].Command>>]]]
          /\ lastApplied' = [lastApplied EXCEPT ![i] = commitIndex[i]]
          /\ UNCHANGED pendingSnapshot
    /\ UNCHANGED <<persistent, persister, state, commitIndex, leadership, dead,
                   votesGranted, applied, appliedIndex, rpcs, votesCast,
                   elected, committed, counters>>

\* The RSM consumes one message of the channel: DoOp or Restore.
Deliver(i) ==
    /\ i \in Appliers /\ ~dead[i] /\ applyCh[i] # <<>>
    /\ LET message == Head(applyCh[i]) IN
       /\ applied' = [applied EXCEPT ![i] =
             IF message.SnapshotValid THEN message.Data ELSE @ \o message.Data]
       /\ appliedIndex' = [appliedIndex EXCEPT ![i] = message.Index]
    /\ applyCh' = [applyCh EXCEPT ![i] = Tail(@)]
    /\ UNCHANGED <<persistent, persister, state, commitIndex, lastApplied,
                   leadership, pendingSnapshot, dead, votesGranted, rpcs,
                   votesCast, elected, committed, counters>>

\* Mutant: the index is Raft's own apply position, not the service's.
snapshotIndexClaimed(i) == lastApplied[i]

\* The index the RSM passes: that of the last message it consumed.
snapshotIndex(i) == appliedIndex[i]

\* The RSM hands Raft a snapshot of its state between two messages.
Snapshot(i) ==
    LET index == snapshotIndex(i)
        term  == termAt(i, index)
    IN
    /\ snapshots < MaxSnapshots
    /\ ~dead[i]
    /\ index > lastIncludedIndex[i]
    /\ index <= lastApplied[i] /\ index <= lastLogIndex(i)
    /\ snapshots' = snapshots + 1
    /\ logs' = [logs EXCEPT ![i] = compactedLog(i, index, term)]
    /\ lastIncludedIndex' = [lastIncludedIndex EXCEPT ![i] = index]
    /\ lastIncludedTerm' = [lastIncludedTerm EXCEPT ![i] = term]
    /\ snapshot' = [snapshot EXCEPT ![i] = applied[i]]
    /\ UNCHANGED <<currentTerm, votedFor>>
    /\ persist(i)
    /\ UNCHANGED <<state, commitIndex, lastApplied, leadership,
                   pendingSnapshot, dead, votesGranted, service, rpcs,
                   votesCast, elected, committed, ops, restarts>>

(***************************************************************************)
(* Crash and recovery.                                                     *)
(***************************************************************************)

\* Kill ends the goroutines of i; the calls they wait for are abandoned.
Kill(i) ==
    /\ i \in Crashing /\ ~dead[i] /\ restarts < MaxRestarts
    /\ restarts' = restarts + 1
    /\ dead' = [dead EXCEPT ![i] = TRUE]
    /\ state' = [state EXCEPT ![i] = Follower]
    /\ rpcs' = {IF IsRequest(m) /\ m.from = i
                THEN [m EXCEPT !.live = FALSE] ELSE m :
                  m \in {r \in rpcs : IsRequest(r) \/ r.to # i}}
    /\ UNCHANGED <<persistent, persister, commitIndex, lastApplied, leadership,
                   pendingSnapshot, votesGranted, service, votesCast, elected,
                   committed, ops, snapshots>>

\* The fields readPersist and ReadSnapshot restore from the disk.
readPersist(i, disk) ==
    /\ currentTerm' = [currentTerm EXCEPT ![i] = disk.currentTerm]
    /\ votedFor' = [votedFor EXCEPT ![i] = disk.votedFor]
    /\ logs' = [logs EXCEPT ![i] = disk.logs]
    /\ lastIncludedIndex' = [lastIncludedIndex EXCEPT ![i] = disk.lastIncludedIndex]
    /\ lastIncludedTerm' = [lastIncludedTerm EXCEPT ![i] = disk.lastIncludedTerm]
    /\ snapshot' = [snapshot EXCEPT ![i] = disk.snapshot]

\* MakeRSM and Make: the service restarts from the snapshot, Raft from the
\* persisted state; everything else is lost.
Make(i) ==
    /\ dead[i]
    /\ dead' = [dead EXCEPT ![i] = FALSE]
    /\ readPersist(i, persister[i])
    /\ commitIndex' = [commitIndex EXCEPT ![i] = persister[i].lastIncludedIndex]
    /\ lastApplied' = [lastApplied EXCEPT ![i] = persister[i].lastIncludedIndex]
    /\ nextIndex' = [nextIndex EXCEPT ![i] = [p \in Server |-> 1]]
    /\ matchIndex' = [matchIndex EXCEPT ![i] = [p \in Server |-> 0]]
    /\ pendingSnapshot' = [pendingSnapshot EXCEPT ![i] = None]
    /\ votesGranted' = [votesGranted EXCEPT ![i] = {}]
    /\ applyCh' = [applyCh EXCEPT ![i] = <<>>]
    /\ applied' = [applied EXCEPT ![i] = persister[i].snapshot]
    /\ appliedIndex' = [appliedIndex EXCEPT ![i] = persister[i].lastIncludedIndex]
    /\ UNCHANGED <<persister, state, rpcs, votesCast, elected, committed,
                   counters>>

(***************************************************************************)
(* The specification.                                                      *)
(***************************************************************************)
EmptyLog == <<[Term |-> 0, Command |-> None]>>

\* Every server was made with an empty persister.
Init ==
    /\ currentTerm = [i \in Server |-> 0]
    /\ votedFor = [i \in Server |-> None]
    /\ logs = [i \in Server |-> EmptyLog]
    /\ lastIncludedIndex = [i \in Server |-> 0]
    /\ lastIncludedTerm = [i \in Server |-> 0]
    /\ snapshot = [i \in Server |-> <<>>]
    /\ persister = [i \in Server |-> PersistentState(i)]
    /\ state = [i \in Server |-> Follower]
    /\ commitIndex = [i \in Server |-> 0]
    /\ lastApplied = [i \in Server |-> 0]
    /\ nextIndex = [i \in Server |-> [p \in Server |-> 1]]
    /\ matchIndex = [i \in Server |-> [p \in Server |-> 0]]
    /\ pendingSnapshot = [i \in Server |-> None]
    /\ dead = [i \in Server |-> FALSE]
    /\ votesGranted = [i \in Server |-> {}]
    /\ applyCh = [i \in Server |-> <<>>]
    /\ applied = [i \in Server |-> <<>>]
    /\ appliedIndex = [i \in Server |-> 0]
    /\ rpcs = {}
    /\ votesCast = {} /\ elected = {} /\ committed = <<>>
    /\ ops = 0 /\ restarts = 0 /\ snapshots = 0

Handle(m) ==
    \/ RequestVote(m)
    \/ RequestVoteReply(m)
    \/ AppendEntries(m)
    \/ AppendEntriesReply(m)
    \/ HeartbeatReply(m)
    \/ InstallSnapshot(m)
    \/ InstallSnapshotReply(m)
    \/ DropRPC(m)

Next ==
    \/ \E i \in Server :
         \/ \E reach \in SUBSET (Server \ {i}) : startElection(i, reach)
         \/ Start(i)
         \/ applier(i)
         \/ Deliver(i)
         \/ Snapshot(i)
         \/ Kill(i)
         \/ Make(i)
         \/ \E p \in Server : Replicate(i, p) \/ Heartbeat(i, p)
    \/ \E m \in rpcs : Handle(m)

Spec == Init /\ [][Next]_vars
-----------------------------------------------------------------------------
(***************************************************************************)
(* Types.                                                                  *)
(***************************************************************************)
Entry   == [Term : Nat, Command : Nat \cup {None}]
Log     == Seq(Entry) \ {<<>>}
Image   == Seq(Nat \cup {None})
ApplyMsg == [SnapshotValid : BOOLEAN, Index : Nat, Data : Image]
Disk    == [currentTerm : Nat, votedFor : Server \cup {None}, logs : Log,
            lastIncludedIndex : Nat, lastIncludedTerm : Nat, snapshot : Image]

\* No snapshot to deliver is told from any snapshot, as nil is in the code.
ASSUME PendingAssumption == None \notin [Index : Nat, Data : Image]

RequestVoteArgs ==
    [type : {"RequestVote"}, from : Server, to : Server, live : BOOLEAN,
     Term : Nat, LastLogIndex : Nat, LastLogTerm : Nat]
RequestVoteReplies ==
    [type : {"RequestVoteReply"}, from : Server, to : Server, Term : Nat,
     VoteGranted : BOOLEAN, term : Nat]
AppendEntriesArgs ==
    [type : {"AppendEntries", "Heartbeat"}, from : Server, to : Server,
     live : BOOLEAN, Term : Nat, PrevLogIndex : Nat, PrevLogTerm : Nat,
     Entries : Seq(Entry), LeaderCommit : Nat]
AppendEntriesReplies ==
    [type : {"AppendEntriesReply"}, from : Server, to : Server, Term : Nat,
     Stopped : BOOLEAN, Success : BOOLEAN, ConflictTerm : Nat \cup {-1},
     ConflictIndex : Nat, term : Nat, PrevLogIndex : Nat, Count : Nat]
HeartbeatReplies ==
    [type : {"HeartbeatReply"}, from : Server, to : Server, Term : Nat]
InstallSnapshotArgs ==
    [type : {"InstallSnapshot"}, from : Server, to : Server, live : BOOLEAN,
     Term : Nat, LastIncludedIndex : Nat, LastIncludedTerm : Nat, Data : Image]
InstallSnapshotReplies ==
    [type : {"InstallSnapshotReply"}, from : Server, to : Server, Term : Nat,
     Stopped : BOOLEAN, term : Nat, LastIncludedIndex : Nat]
RPC == RequestVoteArgs \cup RequestVoteReplies \cup AppendEntriesArgs
         \cup AppendEntriesReplies \cup HeartbeatReplies
         \cup InstallSnapshotArgs \cup InstallSnapshotReplies

\* Every variable has the type of the Go field it stands for.
TypeOK ==
    /\ currentTerm \in [Server -> Nat]
    /\ votedFor \in [Server -> Server \cup {None}]
    /\ logs \in [Server -> Log]
    /\ lastIncludedIndex \in [Server -> Nat]
    /\ lastIncludedTerm \in [Server -> Nat]
    /\ snapshot \in [Server -> Image]
    /\ persister \in [Server -> Disk]
    /\ state \in [Server -> {Follower, Candidate, Leader}]
    /\ commitIndex \in [Server -> Nat]
    /\ lastApplied \in [Server -> Nat]
    /\ nextIndex \in [Server -> [Server -> Nat]]
    /\ matchIndex \in [Server -> [Server -> Nat]]
    /\ pendingSnapshot \in [Server -> [Index : Nat, Data : Image] \cup {None}]
    /\ dead \in [Server -> BOOLEAN]
    /\ votesGranted \in [Server -> SUBSET Server]
    /\ applyCh \in [Server -> Seq(ApplyMsg)]
    /\ applied \in [Server -> Image]
    /\ appliedIndex \in [Server -> Nat]
    /\ rpcs \subseteq RPC
    /\ votesCast \subseteq Nat \X Server \X Server
    /\ elected \subseteq Nat \X Server
    /\ ops \in Nat /\ restarts \in Nat /\ snapshots \in Nat
-----------------------------------------------------------------------------
(***************************************************************************)
(* Safety.                                                                 *)
(***************************************************************************)

\* No critical section leaves memory ahead of the disk: whatever a handler
\* promised in a reply survives a crash right after it.
PersistBeforeReply == \A i \in Server : persister[i] = PersistentState(i)

\* RequestVote and startElection: no server ever votes for two candidates in
\* one term, not even across crashes.
OneVotePerTerm ==
    \A a, b \in votesCast : a[1] = b[1] /\ a[2] = b[2] => a[3] = b[3]

\* At most one server is ever elected leader of a term.
ElectionSafety ==
    \A a, b \in elected : a[1] = b[1] => a[2] = b[2]

entryAt(i, index) == logs[i][toOffset(i, index) + 1]

\* AppendEntries' consistency check: logs that agree on the term at an index
\* agree on every entry up to it that both still store.
LogMatching ==
    \A i, j \in Server :
      \A k \in (lastIncludedIndex[i] + 1)..lastLogIndex(i) :
        containsIndex(j, k) /\ termAt(i, k) = termAt(j, k) =>
          \A q \in (lastIncludedIndex[i] + 1)..k :
            q > lastIncludedIndex[j] => entryAt(i, q) = entryAt(j, q)

\* Whatever a server believes committed is what was committed: no two servers
\* commit different entries at an index and no leader rewrites one.
StateMachineSafety ==
    \A i \in Server :
      /\ commitIndex[i] <= Len(committed)
      /\ \A k \in (lastIncludedIndex[i] + 1)..commitIndex[i] :
           containsIndex(i, k) /\ entryAt(i, k) = committed[k]

\* A disk holds the committed entry k, in its log or under its snapshot.
Stores(disk, k) ==
    \/ k <= disk.lastIncludedIndex
    \/ /\ k < disk.lastIncludedIndex + Len(disk.logs)
       /\ disk.logs[k - disk.lastIncludedIndex + 1] = committed[k]

\* Log i would be voted for by j: the comparison RequestVote makes.
AtLeastAsUpToDate(i, j) ==
    \/ lastLogTerm(i) > lastLogTerm(j)
    \/ lastLogTerm(i) = lastLogTerm(j) /\ lastLogIndex(i) >= lastLogIndex(j)

\* The rule of advanceCommitIndex (only entries of the current term are
\* counted): every server a majority could elect stores all that is committed.
ElectableServersHoldCommitted ==
    \A i \in Server :
      IsMajority(Cardinality({j \in Server : AtLeastAsUpToDate(i, j)})) =>
        \A k \in 1..Len(committed) : Stores(PersistentState(i), k)

\* What a leader believes replicated to a follower of its own term really is
\* in the follower's log or snapshot: no stale or reordered reply raises
\* matchIndex too far, and no stale request truncates below it.
MatchIndexSound ==
    \A i, p \in Server :
      state[i] = Leader /\ currentTerm[p] = currentTerm[i] =>
        /\ matchIndex[i][p] <= lastLogIndex(p)
        /\ \A k \in (lastIncludedIndex[i] + 1)..matchIndex[i][p] :
             k > lastIncludedIndex[p] => entryAt(i, k) = entryAt(p, k)

\* The back-off cannot spin: a conflict reply that the leader acts on moves
\* nextIndex, unless the position it probed has been matched meanwhile.
BackoffMakesProgress ==
    \A m \in rpcs :
      /\ m.type = "AppendEntriesReply" /\ ~m.Stopped /\ ~m.Success
      /\ Expected(m.to, m)
      /\ nextIndex[m.to][m.from] = m.PrevLogIndex + 1
      /\ matchIndex[m.to][m.from] < m.PrevLogIndex
      => backedOffNext(m.to, m.from, m) # m.PrevLogIndex + 1

CommandsUpTo(n) == [k \in 1..n |-> committed[k].Command]

\* The service executes the committed commands in order, without gaps or
\* repetitions, through batches claimed before an InstallSnapshot, snapshots
\* delivered between batches, and restarts; and what it gets next is in the log,
\* so that no index of the applier is out of range.
ServiceAppliesCommittedPrefix ==
    \A i \in Server :
      /\ appliedIndex[i] <= Len(committed)
      /\ applied[i] = CommandsUpTo(appliedIndex[i])
      /\ \A index \in firstUnclaimed(i)..commitIndex[i] : containsIndex(i, index)

\* A snapshot on disk is exactly the committed prefix it replaces.
SnapshotIsCommittedPrefix ==
    \A i \in Server :
      LET disk == persister[i] IN
      /\ disk.lastIncludedIndex <= Len(committed)
      /\ disk.snapshot = CommandsUpTo(disk.lastIncludedIndex)
      /\ disk.logs[1].Term = disk.lastIncludedTerm
      /\ disk.lastIncludedIndex > 0 =>
           disk.lastIncludedTerm = committed[disk.lastIncludedIndex].Term

\* Except by a crash, a server's term, commit index, apply position and
\* snapshot boundary never move backwards.
NeverBackwards ==
    [][\A i \in Server : dead[i] = dead'[i] =>
         /\ currentTerm[i] <= currentTerm'[i]
         /\ commitIndex[i] <= commitIndex'[i]
         /\ lastApplied[i] <= lastApplied'[i]
         /\ appliedIndex[i] <= appliedIndex'[i]
         /\ lastIncludedIndex[i] <= lastIncludedIndex'[i]]_vars
=============================================================================
