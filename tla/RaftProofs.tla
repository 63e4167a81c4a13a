---------------------------- MODULE RaftProofs ----------------------------
(***************************************************************************)
(* Type correctness, durability of the persistent fields and safety of     *)
(* elections of Raft, for every group size and every bound.                *)
(***************************************************************************)
EXTENDS Raft, TLAPS, FiniteSetTheorems, SequenceTheorems, WellFoundedInduction

(***************************************************************************)
(* Minimum and maximum of finite sets of integers.                         *)
(***************************************************************************)

\* A finite nonempty set of integers, like the candidate indices of the
\* conflict search, has a least element and Min is it.
LEMMA MinOfFinite ==
  ASSUME NEW S, S \subseteq Int, IsFiniteSet(S), S # {}
  PROVE  Min(S) \in S /\ \A y \in S : Min(S) <= y
<1> DEFINE below(x) == {y \in S : y < x}
           family == {below(x) : x \in S}
           R == StrictSubsetOrdering(S)
           F == FiniteSubsetsOf(S)
<1>1. IsWellFoundedOn(R, F)
  BY FS_StrictSubsetOrderingWellFounded
<1>2. family \subseteq F
  BY FS_Subset DEF FiniteSubsetsOf
<1>3. family # {}
  OBVIOUS
<1>4. \E u \in family : \A v \in family : ~(<<v, u>> \in R)
  <2> HIDE DEF family, R, F
  <2> QED BY <1>1, <1>2, <1>3, WFMin
<1>5. PICK x \in S : \A v \in family : ~(<<v, below(x)>> \in R)
  BY <1>4
<1>6. \A y \in S : x <= y
  <2> SUFFICES ASSUME NEW y \in S, y < x PROVE FALSE
    OBVIOUS
  <2>1. y \in Int /\ x \in Int /\ ~(y < y)
    OBVIOUS
  <2>2. \A z \in S : z < y => z < x
    OBVIOUS
  <2>3. below(y) \subseteq below(x) /\ y \in below(x) /\ y \notin below(y)
    BY <2>1, <2>2
  <2>4. <<below(y), below(x)>> \in R
    BY <2>3 DEF StrictSubsetOrdering
  <2> QED BY <2>4, <1>5
<1> QED BY <1>6 DEF Min

\* The same for the greatest element, as in the scan of advanceCommitIndex.
LEMMA MaxOfFinite ==
  ASSUME NEW S, S \subseteq Int, IsFiniteSet(S), S # {}
  PROVE  Max(S) \in S /\ \A y \in S : Max(S) >= y
<1> DEFINE above(x) == {y \in S : y > x}
           family == {above(x) : x \in S}
           R == StrictSubsetOrdering(S)
           F == FiniteSubsetsOf(S)
<1>1. IsWellFoundedOn(R, F)
  BY FS_StrictSubsetOrderingWellFounded
<1>2. family \subseteq F
  BY FS_Subset DEF FiniteSubsetsOf
<1>3. family # {}
  OBVIOUS
<1>4. \E u \in family : \A v \in family : ~(<<v, u>> \in R)
  <2> HIDE DEF family, R, F
  <2> QED BY <1>1, <1>2, <1>3, WFMin
<1>5. PICK x \in S : \A v \in family : ~(<<v, above(x)>> \in R)
  BY <1>4
<1>6. \A y \in S : x >= y
  <2> SUFFICES ASSUME NEW y \in S, y > x PROVE FALSE
    OBVIOUS
  <2>1. y \in Int /\ x \in Int /\ ~(y > y)
    OBVIOUS
  <2>2. \A z \in S : z > y => z > x
    OBVIOUS
  <2>3. above(y) \subseteq above(x) /\ y \in above(x) /\ y \notin above(y)
    BY <2>1, <2>2
  <2>4. <<above(y), above(x)>> \in R
    BY <2>3 DEF StrictSubsetOrdering
  <2> QED BY <2>4, <1>5
<1> QED BY <1>6 DEF Max

\* Max and Min of a pair, the monotone updates of the indices.
LEMMA MaxOfTwo ==
  ASSUME NEW a \in Int, NEW b \in Int
  PROVE  /\ Max({a, b}) \in {a, b}
         /\ Max({a, b}) >= a /\ Max({a, b}) >= b
<1>1. \E x \in {a, b} : \A y \in {a, b} : x >= y
  BY SMT
<1> QED BY <1>1 DEF Max

\* The smaller of two indices, as the follower's commit bound.
LEMMA MinOfTwo ==
  ASSUME NEW a \in Int, NEW b \in Int
  PROVE  Min({a, b}) \in {a, b}
<1>1. \E x \in {a, b} : \A y \in {a, b} : x =< y
  BY SMT
<1> QED BY <1>1 DEF Min

(***************************************************************************)
(* Type correctness.                                                       *)
(***************************************************************************)

PersistentTypes ==
    /\ currentTerm \in [Server -> Nat]
    /\ votedFor \in [Server -> Server \cup {None}]
    /\ logs \in [Server -> Log]
    /\ lastIncludedIndex \in [Server -> Nat]
    /\ lastIncludedTerm \in [Server -> Nat]
    /\ snapshot \in [Server -> Image]

\* The index helpers of a well-typed log: every index the log contains has an
\* entry, and the last index is a natural number.
LEMMA LogFacts ==
  ASSUME PersistentTypes, NEW i \in Server
  PROVE  /\ logs[i] \in Seq(Entry)
         /\ Len(logs[i]) \in Nat /\ Len(logs[i]) >= 1
         /\ lastIncludedIndex[i] \in Nat
         /\ lastLogIndex(i) \in Nat /\ lastLogTerm(i) \in Nat
         /\ \A k \in 1..Len(logs[i]) : logs[i][k] \in Entry
         /\ \A index \in Int : containsIndex(i, index) =>
              /\ index \in Nat
              /\ toOffset(i, index) + 1 \in 1..Len(logs[i])
              /\ termAt(i, index) \in Nat
<1>1. logs[i] \in Seq(Entry) /\ logs[i] # <<>>
  BY DEF PersistentTypes, Log
<1>2. Len(logs[i]) \in Nat /\ Len(logs[i]) >= 1
  BY <1>1, EmptySeq
<1>3. \A k \in 1..Len(logs[i]) : logs[i][k] \in Entry
  BY <1>1
<1>4. lastIncludedIndex[i] \in Nat
  BY DEF PersistentTypes
<1>5. lastLogIndex(i) \in Nat
  BY <1>2, <1>4 DEF lastLogIndex
<1>6. lastLogTerm(i) \in Nat
  BY <1>2, <1>3 DEF lastLogTerm, Entry
<1>7. ASSUME NEW index \in Int, containsIndex(i, index)
      PROVE  /\ index \in Nat
             /\ toOffset(i, index) + 1 \in 1..Len(logs[i])
             /\ termAt(i, index) \in Nat
  <2>1. index \in Nat /\ toOffset(i, index) + 1 \in 1..Len(logs[i])
    BY <1>2, <1>4, <1>7 DEF containsIndex, toOffset, lastLogIndex
  <2> QED BY <2>1, <1>3 DEF termAt, Entry
<1> QED BY <1>1, <1>2, <1>3, <1>4, <1>5, <1>6, <1>7

\* persist stores well-typed fields.
LEMMA PersistType ==
  ASSUME TypeOK, PersistentTypes', NEW i \in Server, persist(i)
  PROVE  persister' \in [Server -> Disk]
BY DEF TypeOK, PersistentTypes, persist, PersistentState, Disk

\* A freshly made group is well-typed.
LEMMA TypeInit == Init => TypeOK
<1> SUFFICES ASSUME Init PROVE TypeOK
  OBVIOUS
<1>1. EmptyLog \in Log
  BY DEF EmptyLog, Log, Entry
<1>2. <<>> \in Image /\ <<>> \in Seq(ApplyMsg)
  BY DEF Image
<1>3. PersistentTypes
  BY <1>1, <1>2 DEF Init, PersistentTypes
<1>4. persister \in [Server -> Disk]
  BY <1>3 DEF Init, PersistentTypes, PersistentState, Disk
<1> QED BY <1>2, <1>3, <1>4 DEF Init, TypeOK, PersistentTypes, Follower

\* The type field tells which record a call in flight is.
LEMMA RPCTypes ==
  ASSUME NEW m \in RPC
  PROVE  /\ m.from \in Server /\ m.to \in Server
         /\ m.type = "RequestVote" => m \in RequestVoteArgs
         /\ m.type = "RequestVoteReply" => m \in RequestVoteReplies
         /\ m.type \in {"AppendEntries", "Heartbeat"} => m \in AppendEntriesArgs
         /\ m.type = "AppendEntriesReply" => m \in AppendEntriesReplies
         /\ m.type = "HeartbeatReply" => m \in HeartbeatReplies
         /\ m.type = "InstallSnapshot" => m \in InstallSnapshotArgs
         /\ m.type = "InstallSnapshotReply" => m \in InstallSnapshotReplies
<1>1. CASE m \in RequestVoteArgs
  BY <1>1 DEF RequestVoteArgs
<1>2. CASE m \in RequestVoteReplies
  BY <1>2 DEF RequestVoteReplies
<1>3. CASE m \in AppendEntriesArgs
  BY <1>3 DEF AppendEntriesArgs
<1>4. CASE m \in AppendEntriesReplies
  BY <1>4 DEF AppendEntriesReplies
<1>5. CASE m \in HeartbeatReplies
  BY <1>5 DEF HeartbeatReplies
<1>6. CASE m \in InstallSnapshotArgs
  BY <1>6 DEF InstallSnapshotArgs
<1>7. CASE m \in InstallSnapshotReplies
  BY <1>7 DEF InstallSnapshotReplies
<1> QED BY <1>1, <1>2, <1>3, <1>4, <1>5, <1>6, <1>7 DEF RPC

\* Answering a call keeps the calls in flight well-typed.
LEMMA AnswerType ==
  ASSUME TypeOK, NEW m \in rpcs, NEW reply \in RPC, Answer(m, reply)
  PROVE  rpcs' \subseteq RPC
BY DEF TypeOK, Answer

\* A new leader's replication state is well-typed.
LEMMA BecomeLeaderType ==
  ASSUME TypeOK, NEW i \in Server, becomeLeader(i), currentTerm'[i] \in Nat
  PROVE  /\ state' \in [Server -> {Follower, Candidate, Leader}]
         /\ nextIndex' \in [Server -> [Server -> Nat]]
         /\ matchIndex' \in [Server -> [Server -> Nat]]
         /\ elected' \subseteq Nat \X Server
<1>1. lastLogIndex(i) \in Nat
  BY LogFacts DEF TypeOK, PersistentTypes
<1>2. nextIndex' \in [Server -> [Server -> Nat]]
  <2>1. [p \in Server |-> lastLogIndex(i) + 1] \in [Server -> Nat]
    BY <1>1
  <2> QED BY <2>1 DEF TypeOK, becomeLeader
<1>3. matchIndex' \in [Server -> [Server -> Nat]]
  <2>1. [p \in Server |-> IF p = i THEN lastLogIndex(i) ELSE 0]
          \in [Server -> Nat]
    BY <1>1
  <2> QED BY <2>1 DEF TypeOK, becomeLeader
<1>4. elected' \subseteq Nat \X Server
  BY DEF TypeOK, becomeLeader
<1>5. state' \in [Server -> {Follower, Candidate, Leader}]
  BY DEF TypeOK, becomeLeader
<1> QED BY <1>2, <1>3, <1>4, <1>5

\* A step down keeps the persistent fields and the disk well-typed.
LEMMA StepDownType ==
  ASSUME TypeOK, NEW i \in Server, NEW t \in Nat, stepDown(i, t)
  PROVE  /\ PersistentTypes'
         /\ persister' \in [Server -> Disk]
         /\ state' \in [Server -> {Follower, Candidate, Leader}]
<1>1. PersistentTypes'
  BY DEF TypeOK, stepDown, becomeFollower, PersistentTypes
<1>2. persister' \in [Server -> Disk]
  BY <1>1, PersistType DEF stepDown
<1> QED BY <1>1, <1>2 DEF TypeOK, stepDown, becomeFollower

\* startElection preserves the types.
LEMMA TypeStartElection ==
  ASSUME TypeOK, NEW i \in Server, NEW reach \in SUBSET (Server \ {i}),
         startElection(i, reach)
  PROVE  TypeOK'
<1>1. PersistentTypes
  BY DEF TypeOK, PersistentTypes
<1>2. PersistentTypes'
  BY <1>1 DEF startElection, PersistentTypes
<1>3. persister' \in [Server -> Disk]
  BY <1>2, PersistType DEF startElection
<1>4. currentTerm'[i] \in Nat
  BY <1>2 DEF PersistentTypes
<1>5. votesGranted' \in [Server -> SUBSET Server]
      /\ votesCast' \subseteq Nat \X Server \X Server
  BY DEF TypeOK, startElection
<1>6. CASE IsMajority(1)
  <2>1. becomeLeader(i) /\ rpcs' = rpcs
    BY <1>6 DEF startElection
  <2> QED BY <2>1, <1>2, <1>3, <1>4, <1>5, BecomeLeaderType
          DEF TypeOK, PersistentTypes, startElection, service, counters
<1>7. CASE ~IsMajority(1)
  <2>1. lastLogIndex(i) \in Nat /\ lastLogTerm(i) \in Nat /\ currentTerm[i] + 1 \in Nat
    BY <1>1, LogFacts DEF PersistentTypes
  <2>2. rpcs' \subseteq rpcs \cup RequestVoteArgs
    <3> DEFINE req(p) == [type |-> "RequestVote", from |-> i, to |-> p,
                          live |-> TRUE, Term |-> currentTerm[i] + 1,
                          LastLogIndex |-> lastLogIndex(i),
                          LastLogTerm |-> lastLogTerm(i)]
    <3>1. rpcs' = rpcs \cup {req(p) : p \in reach}
      BY <1>7 DEF startElection
    <3>2. \A p \in reach : req(p) \in RequestVoteArgs
      BY <2>1 DEF RequestVoteArgs
    <3> HIDE DEF req
    <3> QED BY <3>1, <3>2
  <2>3. rpcs' \subseteq RPC
    BY <2>2 DEF TypeOK, RPC
  <2>4. state' \in [Server -> {Follower, Candidate, Leader}]
        /\ UNCHANGED <<nextIndex, matchIndex, elected>>
    BY <1>7 DEF TypeOK, startElection, leadership
  <2> QED BY <2>3, <2>4, <1>2, <1>3, <1>5
          DEF TypeOK, PersistentTypes, startElection, service, counters
<1> QED BY <1>6, <1>7

\* RequestVote preserves the types.
LEMMA TypeRequestVote ==
  ASSUME TypeOK, NEW m \in rpcs, RequestVote(m)
  PROVE  TypeOK'
<1> DEFINE i == m.to
<1>0. m \in RequestVoteArgs
  BY RPCTypes DEF TypeOK, RequestVote
<1>1. i \in Server /\ m.from \in Server /\ m.Term \in Nat
  BY <1>0 DEF RequestVoteArgs
<1>2. PersistentTypes'
  BY <1>1 DEF TypeOK, RequestVote, PersistentTypes
<1>3. persister' \in [Server -> Disk]
  BY <1>1, <1>2, PersistType DEF RequestVote, TypeOK
<1>4. rpcs' \subseteq RPC
  <2> DEFINE granted == /\ ~(dead[i] \/ m.Term < currentTerm[i])
                         /\ canVote(m, i) /\ UpToDate(m, i)
             reply == [type |-> "RequestVoteReply", from |-> i, to |-> m.from,
                       Term |-> currentTerm'[i], VoteGranted |-> granted,
                       term |-> m.Term]
  <2>1. Answer(m, reply)
    BY DEF RequestVote
  <2>2. currentTerm'[i] \in Nat
    BY <1>1, <1>2 DEF PersistentTypes
  <2>3. reply \in RPC
    <3>1. granted \in BOOLEAN
      OBVIOUS
    <3> HIDE DEF granted
    <3> QED BY <1>1, <2>2, <3>1 DEF RPC, RequestVoteReplies
  <2> QED BY <2>1, <2>3, AnswerType
<1>5. state' \in [Server -> {Follower, Candidate, Leader}]
  BY <1>1 DEF TypeOK, RequestVote
<1>6. votesCast' \subseteq Nat \X Server \X Server
  <2>1. votesCast' \subseteq votesCast \cup {<<m.Term, i, m.from>>}
    BY DEF RequestVote
  <2>2. <<m.Term, i, m.from>> \in Nat \X Server \X Server
    BY <1>1
  <2> QED BY <2>1, <2>2 DEF TypeOK
<1> QED BY <1>2, <1>3, <1>4, <1>5, <1>6
        DEF TypeOK, PersistentTypes, RequestVote, leadership, service, counters

\* Counting a vote preserves the types.
LEMMA TypeRequestVoteReply ==
  ASSUME TypeOK, NEW m \in rpcs, RequestVoteReply(m)
  PROVE  TypeOK'
<1> DEFINE i == m.to
<1>0. m \in RequestVoteReplies
  BY RPCTypes DEF TypeOK, RequestVoteReply
<1>1. i \in Server /\ m.from \in Server /\ m.Term \in Nat
  BY <1>0 DEF RequestVoteReplies
<1>2. rpcs' \subseteq RPC
  BY DEF TypeOK, RequestVoteReply
<1>3. CASE m.Term > currentTerm[i] /\ stepDown(i, m.Term)
           /\ UNCHANGED <<leadership, votesGranted, elected>>
  BY <1>1, <1>2, <1>3, StepDownType
     DEF TypeOK, PersistentTypes, RequestVoteReply, leadership, service, counters
<1>4. CASE UNCHANGED <<persistent, persister, state, leadership,
                       votesGranted, elected>>
  BY <1>2, <1>4
     DEF TypeOK, RequestVoteReply, persistent, leadership, service, counters
<1>5. CASE /\ votesGranted' = [votesGranted EXCEPT ![i] = @ \cup {m.from}]
           /\ UNCHANGED <<persistent, persister>>
           /\ IF IsMajority(Cardinality(votesGranted'[i]))
              THEN becomeLeader(i)
              ELSE UNCHANGED <<state, leadership, elected>>
  <2>1. votesGranted' \in [Server -> SUBSET Server]
    BY <1>1, <1>5 DEF TypeOK
  <2>2. currentTerm'[i] \in Nat
    BY <1>1, <1>5 DEF TypeOK, persistent
  <2>3. CASE becomeLeader(i)
    BY <1>1, <1>2, <1>5, <2>1, <2>2, <2>3, BecomeLeaderType
       DEF TypeOK, RequestVoteReply, persistent, service, counters
  <2>4. CASE UNCHANGED <<state, leadership, elected>>
    BY <1>2, <1>5, <2>1, <2>4
       DEF TypeOK, RequestVoteReply, persistent, leadership, service, counters
  <2> QED BY <1>5, <2>3, <2>4
<1> QED BY <1>3, <1>4, <1>5 DEF RequestVoteReply

\* A set of indices picked from an interval is finite, so Min and Max apply.
LEMMA IndexSetFinite ==
  ASSUME NEW a \in Int, NEW b \in Int, NEW S, S \subseteq a..b
  PROVE  IsFiniteSet(S) /\ S \subseteq Int
<1>1. IsFiniteSet(a..b)
  BY FS_Interval
<1>2. S \in SUBSET (a..b)
  OBVIOUS
<1>3. IsFiniteSet(S)
  BY <1>1, <1>2, FS_Subset, Zenon
<1>4. S \subseteq Int
  BY SMT
<1> QED BY <1>3, <1>4

\* The back-off hint of a rejected AppendEntries is a natural number, and the
\* check succeeds only at an index the log contains.
LEMMA PrevLogCheckType ==
  ASSUME PersistentTypes, NEW i \in Server, NEW m, m.PrevLogIndex \in Nat
  PROVE  /\ PrevLogCheck(i, m).Success \in BOOLEAN
         /\ PrevLogCheck(i, m).ConflictTerm \in Nat \cup {-1}
         /\ PrevLogCheck(i, m).ConflictIndex \in Nat
         /\ PrevLogCheck(i, m).Success => containsIndex(i, m.PrevLogIndex)
<1> DEFINE prev == m.PrevLogIndex
<1>1. lastLogIndex(i) \in Nat /\ lastIncludedIndex[i] \in Nat
  BY LogFacts
<1>2. CASE prev > lastLogIndex(i)
  BY <1>1, <1>2 DEF PrevLogCheck
<1>3. CASE ~(prev > lastLogIndex(i)) /\ prev < firstLogIndex(i)
  BY <1>1, <1>3 DEF PrevLogCheck, firstLogIndex
<1>4. CASE prev <= lastLogIndex(i) /\ prev >= firstLogIndex(i)
  <2>1. containsIndex(i, prev)
    BY <1>1, <1>4 DEF containsIndex, firstLogIndex
  <2>2. termAt(i, prev) \in Nat
    BY <2>1, LogFacts
  <2>3. firstIndexOfRun(i, prev) \in Nat
    <3> DEFINE S == {k \in firstLogIndex(i)..prev :
                       \A q \in k..prev : termAt(i, q) = termAt(i, prev)}
    <3>1. prev \in S
      BY <1>1, <1>4 DEF firstLogIndex
    <3>2. IsFiniteSet(S) /\ S \subseteq Int
      <4>1. /\ S \subseteq firstLogIndex(i)..prev
            /\ firstLogIndex(i) \in Int /\ prev \in Int
        BY <1>1 DEF firstLogIndex
      <4> HIDE DEF S, prev
      <4> QED BY <4>1, IndexSetFinite
    <3>3. Min(S) \in S
      <4> HIDE DEF S
      <4> QED BY <3>1, <3>2, MinOfFinite
    <3> QED BY <3>3, <1>1 DEF firstIndexOfRun, firstLogIndex
  <2>4. ~(prev > lastLogIndex(i)) /\ ~(prev < firstLogIndex(i))
    BY <1>1, <1>4 DEF firstLogIndex
  <2> QED BY <2>1, <2>2, <2>3, <2>4 DEF PrevLogCheck
<1> QED BY <1>1, <1>2, <1>3, <1>4 DEF firstLogIndex

\* Merging entries after an index of the log yields a log again, with its
\* dummy entry in place.
LEMMA MergedLogType ==
  ASSUME PersistentTypes, NEW i \in Server, NEW prev \in Nat,
         containsIndex(i, prev), NEW entries \in Seq(Entry)
  PROVE  mergedLog(i, prev, entries) \in Log
<1> DEFINE new == {k \in 1..Len(entries) :
                     \/ prev + k > lastLogIndex(i)
                     \/ termAt(i, prev + k) # entries[k].Term}
           k == Min(new)
           kept == SubSeq(logs[i], 1, toOffset(i, prev + k))
           added == SubSeq(entries, k, Len(entries))
<1>1. CASE new = {}
  BY <1>1 DEF mergedLog, PersistentTypes
<1>2. CASE new # {}
  <2>1. Len(entries) \in Nat /\ \A n \in 1..Len(entries) : entries[n] \in Entry
    OBVIOUS
  <2>2. IsFiniteSet(new) /\ new \subseteq Int
    BY <2>1, IndexSetFinite
  <2>3. k \in new /\ \A n \in new : k <= n
    <3> HIDE DEF new
    <3> QED BY <1>2, <2>2, MinOfFinite
  <2>4. k \in 1..Len(entries)
    BY <2>3
  <2> HIDE DEF k
  <2>5. \A n \in 1..(k-1) : prev + n <= lastLogIndex(i)
    <3> SUFFICES ASSUME NEW n \in 1..(k-1), ~(prev + n <= lastLogIndex(i))
                 PROVE  FALSE
      OBVIOUS
    <3>1. lastLogIndex(i) \in Nat
      BY LogFacts
    <3>2. n \in 1..Len(entries) /\ n < k
      BY <2>1, <2>4
    <3>3. prev + n > lastLogIndex(i)
      BY <3>1, <3>2
    <3>4. n \in new
      BY <3>2, <3>3
    <3> QED BY <2>3, <2>4, <3>2, <3>4
  <2>6. toOffset(i, prev + k) \in 1..Len(logs[i])
    <3>1. /\ lastIncludedIndex[i] \in Nat /\ lastLogIndex(i) \in Nat
          /\ Len(logs[i]) \in Nat /\ Len(logs[i]) >= 1
      BY LogFacts
    <3>2. prev >= lastIncludedIndex[i] /\ prev <= lastLogIndex(i)
      BY DEF containsIndex
    <3>3. prev + k <= lastLogIndex(i) + 1
      <4>1. CASE k = 1
        BY <4>1, <3>1, <3>2
      <4>2. CASE k # 1
        <5>1. k - 1 \in 1..(k-1)
          BY <4>2, <2>4, <2>1
        <5>2. prev + (k - 1) <= lastLogIndex(i)
          BY <5>1, <2>5
        <5> QED BY <5>2, <2>1, <2>4, <3>1
      <4> QED BY <4>1, <4>2
    <3> QED BY <3>1, <3>2, <3>3, <2>1, <2>4 DEF toOffset, lastLogIndex
  <2>7. kept \in Seq(Entry) /\ Len(kept) >= 1
    <3>1. \A n \in 1..toOffset(i, prev + k) : logs[i][n] \in Entry
      BY <2>6, LogFacts
    <3> QED BY <3>1, <2>6, SubSeqProperties
  <2>8. added \in Seq(Entry)
    BY <2>1, <2>4, SubSeqProperties
  <2>9. kept \o added \in Seq(Entry) /\ Len(kept \o added) >= 1
    <3> HIDE DEF kept, added
    <3>1. Len(kept) \in Nat /\ Len(added) \in Nat
      BY <2>7, <2>8
    <3> QED BY <3>1, <2>7, <2>8, ConcatProperties
  <2>10. mergedLog(i, prev, entries) = kept \o added
    BY <1>2 DEF mergedLog, k
  <2> QED
    <3> HIDE DEF kept, added
    <3> QED BY <2>9, <2>10 DEF Log
<1> QED BY <1>1, <1>2

\* Compaction leaves a log that starts with the snapshot's dummy entry.
LEMMA CompactedLogType ==
  ASSUME PersistentTypes, NEW i \in Server, NEW index \in Nat, NEW term \in Nat
  PROVE  compactedLog(i, index, term) \in Log
<1> DEFINE dummy == <<[Term |-> term, Command |-> None]>>
           suffix == IF containsIndex(i, index) /\ termAt(i, index) = term
                     THEN SubSeq(logs[i], toOffset(i, index) + 2, Len(logs[i]))
                     ELSE <<>>
<1>1. dummy \in Seq(Entry) /\ Len(dummy) = 1
  BY DEF Entry
<1>2. suffix \in Seq(Entry)
  <2>1. CASE containsIndex(i, index)
    <3>1. toOffset(i, index) + 1 \in 1..Len(logs[i]) /\ Len(logs[i]) \in Nat
      BY <2>1, LogFacts
    <3>2. \A n \in (toOffset(i, index) + 2)..Len(logs[i]) : logs[i][n] \in Entry
      BY <3>1, LogFacts DEF toOffset
    <3>3. toOffset(i, index) + 2 \in Int
      BY LogFacts DEF toOffset
    <3> QED BY <3>1, <3>2, <3>3, SubSeqProperties
  <2>2. CASE ~containsIndex(i, index)
    BY <2>2
  <2> QED BY <2>1, <2>2
<1>3. dummy \o suffix \in Seq(Entry) /\ Len(dummy \o suffix) >= 1
  <2> HIDE DEF dummy, suffix
  <2>1. Len(suffix) \in Nat
    BY <1>2
  <2> QED BY <2>1, <1>1, <1>2, ConcatProperties
<1>4. compactedLog(i, index, term) = dummy \o suffix
  BY DEF compactedLog
<1> QED
  <2> HIDE DEF dummy, suffix
  <2> QED BY <1>3, <1>4 DEF Log

\* An AppendEntries reply is a well-typed record.
LEMMA AppendReplyType ==
  ASSUME NEW m \in AppendEntriesArgs, NEW t \in Nat, NEW stopped \in BOOLEAN,
         NEW result, result.Success \in BOOLEAN,
         result.ConflictTerm \in Nat \cup {-1}, result.ConflictIndex \in Nat
  PROVE  AppendReply(m, t, result, stopped) \in RPC
<1>1. /\ m.from \in Server /\ m.to \in Server /\ m.Term \in Nat
      /\ m.PrevLogIndex \in Nat /\ Len(m.Entries) \in Nat
  BY DEF AppendEntriesArgs
<1>2. CASE m.type = "Heartbeat"
  <2>1. AppendReply(m, t, result, stopped) \in HeartbeatReplies
    BY <1>1, <1>2 DEF AppendReply, HeartbeatReplies
  <2> QED BY <2>1 DEF RPC
<1>3. CASE m.type # "Heartbeat"
  <2>1. AppendReply(m, t, result, stopped) \in AppendEntriesReplies
    BY <1>1, <1>3 DEF AppendReply, AppendEntriesReplies
  <2> QED BY <2>1 DEF RPC
<1> QED BY <1>2, <1>3

\* AppendEntries preserves the types.
LEMMA TypeAppendEntries ==
  ASSUME TypeOK, NEW m \in rpcs, AppendEntries(m)
  PROVE  TypeOK'
<1> DEFINE i == m.to
           result == PrevLogCheck(i, m)
           newLog == IF result.Success
                     THEN mergedLog(i, m.PrevLogIndex, m.Entries) ELSE logs[i]
<1>0. m \in AppendEntriesArgs
  BY RPCTypes DEF TypeOK, AppendEntries
<1>1. /\ i \in Server /\ m.from \in Server /\ m.Term \in Nat
      /\ m.PrevLogIndex \in Nat /\ m.LeaderCommit \in Nat
      /\ m.Entries \in Seq(Entry) /\ Len(m.Entries) \in Nat
  BY <1>0 DEF AppendEntriesArgs
<1>2. PersistentTypes /\ currentTerm[i] \in Nat /\ dead[i] \in BOOLEAN
      /\ commitIndex[i] \in Nat
  BY <1>1 DEF TypeOK, PersistentTypes
<1>3. CASE /\ Answer(m, AppendReply(m, currentTerm[i], Rejected, dead[i]))
           /\ UNCHANGED <<persistent, persister, state, commitIndex>>
  <2>1. AppendReply(m, currentTerm[i], Rejected, dead[i]) \in RPC
    <3>1. /\ Rejected.Success \in BOOLEAN /\ Rejected.ConflictIndex \in Nat
          /\ Rejected.ConflictTerm \in Nat \cup {-1}
      BY DEF Rejected
    <3> HIDE DEF i
    <3> QED BY <1>0, <1>2, <3>1, AppendReplyType
  <2>2. rpcs' \subseteq RPC
    BY <1>3, <2>1, AnswerType
  <2> QED BY <1>3, <2>2
          DEF TypeOK, AppendEntries, persistent, leadership, service, counters
<1>4. CASE /\ ~dead[i] /\ m.Term >= currentTerm[i]
           /\ becomeFollower(i, m.Term)
           /\ logs' = [logs EXCEPT ![i] = newLog]
           /\ commitIndex' = [commitIndex EXCEPT ![i] =
                 followerCommit(i, m, result.Success)]
           /\ UNCHANGED <<lastIncludedIndex, lastIncludedTerm, snapshot>>
           /\ IF m.Term > currentTerm[i] \/ newLog # logs[i]
              THEN persist(i) ELSE UNCHANGED persister
           /\ Answer(m, AppendReply(m, m.Term, result, FALSE))
  <2>1. /\ result.Success \in BOOLEAN /\ result.ConflictIndex \in Nat
        /\ result.ConflictTerm \in Nat \cup {-1}
        /\ result.Success => containsIndex(i, m.PrevLogIndex)
    BY <1>1, <1>2, PrevLogCheckType
  <2> HIDE DEF result
  <2>2. newLog \in Log
    <3>1. CASE result.Success
      BY <3>1, <2>1, <1>1, <1>2, MergedLogType
    <3>2. CASE ~result.Success
      BY <3>2, <1>1, <1>2 DEF PersistentTypes
    <3> QED BY <3>1, <3>2
  <2> HIDE DEF newLog
  <2>3. PersistentTypes'
    BY <1>1, <1>2, <1>4, <2>2 DEF PersistentTypes, becomeFollower
  <2>4. persister' \in [Server -> Disk]
    <3>1. CASE persist(i)
      BY <3>1, <1>1, <2>3, PersistType
    <3>2. CASE UNCHANGED persister
      BY <3>2 DEF TypeOK
    <3> QED BY <1>4, <3>1, <3>2
  <2>5. AppendReply(m, m.Term, result, FALSE) \in RPC
    <3> HIDE DEF i
    <3>1. \A stopped \in BOOLEAN : AppendReply(m, m.Term, result, stopped) \in RPC
      BY <1>0, <1>1, <2>1, AppendReplyType
    <3> QED BY <3>1
  <2>6. rpcs' \subseteq RPC
    BY <1>4, <2>5, AnswerType
  <2>7. followerCommit(i, m, result.Success) \in Nat
    <3> DEFINE end == m.PrevLogIndex + Len(m.Entries)
               upTo == Min({m.LeaderCommit, end})
    <3>1. end \in Nat
      BY <1>1
    <3> HIDE DEF end
    <3>2. upTo \in Nat
      BY <1>1, <3>1, MinOfTwo
    <3> HIDE DEF upTo
    <3>3. Max({commitIndex[i], upTo}) \in Nat
      <4>1. commitIndex[i] \in Int /\ upTo \in Int
        BY <1>2, <3>2
      <4>2. Max({commitIndex[i], upTo}) \in {commitIndex[i], upTo}
        BY <4>1, MaxOfTwo
      <4> QED BY <1>2, <3>2, <4>2
    <3> QED BY <1>2, <3>3 DEF followerCommit, upTo, end
  <2>8. commitIndex' \in [Server -> Nat]
    BY <1>1, <1>4, <2>7 DEF TypeOK
  <2>9. state' \in [Server -> {Follower, Candidate, Leader}]
    BY <1>1, <1>4 DEF TypeOK, becomeFollower
  <2> QED BY <2>3, <2>4, <2>6, <2>8, <2>9
          DEF TypeOK, PersistentTypes, AppendEntries, leadership, service, counters
<1> QED BY <1>3, <1>4 DEF AppendEntries

\* InstallSnapshot preserves the types.
LEMMA TypeInstallSnapshot ==
  ASSUME TypeOK, NEW m \in rpcs, InstallSnapshot(m)
  PROVE  TypeOK'
<1> DEFINE i == m.to
<1>0. m \in InstallSnapshotArgs
  BY RPCTypes DEF TypeOK, InstallSnapshot
<1>1. /\ i \in Server /\ m.from \in Server /\ m.Term \in Nat
      /\ m.LastIncludedIndex \in Nat /\ m.LastIncludedTerm \in Nat
      /\ m.Data \in Image
  BY <1>0 DEF InstallSnapshotArgs
<1>2. PersistentTypes /\ currentTerm[i] \in Nat /\ dead[i] \in BOOLEAN
  BY <1>1 DEF TypeOK, PersistentTypes
<1>3. \A t \in Nat, stopped \in BOOLEAN : SnapshotReply(m, t, stopped) \in RPC
  <2>1. \A t \in Nat, stopped \in BOOLEAN :
           SnapshotReply(m, t, stopped) \in InstallSnapshotReplies
    BY <1>1 DEF SnapshotReply, InstallSnapshotReplies
  <2> QED BY <2>1 DEF RPC
<1>4. CASE /\ Answer(m, SnapshotReply(m, currentTerm[i], dead[i]))
           /\ UNCHANGED <<persistent, persister, state, commitIndex,
                          lastApplied, pendingSnapshot>>
  <2>1. rpcs' \subseteq RPC
    BY <1>2, <1>3, <1>4, AnswerType
  <2> QED BY <1>4, <2>1
          DEF TypeOK, InstallSnapshot, persistent, leadership, service, counters
<1>5. CASE
      /\ ~dead[i] /\ m.Term >= currentTerm[i]
      /\ becomeFollower(i, m.Term)
      /\ IF isNewer(i, m)
         THEN /\ logs' = [logs EXCEPT ![i] =
                   compactedLog(i, m.LastIncludedIndex, m.LastIncludedTerm)]
              /\ lastIncludedIndex' = [lastIncludedIndex EXCEPT ![i] = m.LastIncludedIndex]
              /\ lastIncludedTerm' = [lastIncludedTerm EXCEPT ![i] = m.LastIncludedTerm]
              /\ snapshot' = [snapshot EXCEPT ![i] = m.Data]
              /\ commitIndex' = [commitIndex EXCEPT ![i] = m.LastIncludedIndex]
              /\ lastApplied' = [lastApplied EXCEPT ![i] = m.LastIncludedIndex]
              /\ pendingSnapshot' = [pendingSnapshot EXCEPT ![i] =
                   [Index |-> m.LastIncludedIndex, Data |-> m.Data]]
         ELSE UNCHANGED <<logs, lastIncludedIndex, lastIncludedTerm,
                          snapshot, commitIndex, lastApplied,
                          pendingSnapshot>>
      /\ IF m.Term > currentTerm[i] \/ isNewer(i, m)
         THEN persist(i) ELSE UNCHANGED persister
      /\ Answer(m, SnapshotReply(m, m.Term, FALSE))
  <2>1. rpcs' \subseteq RPC
    BY <1>1, <1>3, <1>5, AnswerType
  <2>2. state' \in [Server -> {Follower, Candidate, Leader}]
    BY <1>1, <1>5 DEF TypeOK, becomeFollower
  <2>3. /\ PersistentTypes'
        /\ commitIndex' \in [Server -> Nat] /\ lastApplied' \in [Server -> Nat]
        /\ pendingSnapshot' \in [Server -> [Index : Nat, Data : Image] \cup {None}]
    <3>1. CASE isNewer(i, m)
      <4>1. compactedLog(i, m.LastIncludedIndex, m.LastIncludedTerm) \in Log
        BY <1>1, <1>2, CompactedLogType
      <4>2. PersistentTypes'
        BY <1>1, <1>2, <1>5, <3>1, <4>1 DEF PersistentTypes, becomeFollower
      <4>3. [Index |-> m.LastIncludedIndex, Data |-> m.Data]
              \in [Index : Nat, Data : Image]
        BY <1>1
      <4>4. commitIndex' \in [Server -> Nat] /\ lastApplied' \in [Server -> Nat]
        BY <1>1, <1>5, <3>1 DEF TypeOK
      <4>5. pendingSnapshot' \in [Server -> [Index : Nat, Data : Image] \cup {None}]
        <5> DEFINE row == [Index |-> m.LastIncludedIndex, Data |-> m.Data]
        <5>1. row \in [Index : Nat, Data : Image] \cup {None}
          BY <4>3
        <5>2. pendingSnapshot' = [pendingSnapshot EXCEPT ![i] = row]
          BY <1>5, <3>1
        <5> HIDE DEF row
        <5> QED BY <1>1, <5>1, <5>2 DEF TypeOK
      <4> QED BY <4>2, <4>4, <4>5
    <3>2. CASE ~isNewer(i, m)
      BY <1>1, <1>2, <1>5, <3>2 DEF TypeOK, PersistentTypes, becomeFollower
    <3> QED BY <3>1, <3>2
  <2>4. persister' \in [Server -> Disk]
    <3>1. CASE persist(i)
      BY <3>1, <1>1, <2>3, PersistType
    <3>2. CASE UNCHANGED persister
      BY <3>2 DEF TypeOK
    <3> QED BY <1>5, <3>1, <3>2
  <2> QED BY <2>1, <2>2, <2>3, <2>4
          DEF TypeOK, PersistentTypes, InstallSnapshot, leadership, service, counters
<1> QED BY <1>4, <1>5 DEF InstallSnapshot

\* The leader's commit index stays a natural number and never decreases.
LEMMA AdvanceType ==
  ASSUME NEW i \in Server, commitIndex[i] \in Nat, lastIncludedIndex[i] \in Nat,
         NEW log \in Seq(Entry), NEW match
  PROVE  /\ advanceCommitIndex(i, log, match) \in Nat
         /\ advanceCommitIndex(i, log, match) >= commitIndex[i]
<1> DEFINE base == lastIncludedIndex[i] - 1
           low == commitIndex[i] + 1
           high == base + Len(log)
           S == {n \in low..high :
                   /\ n > base
                   /\ log[n - base].Term = currentTerm[i]
                   /\ IsMajority(Cardinality({p \in Server : match[p] >= n}))}
<1>1. low \in Int /\ high \in Int /\ low > commitIndex[i]
  BY LenProperties
<1>2. S \subseteq low..high
  OBVIOUS
<1>3. advanceCommitIndex(i, log, match) = IF S = {} THEN commitIndex[i] ELSE Max(S)
  BY DEF advanceCommitIndex
<1> HIDE DEF S, low, high
<1>4. IsFiniteSet(S) /\ S \subseteq Int
  BY <1>1, <1>2, IndexSetFinite
<1>5. CASE S = {}
  BY <1>3, <1>5
<1>6. CASE S # {}
  <2>1. Max(S) \in S
    BY <1>4, <1>6, MaxOfFinite
  <2>2. Max(S) \in low..high
    BY <1>2, <2>1
  <2> QED BY <1>1, <1>3, <1>6, <2>2
<1> QED BY <1>5, <1>6

\* The last index of a term, or -1, is an integer.
LEMMA LastIndexOfTermType ==
  ASSUME PersistentTypes, NEW i \in Server, NEW term
  PROVE  lastIndexOfTerm(i, term) \in Int
<1> DEFINE S == {k \in 1..Len(logs[i]) : logs[i][k].Term = term}
<1>1. Len(logs[i]) \in Int /\ 1 \in Int /\ lastIncludedIndex[i] \in Nat
  BY LogFacts
<1>2. S \subseteq 1..Len(logs[i])
  OBVIOUS
<1>3. lastIndexOfTerm(i, term) =
        IF S = {} THEN -1 ELSE lastIncludedIndex[i] + Max(S) - 1
  BY DEF lastIndexOfTerm
<1> HIDE DEF S
<1>4. IsFiniteSet(S) /\ S \subseteq Int
  BY <1>1, <1>2, IndexSetFinite
<1>5. S # {} => Max(S) \in Int
  BY <1>4, MaxOfFinite
<1> QED BY <1>1, <1>3, <1>5

\* The backed-off nextIndex lies past what is already matched.
LEMMA BackedOffType ==
  ASSUME TypeOK, NEW i \in Server, NEW p \in Server, NEW m,
         m.ConflictIndex \in Nat
  PROVE  /\ backedOffNext(i, p, m) \in Nat
         /\ backedOffNext(i, p, m) > matchIndex[i][p]
<1> DEFINE own == lastIndexOfTerm(i, m.ConflictTerm)
           hint == IF m.ConflictTerm # -1 /\ own >= 0 THEN own + 1
                   ELSE m.ConflictIndex
           atLeast1 == Max({hint, 1})
           end == lastLogIndex(i) + 1
           atMostEnd == Min({atLeast1, end})
           floor == matchIndex[i][p] + 1
<1>1. PersistentTypes /\ matchIndex[i][p] \in Nat
  BY DEF TypeOK, PersistentTypes
<1>2. own \in Int /\ end \in Int
  BY <1>1, LastIndexOfTermType, LogFacts
<1>3. hint \in Int
  <2> HIDE DEF own
  <2> QED BY <1>2
<1>4. floor \in Nat /\ floor \in Int /\ floor > matchIndex[i][p]
  BY <1>1
<1>5. backedOffNext(i, p, m) = Max({atMostEnd, floor})
  BY DEF backedOffNext
<1> HIDE DEF hint, end, floor
<1>6. atLeast1 \in Int
  <2>0. 1 \in Int
    OBVIOUS
  <2>1. Max({hint, 1}) \in {hint, 1}
    BY <1>3, <2>0, MaxOfTwo, Zenon
  <2> QED BY <1>3, <2>1
<1> HIDE DEF atLeast1
<1>7. atMostEnd \in Int
  <2>1. Min({atLeast1, end}) \in {atLeast1, end}
    BY <1>2, <1>6, MinOfTwo
  <2> QED BY <1>2, <1>6, <2>1
<1> HIDE DEF atMostEnd
<1>8. Max({atMostEnd, floor}) \in {atMostEnd, floor}
      /\ Max({atMostEnd, floor}) >= floor
  BY <1>4, <1>7, MaxOfTwo
<1> QED BY <1>1, <1>4, <1>5, <1>7, <1>8

\* Two indices have a natural maximum.
LEMMA MaxNat ==
  ASSUME NEW a \in Nat, NEW b \in Nat
  PROVE  Max({a, b}) \in Nat /\ Max({a, b}) >= a /\ Max({a, b}) >= b
<1>1. a \in Int /\ b \in Int
  OBVIOUS
<1>2. /\ Max({a, b}) \in {a, b}
      /\ Max({a, b}) >= a /\ Max({a, b}) >= b
  BY <1>1, MaxOfTwo
<1> QED BY <1>2

\* The confirmation of everything up to an index keeps both rows well-typed.
LEMMA ConfirmType ==
  ASSUME TypeOK, NEW i \in Server, NEW p \in Server, NEW through \in Nat,
         matchIndex' = [matchIndex EXCEPT ![i][p] = Max({@, through})],
         nextIndex' = [nextIndex EXCEPT ![i][p] = nextAfterSuccess(i, p, through)]
  PROVE  /\ matchIndex' \in [Server -> [Server -> Nat]]
         /\ nextIndex' \in [Server -> [Server -> Nat]]
<1>1. matchIndex[i][p] \in Nat /\ nextIndex[i][p] \in Nat /\ through + 1 \in Nat
  BY DEF TypeOK
<1>2. Max({matchIndex[i][p], through}) \in Nat
  BY <1>1, MaxNat
<1>3. nextAfterSuccess(i, p, through) \in Nat
  BY <1>1, MaxNat DEF nextAfterSuccess
<1>4. matchIndex' \in [Server -> [Server -> Nat]]
  BY <1>2 DEF TypeOK
<1>5. nextIndex' \in [Server -> [Server -> Nat]]
  BY <1>3 DEF TypeOK
<1> QED BY <1>4, <1>5

\* An AppendEntries reply preserves the types.
LEMMA TypeAppendEntriesReply ==
  ASSUME TypeOK, NEW m \in rpcs, AppendEntriesReply(m)
  PROVE  TypeOK'
<1> DEFINE i == m.to
           p == m.from
           through == m.PrevLogIndex + m.Count
<1>0. m \in AppendEntriesReplies
  BY RPCTypes DEF TypeOK, AppendEntriesReply
<1>1. /\ i \in Server /\ p \in Server /\ m.Term \in Nat /\ through \in Nat
      /\ m.ConflictIndex \in Nat /\ m.PrevLogIndex \in Nat
  BY <1>0 DEF AppendEntriesReplies
<1>2. rpcs' \subseteq RPC
  BY DEF TypeOK, AppendEntriesReply
<1>3. CASE stepDown(i, m.Term) /\ UNCHANGED <<leadership, commitIndex, committed>>
  BY <1>1, <1>2, <1>3, StepDownType
     DEF TypeOK, PersistentTypes, AppendEntriesReply, leadership, service, counters
<1>4. CASE UNCHANGED <<persistent, persister, state, leadership, commitIndex,
                       committed>>
  BY <1>2, <1>4
     DEF TypeOK, AppendEntriesReply, persistent, leadership, service, counters
<1>5. CASE
      /\ matchIndex' = [matchIndex EXCEPT ![i][p] = Max({@, through})]
      /\ nextIndex' = [nextIndex EXCEPT ![i][p] = nextAfterSuccess(i, p, through)]
      /\ commitIndex' = [commitIndex EXCEPT ![i] =
            IF through > matchIndex[i][p]
            THEN advanceCommitIndex(i, logs[i], matchIndex'[i]) ELSE @]
      /\ RecordCommit(i, logs[i], commitIndex'[i])
      /\ UNCHANGED <<persistent, persister, state>>
  <2>1. /\ matchIndex' \in [Server -> [Server -> Nat]]
        /\ nextIndex' \in [Server -> [Server -> Nat]]
    <3> HIDE DEF i, p, through
    <3> QED BY <1>1, <1>5, ConfirmType
  <2>2. commitIndex' \in [Server -> Nat]
    <3>1. /\ commitIndex[i] \in Nat /\ lastIncludedIndex[i] \in Nat
          /\ logs[i] \in Seq(Entry)
      BY <1>1 DEF TypeOK, Log
    <3>2. advanceCommitIndex(i, logs[i], matchIndex'[i]) \in Nat
      <4> HIDE DEF i
      <4> QED BY <1>1, <3>1, AdvanceType
    <3> QED BY <1>1, <1>5, <3>1, <3>2 DEF TypeOK
  <2> QED BY <1>2, <1>5, <2>1, <2>2
          DEF TypeOK, AppendEntriesReply, persistent, service, counters
<1>6. CASE
      /\ nextIndex' = [nextIndex EXCEPT ![i][p] = backedOffNext(i, p, m)]
      /\ UNCHANGED <<persistent, persister, state, matchIndex, commitIndex,
                     committed>>
  <2>1. backedOffNext(i, p, m) \in Nat
    <3> HIDE DEF i, p
    <3> QED BY <1>1, BackedOffType
  <2>2. nextIndex' \in [Server -> [Server -> Nat]]
    BY <1>1, <1>6, <2>1 DEF TypeOK
  <2> QED BY <1>2, <1>6, <2>2
          DEF TypeOK, AppendEntriesReply, persistent, service, counters
<1> QED BY <1>3, <1>4, <1>5, <1>6 DEF AppendEntriesReply

\* A heartbeat reply preserves the types.
LEMMA TypeHeartbeatReply ==
  ASSUME TypeOK, NEW m \in rpcs, HeartbeatReply(m)
  PROVE  TypeOK'
<1> DEFINE i == m.to
<1>0. m \in HeartbeatReplies
  BY RPCTypes DEF TypeOK, HeartbeatReply
<1>1. i \in Server /\ m.Term \in Nat
  BY <1>0 DEF HeartbeatReplies
<1>2. rpcs' \subseteq RPC
  BY DEF TypeOK, HeartbeatReply
<1>3. CASE stepDown(i, m.Term)
  BY <1>1, <1>2, <1>3, StepDownType
     DEF TypeOK, PersistentTypes, HeartbeatReply, leadership, service, counters
<1>4. CASE UNCHANGED <<persistent, persister, state>>
  BY <1>2, <1>4
     DEF TypeOK, HeartbeatReply, persistent, leadership, service, counters
<1> QED BY <1>3, <1>4 DEF HeartbeatReply

\* An InstallSnapshot reply preserves the types.
LEMMA TypeInstallSnapshotReply ==
  ASSUME TypeOK, NEW m \in rpcs, InstallSnapshotReply(m)
  PROVE  TypeOK'
<1> DEFINE i == m.to
           p == m.from
<1>0. m \in InstallSnapshotReplies
  BY RPCTypes DEF TypeOK, InstallSnapshotReply
<1>1. /\ i \in Server /\ p \in Server /\ m.Term \in Nat
      /\ m.LastIncludedIndex \in Nat
  BY <1>0 DEF InstallSnapshotReplies
<1>2. rpcs' \subseteq RPC
  BY DEF TypeOK, InstallSnapshotReply
<1>3. CASE stepDown(i, m.Term) /\ UNCHANGED leadership
  BY <1>1, <1>2, <1>3, StepDownType
     DEF TypeOK, PersistentTypes, InstallSnapshotReply, leadership, service, counters
<1>4. CASE UNCHANGED <<persistent, persister, state, leadership>>
  BY <1>2, <1>4
     DEF TypeOK, InstallSnapshotReply, persistent, leadership, service, counters
<1>5. CASE
      /\ matchIndex' = [matchIndex EXCEPT ![i][p] = Max({@, m.LastIncludedIndex})]
      /\ nextIndex' = [nextIndex EXCEPT ![i][p] =
                        nextAfterSuccess(i, p, m.LastIncludedIndex)]
      /\ UNCHANGED <<persistent, persister, state>>
  <2>1. /\ matchIndex' \in [Server -> [Server -> Nat]]
        /\ nextIndex' \in [Server -> [Server -> Nat]]
    <3> HIDE DEF i, p
    <3> QED BY <1>1, <1>5, ConfirmType
  <2> QED BY <1>2, <1>5, <2>1
          DEF TypeOK, InstallSnapshotReply, persistent, service, counters
<1> QED BY <1>3, <1>4, <1>5 DEF InstallSnapshotReply

\* The request a replication round builds is well-typed: the index before the
\* suffix it sends is one the leader's log contains.
LEMMA TypeReplicate ==
  ASSUME TypeOK, NEW i \in Server, NEW p \in Server, Replicate(i, p)
  PROVE  TypeOK'
<1> DEFINE next == nextIndex[i][p]
           prev == next - 1
           suffix == SubSeq(logs[i], toOffset(i, next) + 1, Len(logs[i]))
<1>1. /\ PersistentTypes /\ next \in Nat /\ currentTerm[i] \in Nat
      /\ commitIndex[i] \in Nat /\ lastIncludedIndex[i] \in Nat
      /\ lastIncludedTerm[i] \in Nat /\ snapshot[i] \in Image
  BY DEF TypeOK, PersistentTypes
<1>2. ReplicationArgs(i, p) \in RPC
  <2>1. CASE next <= lastIncludedIndex[i]
    <3>1. ReplicationArgs(i, p) \in InstallSnapshotArgs
      BY <1>1, <2>1 DEF ReplicationArgs, InstallSnapshotArgs
    <3> QED BY <3>1 DEF RPC
  <2>2. CASE ~(next <= lastIncludedIndex[i])
    <3>1. containsIndex(i, prev) /\ prev \in Int
      BY <1>1, <2>2 DEF Replicate
    <3>2. prev \in Nat /\ termAt(i, prev) \in Nat
      BY <1>1, <3>1, LogFacts
    <3>3. suffix \in Seq(Entry)
      <4>1. toOffset(i, next) + 1 \in Int /\ toOffset(i, next) + 1 >= 1
            /\ Len(logs[i]) \in Nat
        BY <1>1, <2>2, LogFacts DEF toOffset
      <4>2. \A n \in (toOffset(i, next) + 1)..Len(logs[i]) : logs[i][n] \in Entry
        BY <1>1, <4>1, LogFacts
      <4> QED BY <4>1, <4>2, SubSeqProperties
    <3> DEFINE req(t, q, u, s, c) ==
                 [type |-> "AppendEntries", from |-> i, to |-> p, live |-> TRUE,
                  Term |-> t, PrevLogIndex |-> q, PrevLogTerm |-> u,
                  Entries |-> s, LeaderCommit |-> c]
    <3>4. \A t, q, u, c \in Nat, s \in Seq(Entry) :
             req(t, q, u, s, c) \in AppendEntriesArgs
      BY DEF AppendEntriesArgs
    <3>5. ReplicationArgs(i, p) =
            req(currentTerm[i], prev, termAt(i, prev), suffix, commitIndex[i])
      BY <2>2 DEF ReplicationArgs
    <3>6. ReplicationArgs(i, p) \in AppendEntriesArgs
      <4> HIDE DEF req, prev, suffix
      <4> QED BY <1>1, <3>2, <3>3, <3>4, <3>5
    <3> QED BY <3>6 DEF RPC
  <2> QED BY <2>1, <2>2
<1>3. rpcs' \subseteq RPC
  BY <1>2 DEF TypeOK, Replicate
<1> QED BY <1>3
        DEF TypeOK, Replicate, persistent, leadership, service, counters

\* A heartbeat is well-typed.
LEMMA TypeHeartbeat ==
  ASSUME TypeOK, NEW i \in Server, NEW p \in Server, Heartbeat(i, p)
  PROVE  TypeOK'
<1>1. /\ PersistentTypes /\ currentTerm[i] \in Nat /\ commitIndex[i] \in Nat
  BY DEF TypeOK, PersistentTypes
<1>2. lastLogIndex(i) \in Nat /\ lastLogTerm(i) \in Nat
  BY <1>1, LogFacts
<1> DEFINE req == [type |-> "Heartbeat", from |-> i, to |-> p, live |-> TRUE,
                   Term |-> currentTerm[i],
                   PrevLogIndex |-> lastLogIndex(i),
                   PrevLogTerm |-> lastLogTerm(i),
                   Entries |-> <<>>, LeaderCommit |-> commitIndex[i]]
<1>3. <<>> \in Seq(Entry)
  OBVIOUS
<1>4. req \in AppendEntriesArgs
  BY <1>1, <1>2, <1>3 DEF AppendEntriesArgs
<1>5. rpcs' = rpcs \cup {req}
  BY DEF Heartbeat
<1>6. rpcs' \subseteq RPC
  <2> HIDE DEF req
  <2> QED BY <1>4, <1>5 DEF TypeOK, RPC
<1> QED BY <1>6
        DEF TypeOK, Heartbeat, persistent, leadership, service, counters

\* Start preserves the types.
LEMMA TypeStart ==
  ASSUME TypeOK, NEW i \in Server, Start(i)
  PROVE  TypeOK'
<1> DEFINE index == lastLogIndex(i) + 1
           entry == [Term |-> currentTerm[i], Command |-> ops + 1]
           log   == Append(logs[i], entry)
<1>1. PersistentTypes /\ currentTerm[i] \in Nat /\ ops \in Nat
      /\ commitIndex[i] \in Nat /\ lastIncludedIndex[i] \in Nat
  BY DEF TypeOK, PersistentTypes
<1>2. index \in Nat /\ logs[i] \in Seq(Entry) /\ index + 1 \in Nat
  BY <1>1, LogFacts
<1>3. log \in Seq(Entry) /\ log \in Log
  <2>1. entry \in Entry
    BY <1>1 DEF Entry
  <2> HIDE DEF entry
  <2>2. log \in Seq(Entry) /\ Len(log) = Len(logs[i]) + 1
    BY <1>2, <2>1, AppendProperties
  <2>3. Len(log) >= 1
    BY <1>2, <2>2
  <2> QED BY <2>2, <2>3 DEF Log
<1>4. logs' = [logs EXCEPT ![i] = log]
  BY DEF Start
<1>5. PersistentTypes'
  <2> HIDE DEF log
  <2> QED BY <1>1, <1>3, <1>4 DEF PersistentTypes, Start
<1>6. persister' \in [Server -> Disk]
  BY <1>5, PersistType DEF Start
<1>7. /\ matchIndex' \in [Server -> [Server -> Nat]]
      /\ nextIndex' \in [Server -> [Server -> Nat]]
  <2>1. /\ matchIndex' = [matchIndex EXCEPT ![i][i] = index]
        /\ nextIndex' = [nextIndex EXCEPT ![i][i] = index + 1]
    BY DEF Start
  <2> HIDE DEF index
  <2> QED BY <1>2, <2>1 DEF TypeOK
<1>8. commitIndex' \in [Server -> Nat]
  <2>1. advanceCommitIndex(i, log, matchIndex'[i]) \in Nat
    <3> HIDE DEF log
    <3> QED BY <1>1, <1>3, AdvanceType
  <2>2. commitIndex' = [commitIndex EXCEPT ![i] =
          IF Cardinality(Server) = 1
          THEN advanceCommitIndex(i, log, matchIndex'[i]) ELSE @]
    BY DEF Start
  <2> HIDE DEF log
  <2> QED BY <1>1, <2>1, <2>2 DEF TypeOK
<1>9. ops' \in Nat
  BY <1>1 DEF Start
<1> QED BY <1>5, <1>6, <1>7, <1>8, <1>9
        DEF TypeOK, PersistentTypes, Start, service

\* The applier's claim preserves the types.
LEMMA TypeApplier ==
  ASSUME TypeOK, NEW i \in Server, applier(i)
  PROVE  TypeOK'
<1>1. PersistentTypes /\ lastApplied[i] \in Nat /\ commitIndex[i] \in Nat
      /\ pendingSnapshot[i] \in [Index : Nat, Data : Image] \cup {None}
      /\ lastIncludedIndex[i] \in Nat
  BY DEF TypeOK, PersistentTypes
<1>2. CASE /\ pendingSnapshot[i] # None
           /\ applyCh' = [applyCh EXCEPT ![i] =
                <<[SnapshotValid |-> TRUE, Index |-> pendingSnapshot[i].Index,
                   Data |-> pendingSnapshot[i].Data]>>]
           /\ lastApplied' = [lastApplied EXCEPT ![i] =
                Max({@, pendingSnapshot[i].Index})]
           /\ pendingSnapshot' = [pendingSnapshot EXCEPT ![i] = None]
  <2>1. pendingSnapshot[i].Index \in Nat /\ pendingSnapshot[i].Data \in Image
    BY <1>1, <1>2
  <2>2. <<[SnapshotValid |-> TRUE, Index |-> pendingSnapshot[i].Index,
           Data |-> pendingSnapshot[i].Data]>> \in Seq(ApplyMsg)
    BY <2>1 DEF ApplyMsg
  <2>3. Max({lastApplied[i], pendingSnapshot[i].Index}) \in Nat
    BY <1>1, <2>1, MaxNat
  <2>4. /\ applyCh' \in [Server -> Seq(ApplyMsg)]
        /\ lastApplied' \in [Server -> Nat]
        /\ pendingSnapshot' \in [Server -> [Index : Nat, Data : Image] \cup {None}]
    BY <1>2, <2>2, <2>3 DEF TypeOK
  <2> QED BY <2>4
          DEF TypeOK, applier, persistent, leadership, counters
<1>3. CASE
      /\ LET first == firstUnclaimed(i) IN
         /\ \A index \in first..commitIndex[i] : containsIndex(i, index)
         /\ applyCh' = [applyCh EXCEPT ![i] =
              [k \in 1..(commitIndex[i] - first + 1) |->
                [SnapshotValid |-> FALSE, Index |-> first + k - 1,
                 Data |-> <<logs[i][toOffset(i, first + k - 1) + 1].Command>>]]]
      /\ lastApplied' = [lastApplied EXCEPT ![i] = commitIndex[i]]
      /\ UNCHANGED pendingSnapshot
  <2> DEFINE first == firstUnclaimed(i)
             count == commitIndex[i] - first + 1
             msg(k) == [SnapshotValid |-> FALSE, Index |-> first + k - 1,
                Data |-> <<logs[i][toOffset(i, first + k - 1) + 1].Command>>]
             batch == [k \in 1..count |-> msg(k)]
  <2>1. first \in Nat
    <3>1. Max({lastApplied[i], lastIncludedIndex[i]}) \in Nat
      BY <1>1, MaxNat
    <3> QED BY <3>1 DEF firstUnclaimed
  <2>2. /\ \A index \in first..commitIndex[i] : containsIndex(i, index)
        /\ applyCh' = [applyCh EXCEPT ![i] = batch]
    BY <1>3
  <2> HIDE DEF first
  <2>3. ASSUME NEW k \in 1..count
        PROVE  msg(k) \in ApplyMsg
    <3>1. first + k - 1 \in Nat /\ first + k - 1 \in first..commitIndex[i]
      BY <1>1, <2>1
    <3>2. toOffset(i, first + k - 1) + 1 \in 1..Len(logs[i])
      BY <1>1, <2>2, <3>1, LogFacts
    <3>3. logs[i][toOffset(i, first + k - 1) + 1].Command \in Nat \cup {None}
      <4>1. logs[i][toOffset(i, first + k - 1) + 1] \in Entry
        BY <1>1, <3>2, LogFacts
      <4> QED BY <4>1 DEF Entry
    <3>4. <<logs[i][toOffset(i, first + k - 1) + 1].Command>> \in Image
      BY <3>3 DEF Image
    <3> QED BY <3>1, <3>4 DEF ApplyMsg
  <2>4. batch \in Seq(ApplyMsg)
    <3>1. count \in Int
      BY <1>1, <2>1
    <3> HIDE DEF msg, count
    <3> QED BY <2>3, <3>1, IsASeq
  <2>5. applyCh' \in [Server -> Seq(ApplyMsg)]
    <3> HIDE DEF batch
    <3> QED BY <2>2, <2>4 DEF TypeOK
  <2>6. lastApplied' \in [Server -> Nat]
    BY <1>1, <1>3 DEF TypeOK
  <2> QED BY <1>3, <2>5, <2>6
          DEF TypeOK, applier, persistent, leadership, counters
<1> QED BY <1>2, <1>3 DEF applier

\* Delivery preserves the types.
LEMMA TypeDeliver ==
  ASSUME TypeOK, NEW i \in Server, Deliver(i)
  PROVE  TypeOK'
<1> DEFINE message == Head(applyCh[i])
<1>1. applyCh[i] \in Seq(ApplyMsg) /\ applyCh[i] # <<>> /\ applied[i] \in Image
  BY DEF TypeOK, Deliver
<1>2. message \in ApplyMsg /\ Tail(applyCh[i]) \in Seq(ApplyMsg)
  BY <1>1, HeadTailProperties
<1> HIDE DEF message
<1>3. message.Index \in Nat /\ message.Data \in Image
  BY <1>2 DEF ApplyMsg
<1>4. applied[i] \o message.Data \in Image
  BY <1>1, <1>3, ConcatProperties DEF Image
<1>5. applied' \in [Server -> Image]
  BY <1>1, <1>3, <1>4 DEF TypeOK, Deliver, message
<1>6. appliedIndex' \in [Server -> Nat]
  BY <1>3 DEF TypeOK, Deliver, message
<1>7. applyCh' \in [Server -> Seq(ApplyMsg)]
  BY <1>2 DEF TypeOK, Deliver
<1> QED BY <1>5, <1>6, <1>7
        DEF TypeOK, Deliver, persistent, leadership, counters

\* Snapshot preserves the types.
LEMMA TypeSnapshot ==
  ASSUME TypeOK, NEW i \in Server, Snapshot(i)
  PROVE  TypeOK'
<1> DEFINE index == snapshotIndex(i)
           term  == termAt(i, index)
<1>1. PersistentTypes /\ index \in Nat /\ applied[i] \in Image /\ snapshots \in Nat
  BY DEF TypeOK, PersistentTypes, snapshotIndex
<1>2. index > lastIncludedIndex[i] /\ index <= lastLogIndex(i)
  BY DEF Snapshot
<1>3. containsIndex(i, index)
  BY <1>1, <1>2, LogFacts DEF containsIndex
<1> HIDE DEF index
<1>4. term \in Nat
  BY <1>1, <1>3, LogFacts
<1> HIDE DEF term
<1>5. compactedLog(i, index, term) \in Log
  BY <1>1, <1>4, CompactedLogType
<1>6. PersistentTypes'
  <2>1. /\ logs' = [logs EXCEPT ![i] = compactedLog(i, index, term)]
        /\ lastIncludedIndex' = [lastIncludedIndex EXCEPT ![i] = index]
        /\ lastIncludedTerm' = [lastIncludedTerm EXCEPT ![i] = term]
        /\ snapshot' = [snapshot EXCEPT ![i] = applied[i]]
        /\ UNCHANGED <<currentTerm, votedFor>>
    BY DEF Snapshot, index, term
  <2> QED BY <1>1, <1>4, <1>5, <2>1 DEF PersistentTypes
<1>7. persister' \in [Server -> Disk]
  BY <1>6, PersistType DEF Snapshot
<1>8. snapshots' \in Nat
  BY <1>1 DEF Snapshot
<1> QED BY <1>6, <1>7, <1>8
        DEF TypeOK, PersistentTypes, Snapshot, leadership, service

\* Kill preserves the types: an abandoned request is still a request.
LEMMA TypeKill ==
  ASSUME TypeOK, NEW i \in Server, Kill(i)
  PROVE  TypeOK'
<1> DEFINE gone(m) == IF IsRequest(m) /\ m.from = i
                      THEN [m EXCEPT !.live = FALSE] ELSE m
<1>1. ASSUME NEW m \in RPC
      PROVE  gone(m) \in RPC
  <2>1. CASE ~(IsRequest(m) /\ m.from = i)
    BY <2>1
  <2>2. CASE IsRequest(m) /\ m.from = i
    <3>1. m \in RequestVoteArgs \/ m \in AppendEntriesArgs
            \/ m \in InstallSnapshotArgs
      BY <2>2, RPCTypes DEF IsRequest
    <3>2. CASE m \in RequestVoteArgs
      <4>1. [m EXCEPT !.live = FALSE] \in RequestVoteArgs
        BY <3>2 DEF RequestVoteArgs
      <4> QED BY <2>2, <4>1 DEF RPC
    <3>3. CASE m \in AppendEntriesArgs
      <4>1. [m EXCEPT !.live = FALSE] \in AppendEntriesArgs
        BY <3>3 DEF AppendEntriesArgs
      <4> QED BY <2>2, <4>1 DEF RPC
    <3>4. CASE m \in InstallSnapshotArgs
      <4>1. [m EXCEPT !.live = FALSE] \in InstallSnapshotArgs
        BY <3>4 DEF InstallSnapshotArgs
      <4> QED BY <2>2, <4>1 DEF RPC
    <3> QED BY <3>1, <3>2, <3>3, <3>4
  <2> QED BY <2>1, <2>2
<1>2. rpcs' = {gone(m) : m \in {r \in rpcs : IsRequest(r) \/ r.to # i}}
  BY DEF Kill
<1>3. rpcs' \subseteq RPC
  <2> HIDE DEF gone
  <2> QED BY <1>1, <1>2 DEF TypeOK
<1>4. /\ dead' \in [Server -> BOOLEAN]
      /\ state' \in [Server -> {Follower, Candidate, Leader}]
  BY DEF TypeOK, Kill
<1>5. restarts' \in Nat
  BY DEF TypeOK, Kill
<1> QED BY <1>3, <1>4, <1>5
        DEF TypeOK, Kill, persistent, leadership, service

\* Recovery preserves the types.
LEMMA TypeMake ==
  ASSUME TypeOK, NEW i \in Server, Make(i)
  PROVE  TypeOK'
<1> DEFINE disk == persister[i]
<1>1. /\ disk.currentTerm \in Nat /\ disk.votedFor \in Server \cup {None}
      /\ disk.logs \in Log /\ disk.lastIncludedIndex \in Nat
      /\ disk.lastIncludedTerm \in Nat /\ disk.snapshot \in Image
  BY DEF TypeOK, Disk
<1>2. readPersist(i, disk)
  BY DEF Make
<1>3. PersistentTypes'
  <2> HIDE DEF disk
  <2> QED BY <1>1, <1>2 DEF TypeOK, readPersist, PersistentTypes
<1>4. /\ commitIndex' \in [Server -> Nat] /\ lastApplied' \in [Server -> Nat]
      /\ appliedIndex' \in [Server -> Nat] /\ applied' \in [Server -> Image]
  BY <1>1 DEF TypeOK, Make
<1>5. /\ nextIndex' \in [Server -> [Server -> Nat]]
      /\ matchIndex' \in [Server -> [Server -> Nat]]
  <2>1. [p \in Server |-> 1] \in [Server -> Nat]
        /\ [p \in Server |-> 0] \in [Server -> Nat]
    OBVIOUS
  <2> QED BY <2>1 DEF TypeOK, Make
<1>6. /\ pendingSnapshot' \in [Server -> [Index : Nat, Data : Image] \cup {None}]
      /\ dead' \in [Server -> BOOLEAN]
      /\ votesGranted' \in [Server -> SUBSET Server]
      /\ applyCh' \in [Server -> Seq(ApplyMsg)]
  BY DEF TypeOK, Make
<1> QED BY <1>3, <1>4, <1>5, <1>6
        DEF TypeOK, PersistentTypes, Make, counters

\* Losing a call preserves the types.
LEMMA TypeDropRPC ==
  ASSUME TypeOK, NEW m \in rpcs, DropRPC(m)
  PROVE  TypeOK'
BY DEF TypeOK, DropRPC, persistent, leadership, service, counters

\* Every step of the group preserves the types.
LEMMA TypeStep ==
  ASSUME TypeOK, [Next]_vars
  PROVE  TypeOK'
<1>1. CASE UNCHANGED vars
  BY <1>1 DEF TypeOK, vars, persistent, leadership, service, counters
<1>2. ASSUME NEW i \in Server, NEW reach \in SUBSET (Server \ {i}),
             startElection(i, reach)
      PROVE  TypeOK'
  BY <1>2, TypeStartElection
<1>3. ASSUME NEW i \in Server,
             \/ Start(i) \/ applier(i) \/ Deliver(i) \/ Snapshot(i)
             \/ Kill(i) \/ Make(i)
      PROVE  TypeOK'
  BY <1>3, TypeStart, TypeApplier, TypeDeliver, TypeSnapshot, TypeKill, TypeMake
<1>4. ASSUME NEW i \in Server, NEW p \in Server,
             Replicate(i, p) \/ Heartbeat(i, p)
      PROVE  TypeOK'
  BY <1>4, TypeReplicate, TypeHeartbeat
<1>5. ASSUME NEW m \in rpcs, Handle(m)
      PROVE  TypeOK'
  BY <1>5, TypeRequestVote, TypeRequestVoteReply, TypeAppendEntries,
     TypeAppendEntriesReply, TypeHeartbeatReply, TypeInstallSnapshot,
     TypeInstallSnapshotReply, TypeDropRPC DEF Handle
<1> QED BY <1>1, <1>2, <1>3, <1>4, <1>5 DEF Next

\* Type correctness: in every reachable state of any group, under any loss,
\* delay, crash and restart, every field has its type.  This is where the
\* index arithmetic of AppendEntries, InstallSnapshot, the back-off and the
\* compaction is discharged: each slice they take is a log again.
THEOREM TypeCorrect == Spec => []TypeOK
<1>1. Init => TypeOK
  BY TypeInit
<1>2. TypeOK /\ [Next]_vars => TypeOK'
  BY TypeStep
<1> QED BY <1>1, <1>2, PTL DEF Spec

(***************************************************************************)
(* Memory and disk agree between critical sections.                        *)
(***************************************************************************)

\* A call of persist makes the disk agree with memory again, when the step
\* changes the persistent fields of no other server.
LEMMA PersistAgrees ==
  ASSUME TypeOK, PersistBeforeReply, NEW i \in Server, persist(i),
         \A j \in Server \ {i} : PersistentState(j)' = PersistentState(j)
  PROVE  PersistBeforeReply'
<1> SUFFICES ASSUME NEW j \in Server
             PROVE  persister'[j] = PersistentState(j)'
  BY DEF PersistBeforeReply
<1>1. persister' = [persister EXCEPT ![i] = PersistentState(i)']
  BY DEF persist
<1>2. CASE j = i
  BY <1>1, <1>2 DEF TypeOK
<1>3. CASE j # i
  <2>1. persister'[j] = persister[j]
    BY <1>1, <1>3 DEF TypeOK
  <2> QED BY <1>3, <2>1 DEF PersistBeforeReply
<1> QED BY <1>2, <1>3

\* A step that leaves the persistent fields alone keeps the agreement.
LEMMA UnchangedAgrees ==
  ASSUME PersistBeforeReply, UNCHANGED <<persistent, persister>>
  PROVE  PersistBeforeReply'
BY DEF PersistBeforeReply, PersistentState, persistent

\* stepDown persists what it changes.
LEMMA StepDownAgrees ==
  ASSUME TypeOK, PersistBeforeReply, NEW i \in Server, NEW t \in Nat,
         stepDown(i, t)
  PROVE  PersistBeforeReply'
<1>1. \A j \in Server \ {i} : PersistentState(j)' = PersistentState(j)
  BY DEF TypeOK, stepDown, becomeFollower, PersistentState
<1> QED BY <1>1, PersistAgrees DEF stepDown

\* startElection persists its self-vote before it asks for others.
LEMMA AgreesStartElection ==
  ASSUME TypeOK, PersistBeforeReply, NEW i \in Server, NEW reach,
         startElection(i, reach)
  PROVE  PersistBeforeReply'
<1>1. \A j \in Server \ {i} : PersistentState(j)' = PersistentState(j)
  BY DEF TypeOK, startElection, PersistentState
<1> QED BY <1>1, PersistAgrees DEF startElection

\* RequestVote persists the vote and the term before it replies.
LEMMA AgreesRequestVote ==
  ASSUME TypeOK, PersistBeforeReply, NEW m \in rpcs, RequestVote(m)
  PROVE  PersistBeforeReply'
<1> DEFINE i == m.to
           stale   == dead[i] \/ m.Term < currentTerm[i]
           granted == ~stale /\ canVote(m, i) /\ UpToDate(m, i)
           higher  == ~stale /\ m.Term > currentTerm[i]
<1>0. i \in Server
  BY RPCTypes DEF TypeOK
<1>1. \A j \in Server \ {i} : PersistentState(j)' = PersistentState(j)
  BY <1>0 DEF TypeOK, RequestVote, PersistentState
<1>2. CASE higher \/ granted
  <2>1. persist(i)
    BY <1>2 DEF RequestVote
  <2> QED BY <1>0, <1>1, <2>1, PersistAgrees
<1>3. CASE ~(higher \/ granted)
  <2>1. UNCHANGED persister
    BY <1>3 DEF RequestVote
  <2>2. UNCHANGED persistent
    BY <1>0, <1>3 DEF TypeOK, RequestVote, persistent
  <2> QED BY <2>1, <2>2, UnchangedAgrees
<1> QED BY <1>2, <1>3

\* AppendEntries persists unless neither term nor log changed.
LEMMA AgreesAppendEntries ==
  ASSUME TypeOK, PersistBeforeReply, NEW m \in rpcs, AppendEntries(m)
  PROVE  PersistBeforeReply'
<1> DEFINE i == m.to
           result == PrevLogCheck(i, m)
           newLog == IF result.Success
                     THEN mergedLog(i, m.PrevLogIndex, m.Entries) ELSE logs[i]
<1>0. i \in Server /\ m.Term \in Nat /\ currentTerm[i] \in Nat
  BY RPCTypes DEF TypeOK, AppendEntries, AppendEntriesArgs
<1>1. CASE UNCHANGED <<persistent, persister, state, commitIndex>>
  BY <1>1, UnchangedAgrees
<1>2. CASE /\ ~dead[i] /\ m.Term >= currentTerm[i]
           /\ becomeFollower(i, m.Term)
           /\ logs' = [logs EXCEPT ![i] = newLog]
           /\ UNCHANGED <<lastIncludedIndex, lastIncludedTerm, snapshot>>
           /\ IF m.Term > currentTerm[i] \/ newLog # logs[i]
              THEN persist(i) ELSE UNCHANGED persister
  <2> HIDE DEF newLog
  <2>1. \A j \in Server \ {i} : PersistentState(j)' = PersistentState(j)
    BY <1>0, <1>2 DEF TypeOK, becomeFollower, PersistentState
  <2>2. CASE m.Term > currentTerm[i] \/ newLog # logs[i]
    BY <1>0, <1>2, <2>1, <2>2, PersistAgrees
  <2>3. CASE ~(m.Term > currentTerm[i] \/ newLog # logs[i])
    <3>1. UNCHANGED persister
      BY <1>2, <2>3
    <3>2. UNCHANGED persistent
      BY <1>0, <1>2, <2>3 DEF TypeOK, becomeFollower, persistent
    <3> QED BY <3>1, <3>2, UnchangedAgrees
  <2> QED BY <2>2, <2>3
<1> QED BY <1>1, <1>2 DEF AppendEntries

\* InstallSnapshot persists unless neither term nor snapshot changed.
LEMMA AgreesInstallSnapshot ==
  ASSUME TypeOK, PersistBeforeReply, NEW m \in rpcs, InstallSnapshot(m)
  PROVE  PersistBeforeReply'
<1> DEFINE i == m.to
<1>0. i \in Server /\ m.Term \in Nat /\ currentTerm[i] \in Nat
  BY RPCTypes DEF TypeOK, InstallSnapshot, InstallSnapshotArgs
<1>1. CASE UNCHANGED <<persistent, persister, state, commitIndex,
                       lastApplied, pendingSnapshot>>
  BY <1>1, UnchangedAgrees
<1>2. CASE
      /\ ~dead[i] /\ m.Term >= currentTerm[i]
      /\ becomeFollower(i, m.Term)
      /\ IF isNewer(i, m)
         THEN /\ logs' = [logs EXCEPT ![i] =
                   compactedLog(i, m.LastIncludedIndex, m.LastIncludedTerm)]
              /\ lastIncludedIndex' = [lastIncludedIndex EXCEPT ![i] = m.LastIncludedIndex]
              /\ lastIncludedTerm' = [lastIncludedTerm EXCEPT ![i] = m.LastIncludedTerm]
              /\ snapshot' = [snapshot EXCEPT ![i] = m.Data]
              /\ commitIndex' = [commitIndex EXCEPT ![i] = m.LastIncludedIndex]
              /\ lastApplied' = [lastApplied EXCEPT ![i] = m.LastIncludedIndex]
              /\ pendingSnapshot' = [pendingSnapshot EXCEPT ![i] =
                   [Index |-> m.LastIncludedIndex, Data |-> m.Data]]
         ELSE UNCHANGED <<logs, lastIncludedIndex, lastIncludedTerm,
                          snapshot, commitIndex, lastApplied,
                          pendingSnapshot>>
      /\ IF m.Term > currentTerm[i] \/ isNewer(i, m)
         THEN persist(i) ELSE UNCHANGED persister
      /\ Answer(m, SnapshotReply(m, m.Term, FALSE))
  <2>1. \A j \in Server \ {i} : PersistentState(j)' = PersistentState(j)
    <3>1. \A j \in Server \ {i} : /\ currentTerm'[j] = currentTerm[j]
                                  /\ votedFor'[j] = votedFor[j]
      BY <1>0, <1>2 DEF TypeOK, becomeFollower
    <3>2. /\ logs \in [Server -> Log] /\ snapshot \in [Server -> Image]
          /\ lastIncludedIndex \in [Server -> Nat]
          /\ lastIncludedTerm \in [Server -> Nat]
      BY DEF TypeOK
    <3>3. \A j \in Server \ {i} :
             /\ logs'[j] = logs[j] /\ snapshot'[j] = snapshot[j]
             /\ lastIncludedIndex'[j] = lastIncludedIndex[j]
             /\ lastIncludedTerm'[j] = lastIncludedTerm[j]
      <4>1. CASE isNewer(i, m)
        BY <1>0, <1>2, <3>2, <4>1
      <4>2. CASE ~isNewer(i, m)
        BY <1>2, <4>2
      <4> QED BY <4>1, <4>2
    <3> QED BY <3>1, <3>3 DEF PersistentState
  <2>2. CASE m.Term > currentTerm[i] \/ isNewer(i, m)
    BY <1>0, <1>2, <2>1, <2>2, PersistAgrees
  <2>3. CASE ~(m.Term > currentTerm[i] \/ isNewer(i, m))
    <3>1. UNCHANGED persister
      BY <1>2, <2>3
    <3>2. UNCHANGED persistent
      BY <1>0, <1>2, <2>3 DEF TypeOK, becomeFollower, persistent
    <3> QED BY <3>1, <3>2, UnchangedAgrees
  <2> QED BY <2>2, <2>3
<1> QED BY <1>1, <1>2 DEF InstallSnapshot

\* Every reply either steps down, and persists, or leaves the fields alone.
LEMMA AgreesReplies ==
  ASSUME TypeOK, PersistBeforeReply, NEW m \in rpcs,
         \/ RequestVoteReply(m) \/ AppendEntriesReply(m)
         \/ HeartbeatReply(m) \/ InstallSnapshotReply(m)
  PROVE  PersistBeforeReply'
<1>1. m.to \in Server
  BY RPCTypes DEF TypeOK
<1>2. m.Term \in Nat
  BY RPCTypes DEF TypeOK, RequestVoteReply, AppendEntriesReply, HeartbeatReply,
     InstallSnapshotReply, RequestVoteReplies, AppendEntriesReplies,
     HeartbeatReplies, InstallSnapshotReplies
<1>3. stepDown(m.to, m.Term) \/ UNCHANGED <<persistent, persister>>
  BY DEF RequestVoteReply, AppendEntriesReply, HeartbeatReply,
         InstallSnapshotReply, persistent
<1> QED BY <1>1, <1>2, <1>3, StepDownAgrees, UnchangedAgrees

\* Start and Snapshot persist; Make reads back what was persisted.
LEMMA AgreesLocal ==
  ASSUME TypeOK, PersistBeforeReply, NEW i \in Server,
         Start(i) \/ Snapshot(i) \/ Make(i)
  PROVE  PersistBeforeReply'
<1>1. CASE Start(i)
  <2>1. \A j \in Server \ {i} : PersistentState(j)' = PersistentState(j)
    BY <1>1 DEF TypeOK, Start, PersistentState
  <2> QED BY <1>1, <2>1, PersistAgrees DEF Start
<1>2. CASE Snapshot(i)
  <2>1. \A j \in Server \ {i} : PersistentState(j)' = PersistentState(j)
    BY <1>2 DEF TypeOK, Snapshot, PersistentState
  <2> QED BY <1>2, <2>1, PersistAgrees DEF Snapshot
<1>3. CASE Make(i)
  <2>1. persister[i] = PersistentState(i) /\ UNCHANGED persister
    BY <1>3 DEF PersistBeforeReply, Make
  <2>2. UNCHANGED persistent
    BY <1>3, <2>1 DEF TypeOK, Make, readPersist, PersistentState, persistent
  <2> QED BY <2>1, <2>2, UnchangedAgrees
<1> QED BY <1>1, <1>2, <1>3

\* No step leaves memory ahead of the disk.
LEMMA AgreesStep ==
  ASSUME TypeOK, PersistBeforeReply, [Next]_vars
  PROVE  PersistBeforeReply'
<1>1. CASE UNCHANGED vars
  BY <1>1, UnchangedAgrees DEF vars
<1>2. ASSUME NEW i \in Server, NEW reach \in SUBSET (Server \ {i}),
             startElection(i, reach)
      PROVE  PersistBeforeReply'
  BY <1>2, AgreesStartElection
<1>3. ASSUME NEW i \in Server, Start(i) \/ Snapshot(i) \/ Make(i)
      PROVE  PersistBeforeReply'
  BY <1>3, AgreesLocal
<1>4. ASSUME NEW i \in Server, applier(i) \/ Deliver(i) \/ Kill(i)
      PROVE  PersistBeforeReply'
  BY <1>4, UnchangedAgrees DEF applier, Deliver, Kill
<1>5. ASSUME NEW i \in Server, NEW p \in Server,
             Replicate(i, p) \/ Heartbeat(i, p)
      PROVE  PersistBeforeReply'
  BY <1>5, UnchangedAgrees DEF Replicate, Heartbeat
<1>6. ASSUME NEW m \in rpcs, Handle(m)
      PROVE  PersistBeforeReply'
  <2>1. CASE DropRPC(m)
    BY <2>1, UnchangedAgrees DEF DropRPC
  <2> QED BY <1>6, <2>1, AgreesRequestVote, AgreesAppendEntries,
             AgreesInstallSnapshot, AgreesReplies DEF Handle
<1> QED BY <1>1, <1>2, <1>3, <1>4, <1>5, <1>6 DEF Next

\* Durability: at the end of every critical section the persister holds the
\* current term, vote, log and snapshot, so a crash right after a reply loses
\* nothing that the reply promised.
THEOREM Durability == Spec => []PersistBeforeReply
<1>1. Init => PersistBeforeReply
  BY DEF Init, PersistBeforeReply
<1>2. TypeOK /\ PersistBeforeReply /\ [Next]_vars => PersistBeforeReply'
  BY AgreesStep
<1> QED BY <1>1, <1>2, TypeCorrect, PTL DEF Spec

(***************************************************************************)
(* Elections.  ElectionInv is the inductive strengthening: a vote binds    *)
(* the voter in its current term and never concerns a later one; a granted *)
(* reply, a counted vote and an elected leader are each backed by votes    *)
(* that were really cast.                                                  *)
(***************************************************************************)
VotesBind ==
    \A v \in votesCast :
      /\ v[1] <= currentTerm[v[2]]
      /\ v[1] = currentTerm[v[2]] => votedFor[v[2]] = v[3]

GrantsAreVotes ==
    \A m \in rpcs :
      m.type = "RequestVoteReply" /\ m.VoteGranted =>
        <<m.term, m.from, m.to>> \in votesCast

CountsAreVotes ==
    \A i \in Server : state[i] = Candidate =>
      \A p \in votesGranted[i] : <<currentTerm[i], p, i>> \in votesCast

\* The voters of candidate c in term t.
Voters(t, c) == {p \in Server : <<t, p, c>> \in votesCast}

ElectedByMajority ==
    \A e \in elected : IsMajority(Cardinality(Voters(e[1], e[2])))

LeadersElected ==
    \A i \in Server : state[i] = Leader => <<currentTerm[i], i>> \in elected

ElectionInv ==
    /\ VotesBind /\ OneVotePerTerm
    /\ GrantsAreVotes /\ CountsAreVotes
    /\ ElectedByMajority /\ LeadersElected

\* A step that casts and counts no vote: terms only grow, a vote changes only
\* with the term, and nobody becomes candidate or leader.
VoteFrame ==
    /\ UNCHANGED <<votesCast, elected>>
    /\ \A m \in rpcs' :
         m.type = "RequestVoteReply" /\ m.VoteGranted => m \in rpcs
    /\ \A i \in Server :
         /\ currentTerm[i] <= currentTerm'[i]
         /\ currentTerm'[i] = currentTerm[i] => votedFor'[i] = votedFor[i]
         /\ state'[i] = Leader =>
              state[i] = Leader /\ currentTerm'[i] = currentTerm[i]
         /\ state'[i] = Candidate =>
              \/ votesGranted'[i] = {}
              \/ /\ state[i] = Candidate /\ currentTerm'[i] = currentTerm[i]
                 /\ votesGranted'[i] = votesGranted[i]

\* Such a step preserves the election invariant.
LEMMA FramePreserves ==
  ASSUME TypeOK, TypeOK', ElectionInv, VoteFrame
  PROVE  ElectionInv'
<1>1. VotesBind'
  <2> SUFFICES ASSUME NEW v \in votesCast
               PROVE  /\ v[1] <= currentTerm'[v[2]]
                      /\ v[1] = currentTerm'[v[2]] => votedFor'[v[2]] = v[3]
    BY DEF VotesBind, VoteFrame
  <2>1. v[1] \in Nat /\ v[2] \in Server
    BY DEF TypeOK
  <2>2. /\ currentTerm[v[2]] \in Nat /\ currentTerm'[v[2]] \in Nat
        /\ currentTerm[v[2]] <= currentTerm'[v[2]]
        /\ currentTerm'[v[2]] = currentTerm[v[2]] => votedFor'[v[2]] = votedFor[v[2]]
    BY <2>1 DEF TypeOK, VoteFrame
  <2>3. /\ v[1] <= currentTerm[v[2]]
        /\ v[1] = currentTerm[v[2]] => votedFor[v[2]] = v[3]
    BY DEF ElectionInv, VotesBind
  <2> QED BY <2>1, <2>2, <2>3
<1>2. OneVotePerTerm'
  BY DEF ElectionInv, OneVotePerTerm, VoteFrame
<1>3. GrantsAreVotes'
  BY DEF ElectionInv, GrantsAreVotes, VoteFrame
<1>4. CountsAreVotes'
  BY DEF ElectionInv, CountsAreVotes, VoteFrame
<1>5. ElectedByMajority'
  BY DEF ElectionInv, ElectedByMajority, VoteFrame, Voters, IsMajority
<1>6. LeadersElected'
  BY DEF ElectionInv, LeadersElected, VoteFrame
<1> QED BY <1>1, <1>2, <1>3, <1>4, <1>5, <1>6 DEF ElectionInv

\* A reply of another kind than RequestVoteReply adds no granted vote.
LEMMA FrameAnswer ==
  ASSUME NEW m \in rpcs, NEW reply, reply.type # "RequestVoteReply",
         Answer(m, reply)
  PROVE  \A r \in rpcs' : r.type = "RequestVoteReply" => r \in rpcs
BY DEF Answer

\* becomeFollower moves one server to the follower role, forgetting its vote
\* only with its term.
LEMMA FrameFollower ==
  ASSUME TypeOK, NEW i \in Server, NEW t \in Nat, becomeFollower(i, t),
         UNCHANGED <<votesCast, elected, votesGranted>>,
         \A r \in rpcs' : r.type = "RequestVoteReply" => r \in rpcs
  PROVE  VoteFrame
<1> SUFFICES ASSUME NEW j \in Server
             PROVE  /\ currentTerm[j] <= currentTerm'[j]
                    /\ currentTerm'[j] = currentTerm[j] => votedFor'[j] = votedFor[j]
                    /\ state'[j] = Leader =>
                         state[j] = Leader /\ currentTerm'[j] = currentTerm[j]
                    /\ state'[j] = Candidate =>
                         state[j] = Candidate /\ currentTerm'[j] = currentTerm[j]
  BY DEF VoteFrame
<1>1. currentTerm[j] \in Nat
  BY DEF TypeOK
<1>2. CASE j = i
  BY <1>1, <1>2 DEF TypeOK, becomeFollower, Follower, Candidate, Leader
<1>3. CASE j # i
  BY <1>1, <1>3 DEF TypeOK, becomeFollower
<1> QED BY <1>2, <1>3

\* Terms, votes and roles unchanged: the election state is unchanged too.
LEMMA FrameUnchanged ==
  ASSUME TypeOK,
         UNCHANGED <<currentTerm, votedFor, state, votesGranted, votesCast, elected>>,
         \A r \in rpcs' : r.type = "RequestVoteReply" => r \in rpcs
  PROVE  VoteFrame
BY DEF TypeOK, VoteFrame

\* Handling a replication request casts no vote.
LEMMA FrameRequests ==
  ASSUME TypeOK, NEW m \in rpcs, AppendEntries(m) \/ InstallSnapshot(m)
  PROVE  VoteFrame
<1>1. m.to \in Server /\ m.Term \in Nat
  BY RPCTypes DEF TypeOK, AppendEntries, InstallSnapshot, AppendEntriesArgs,
                  InstallSnapshotArgs
<1>2. UNCHANGED <<votesCast, elected, votesGranted>>
  BY DEF AppendEntries, InstallSnapshot
<1>3. \A r \in rpcs' : r.type = "RequestVoteReply" => r \in rpcs
  <2>1. \A t, result, stopped :
           AppendReply(m, t, result, stopped).type # "RequestVoteReply"
    BY DEF AppendReply
  <2>2. \A t, stopped : SnapshotReply(m, t, stopped).type # "RequestVoteReply"
    BY DEF SnapshotReply
  <2>3. CASE AppendEntries(m)
    <3>1. \E t, result, stopped : Answer(m, AppendReply(m, t, result, stopped))
      BY <2>3 DEF AppendEntries
    <3> QED BY <2>1, <3>1, FrameAnswer
  <2>4. CASE InstallSnapshot(m)
    <3>1. \E t, stopped : Answer(m, SnapshotReply(m, t, stopped))
      BY <2>4 DEF InstallSnapshot
    <3> QED BY <2>2, <3>1, FrameAnswer
  <2> QED BY <2>3, <2>4
<1>4. becomeFollower(m.to, m.Term) \/ UNCHANGED <<currentTerm, votedFor, state>>
  BY DEF AppendEntries, InstallSnapshot, persistent
<1> QED BY <1>1, <1>2, <1>3, <1>4, FrameFollower, FrameUnchanged

\* Nor does a reply to one.
LEMMA FrameReplies ==
  ASSUME TypeOK, NEW m \in rpcs,
         AppendEntriesReply(m) \/ HeartbeatReply(m) \/ InstallSnapshotReply(m)
  PROVE  VoteFrame
<1>1. m.to \in Server
  BY RPCTypes DEF TypeOK
<1>2. m.Term \in Nat
  BY RPCTypes DEF TypeOK, AppendEntriesReply, HeartbeatReply,
     InstallSnapshotReply, AppendEntriesReplies, HeartbeatReplies,
     InstallSnapshotReplies
<1>3. UNCHANGED <<votesCast, elected, votesGranted>> /\ rpcs' \subseteq rpcs
  BY DEF AppendEntriesReply, HeartbeatReply, InstallSnapshotReply
<1>4. becomeFollower(m.to, m.Term) \/ UNCHANGED <<currentTerm, votedFor, state>>
  BY DEF AppendEntriesReply, HeartbeatReply, InstallSnapshotReply, persistent,
         stepDown
<1> QED BY <1>1, <1>2, <1>3, <1>4, FrameFollower, FrameUnchanged

\* Nor does anything a server does on its own except starting an election.
LEMMA FrameLocal ==
  ASSUME TypeOK, PersistBeforeReply, NEW i \in Server,
         \/ Start(i) \/ applier(i) \/ Deliver(i) \/ Snapshot(i) \/ Kill(i)
         \/ Make(i) \/ \E p \in Server : Replicate(i, p) \/ Heartbeat(i, p)
  PROVE  VoteFrame
<1>1. CASE Start(i) \/ applier(i) \/ Deliver(i) \/ Snapshot(i)
  <2>1. UNCHANGED <<currentTerm, votedFor, state, votesGranted, votesCast,
                    elected, rpcs>>
    BY <1>1 DEF Start, applier, Deliver, Snapshot, persistent
  <2> QED BY <2>1, FrameUnchanged
<1>2. CASE \E p \in Server : Replicate(i, p) \/ Heartbeat(i, p)
  <2>1. UNCHANGED <<currentTerm, votedFor, state, votesGranted, votesCast, elected>>
    BY <1>2 DEF Replicate, Heartbeat, persistent
  <2>2. \A r \in rpcs' : r.type = "RequestVoteReply" => r \in rpcs
    BY <1>2 DEF Replicate, Heartbeat, ReplicationArgs
  <2> QED BY <2>1, <2>2, FrameUnchanged
<1>3. CASE Kill(i)
  <2>1. \A r \in rpcs' : r.type = "RequestVoteReply" => r \in rpcs
    <3> SUFFICES ASSUME NEW m \in rpcs, IsRequest(m)
                 PROVE  [m EXCEPT !.live = FALSE].type # "RequestVoteReply"
      BY <1>3 DEF Kill
    <3>1. m.type # "RequestVoteReply" /\ m \in RPC
      BY DEF IsRequest, TypeOK
    <3>2. m \in RequestVoteArgs \/ m \in AppendEntriesArgs \/ m \in InstallSnapshotArgs
      BY <3>1, RPCTypes DEF IsRequest
    <3> QED BY <3>1, <3>2 DEF RequestVoteArgs, AppendEntriesArgs, InstallSnapshotArgs
  <2>2. UNCHANGED <<currentTerm, votedFor, votesGranted, votesCast, elected>>
        /\ state' = [state EXCEPT ![i] = Follower]
    BY <1>3 DEF Kill, persistent
  <2>3. \A j \in Server : state'[j] \in {state[j], Follower}
    BY <2>2 DEF TypeOK
  <2>4. \A j \in Server : currentTerm[j] <= currentTerm'[j]
    BY <2>2 DEF TypeOK
  <2> QED BY <2>1, <2>2, <2>3, <2>4 DEF VoteFrame, Follower, Candidate, Leader
<1>4. CASE Make(i)
  <2>1. UNCHANGED <<currentTerm, votedFor>>
    BY <1>4 DEF TypeOK, PersistBeforeReply, PersistentState, Make, readPersist
  <2>2. UNCHANGED <<state, votesCast, elected, rpcs>>
        /\ votesGranted' = [votesGranted EXCEPT ![i] = {}]
    BY <1>4 DEF Make
  <2>3. \A j \in Server : votesGranted'[j] \in {votesGranted[j], {}}
    BY <2>2 DEF TypeOK
  <2>4. \A j \in Server : currentTerm[j] <= currentTerm'[j]
    BY <2>1 DEF TypeOK
  <2> QED BY <2>1, <2>2, <2>3, <2>4 DEF VoteFrame
<1> QED BY <1>1, <1>2, <1>3, <1>4

\* More votes only add voters, so a majority stays a majority.
LEMMA MoreVotes ==
  ASSUME TypeOK, votesCast \subseteq votesCast', NEW t, NEW c,
         IsMajority(Cardinality(Voters(t, c)))
  PROVE  IsMajority(Cardinality(Voters(t, c)'))
<1>1. Voters(t, c) \subseteq Voters(t, c)' /\ Voters(t, c)' \subseteq Server
  BY DEF Voters
<1>2. IsFiniteSet(Server) /\ IsFiniteSet(Voters(t, c)')
  BY <1>1, ServerAssumption, FS_Subset
<1>3. /\ Cardinality(Voters(t, c)) <= Cardinality(Voters(t, c)')
      /\ IsFiniteSet(Voters(t, c))
  BY <1>1, <1>2, FS_Subset
<1>4. /\ Cardinality(Voters(t, c)) \in Nat /\ Cardinality(Voters(t, c)') \in Nat
      /\ Cardinality(Server) \in Nat
  BY <1>2, <1>3, FS_CardinalityType
<1> QED BY <1>3, <1>4 DEF IsMajority

\* The candidate that counted a majority was really voted for by one.
LEMMA CountedMajority ==
  ASSUME NEW Q \in SUBSET Server, NEW t, NEW c,
         \A p \in Q : <<t, p, c>> \in votesCast',
         IsMajority(Cardinality(Q))
  PROVE  IsMajority(Cardinality(Voters(t, c)'))
<1>1. Q \subseteq Voters(t, c)' /\ Voters(t, c)' \subseteq Server
  BY DEF Voters
<1>2. IsFiniteSet(Server) /\ IsFiniteSet(Voters(t, c)')
  BY <1>1, ServerAssumption, FS_Subset
<1>3. Cardinality(Q) <= Cardinality(Voters(t, c)') /\ IsFiniteSet(Q)
  BY <1>1, <1>2, FS_Subset
<1>4. /\ Cardinality(Q) \in Nat /\ Cardinality(Voters(t, c)') \in Nat
      /\ Cardinality(Server) \in Nat
  BY <1>2, <1>3, FS_CardinalityType
<1> QED BY <1>3, <1>4 DEF IsMajority

\* A new vote <<t, v, c>> is safe when the voter's term was lower, or was t
\* with no vote or the same vote, and the vote is recorded.
LEMMA NewVote ==
  ASSUME TypeOK, TypeOK', ElectionInv,
         NEW v \in Server, NEW c \in Server, NEW t \in Nat,
         votesCast' = votesCast \cup {<<t, v, c>>},
         \A j \in Server \ {v} : /\ currentTerm'[j] = currentTerm[j]
                                 /\ votedFor'[j] = votedFor[j],
         currentTerm'[v] = t, votedFor'[v] = c,
         \/ t > currentTerm[v]
         \/ t = currentTerm[v] /\ votedFor[v] \in {None, c}
  PROVE  VotesBind' /\ OneVotePerTerm'
<1>0. currentTerm[v] \in Nat
  BY DEF TypeOK
<1>1. ASSUME NEW a \in votesCast
      PROVE  /\ a[1] \in Nat /\ a[2] \in Server /\ a[3] \in Server
             /\ a[1] <= currentTerm[a[2]]
             /\ a[1] = currentTerm[a[2]] => votedFor[a[2]] = a[3]
  BY DEF TypeOK, ElectionInv, VotesBind
<1>2. \A a \in votesCast : a[2] = v => a[1] < t \/ (a[1] = t /\ a[3] = c)
  <2> SUFFICES ASSUME NEW a \in votesCast, a[2] = v
               PROVE  a[1] < t \/ (a[1] = t /\ a[3] = c)
    OBVIOUS
  <2>1. /\ a[1] \in Nat /\ a[3] # None /\ a[1] <= currentTerm[v]
        /\ a[1] = currentTerm[v] => votedFor[v] = a[3]
    BY <1>1, NoneAssumption
  <2> QED BY <1>0, <2>1
<1>3. VotesBind'
  <2> SUFFICES ASSUME NEW a \in votesCast'
               PROVE  /\ a[1] <= currentTerm'[a[2]]
                      /\ a[1] = currentTerm'[a[2]] => votedFor'[a[2]] = a[3]
    BY DEF VotesBind
  <2>1. CASE a = <<t, v, c>>
    BY <2>1
  <2>2. CASE a \in votesCast /\ a[2] # v
    BY <2>2, <1>1
  <2>3. CASE a \in votesCast /\ a[2] = v
    <3>1. a[1] \in Nat /\ (a[1] < t \/ (a[1] = t /\ a[3] = c))
      BY <2>3, <1>1, <1>2
    <3> QED BY <2>3, <3>1
  <2> QED BY <2>1, <2>2, <2>3
<1>4. OneVotePerTerm'
  <2> SUFFICES ASSUME NEW a \in votesCast', NEW b \in votesCast',
                      a[1] = b[1], a[2] = b[2]
               PROVE  a[3] = b[3]
    BY DEF OneVotePerTerm
  <2>1. CASE a \in votesCast /\ b \in votesCast
    BY <2>1 DEF ElectionInv, OneVotePerTerm
  <2>2. \A x \in votesCast : x[1] = t /\ x[2] = v => x[3] = c
    <3> SUFFICES ASSUME NEW x \in votesCast, x[1] = t, x[2] = v
                 PROVE  x[3] = c
      OBVIOUS
    <3>1. x[1] < t \/ x[3] = c
      BY <1>2
    <3> QED BY <3>1
  <2>3. CASE a = <<t, v, c>> /\ b \in votesCast
    <3>1. b[1] = t /\ b[2] = v /\ a[3] = c
      BY <2>3
    <3> QED BY <2>2, <2>3, <3>1
  <2>4. CASE b = <<t, v, c>> /\ a \in votesCast
    <3>1. a[1] = t /\ a[2] = v /\ b[3] = c
      BY <2>4
    <3> QED BY <2>2, <2>4, <3>1
  <2>5. CASE a = <<t, v, c>> /\ b = <<t, v, c>>
    BY <2>5
  <2> QED BY <2>1, <2>3, <2>4, <2>5
<1> QED BY <1>3, <1>4

\* startElection keeps the election invariant, also when one server is a
\* majority and leads at once.
LEMMA ElectionStart ==
  ASSUME TypeOK, TypeOK', ElectionInv, NEW i \in Server,
         NEW reach \in SUBSET (Server \ {i}), startElection(i, reach)
  PROVE  ElectionInv'
<1> SUFFICES ASSUME NEW t, t = currentTerm[i] + 1 PROVE ElectionInv'
  OBVIOUS
<1>1. /\ votesCast' = votesCast \cup {<<t, i, i>>} /\ t \in Nat
      /\ t > currentTerm[i] /\ currentTerm'[i] = t /\ votedFor'[i] = i
      /\ \A j \in Server \ {i} : /\ currentTerm'[j] = currentTerm[j]
                                 /\ votedFor'[j] = votedFor[j]
  BY DEF TypeOK, startElection
<1>2. VotesBind' /\ OneVotePerTerm'
  BY <1>1, NewVote
<1>3. /\ votesGranted'[i] = {i}
      /\ \A j \in Server \ {i} : votesGranted'[j] = votesGranted[j]
  BY DEF TypeOK, startElection
<1>4. \A m \in rpcs' : m.type = "RequestVoteReply" => m \in rpcs
  BY DEF startElection
<1>5. GrantsAreVotes'
  BY <1>1, <1>4 DEF ElectionInv, GrantsAreVotes
<1>6. \A j \in Server \ {i} : state'[j] = state[j]
  <2>1. \E s : state' = [state EXCEPT ![i] = s]
    BY DEF startElection, becomeLeader
  <2> QED BY <2>1 DEF TypeOK
<1>7. CountsAreVotes'
  BY <1>1, <1>3, <1>6 DEF ElectionInv, CountsAreVotes
<1>8. \A e \in elected : IsMajority(Cardinality(Voters(e[1], e[2])'))
  <2>1. votesCast \subseteq votesCast'
    BY <1>1
  <2> QED BY <2>1, MoreVotes DEF ElectionInv, ElectedByMajority
<1>9. CASE IsMajority(1)
  <2>1. elected' = elected \cup {<<t, i>>}
    BY <1>1, <1>9 DEF startElection, becomeLeader
  <2>2. IsMajority(Cardinality(Voters(t, i)'))
    <3>1. {i} \in SUBSET Server /\ \A p \in {i} : <<t, p, i>> \in votesCast'
      BY <1>1
    <3>2. IsMajority(Cardinality({i}))
      BY <1>9, FS_Singleton
    <3> QED BY <3>1, <3>2, CountedMajority
  <2>3. ElectedByMajority'
    <3> SUFFICES ASSUME NEW e \in elected'
                 PROVE  IsMajority(Cardinality(Voters(e[1], e[2])'))
      BY DEF ElectedByMajority
    <3>1. CASE e \in elected
      BY <3>1, <1>8
    <3>2. CASE e = <<t, i>>
      <4>1. e[1] = t /\ e[2] = i
        BY <3>2
      <4> QED BY <4>1, <2>2
    <3> QED BY <2>1, <3>1, <3>2
  <2>4. LeadersElected'
    BY <1>1, <1>6, <2>1 DEF ElectionInv, LeadersElected
  <2> QED BY <1>2, <1>5, <1>7, <2>3, <2>4 DEF ElectionInv
<1>10. CASE ~IsMajority(1)
  <2>1. elected' = elected /\ state'[i] = Candidate
    BY <1>10 DEF TypeOK, startElection
  <2>2. ElectedByMajority'
    BY <1>8, <2>1 DEF ElectedByMajority
  <2>3. LeadersElected'
    BY <1>1, <1>6, <2>1 DEF ElectionInv, LeadersElected, Candidate, Leader
  <2> QED BY <1>2, <1>5, <1>7, <2>2, <2>3 DEF ElectionInv
<1> QED BY <1>9, <1>10

\* RequestVote keeps the election invariant: a vote is granted only in a new
\* term, or again to the candidate it was already given to.
LEMMA ElectionVote ==
  ASSUME TypeOK, TypeOK', ElectionInv, NEW m \in rpcs, RequestVote(m)
  PROVE  ElectionInv'
<1> DEFINE i == m.to
           stale   == dead[i] \/ m.Term < currentTerm[i]
           granted == ~stale /\ canVote(m, i) /\ UpToDate(m, i)
           higher  == ~stale /\ m.Term > currentTerm[i]
           reply   == [type |-> "RequestVoteReply", from |-> i, to |-> m.from,
                       Term |-> currentTerm'[i], VoteGranted |-> granted,
                       term |-> m.Term]
<1>1. /\ i \in Server /\ m.from \in Server /\ m.Term \in Nat
      /\ currentTerm[i] \in Nat
  BY RPCTypes DEF TypeOK, RequestVote, RequestVoteArgs
<1>2. /\ currentTerm' = [currentTerm EXCEPT ![i] = IF higher THEN m.Term ELSE @]
      /\ votedFor' = [votedFor EXCEPT ![i] =
                        IF granted THEN m.from ELSE IF higher THEN None ELSE @]
      /\ state' = [state EXCEPT ![i] = IF higher THEN Follower ELSE @]
      /\ votesCast' = votesCast \cup
                        (IF granted THEN {<<m.Term, i, m.from>>} ELSE {})
      /\ Answer(m, reply)
      /\ UNCHANGED <<votesGranted, elected>>
  BY DEF RequestVote
<1>3. /\ granted => m.Term >= currentTerm[i]
      /\ granted /\ ~higher => m.Term = currentTerm[i]
      /\ granted => \/ m.Term > currentTerm[i]
                    \/ votedFor[i] \in {None, m.from}
      /\ higher => m.Term > currentTerm[i]
      /\ granted /\ m.Term > currentTerm[i] => higher
  BY <1>1 DEF canVote
<1>4. granted \in BOOLEAN /\ higher \in BOOLEAN
  OBVIOUS
<1>5. reply.type = "RequestVoteReply" /\ reply.VoteGranted = granted
      /\ reply.term = m.Term /\ reply.from = i /\ reply.to = m.from
  OBVIOUS
<1>6. \A r \in rpcs' : r \in rpcs \/ r = reply
  BY <1>2 DEF Answer
<1> HIDE DEF granted, higher, reply
<1>7. \A j \in Server \ {i} :
         /\ currentTerm'[j] = currentTerm[j] /\ votedFor'[j] = votedFor[j]
         /\ state'[j] = state[j]
  BY <1>1, <1>2 DEF TypeOK
<1>8. /\ currentTerm'[i] = IF higher THEN m.Term ELSE currentTerm[i]
      /\ votedFor'[i] = IF granted THEN m.from ELSE
                          IF higher THEN None ELSE votedFor[i]
      /\ state'[i] = IF higher THEN Follower ELSE state[i]
  BY <1>1, <1>2 DEF TypeOK
<1>9. CASE granted
  <2>1. votesCast' = votesCast \cup {<<m.Term, i, m.from>>}
    BY <1>2, <1>9
  <2>2. currentTerm'[i] = m.Term /\ votedFor'[i] = m.from
    BY <1>3, <1>8, <1>9
  <2>3. VotesBind' /\ OneVotePerTerm'
    <3>1. \/ m.Term > currentTerm[i]
          \/ m.Term = currentTerm[i] /\ votedFor[i] \in {None, m.from}
      BY <1>1, <1>3, <1>9
    <3> HIDE DEF i
    <3> QED BY <1>1, <1>7, <2>1, <2>2, <3>1, NewVote
  <2>4. GrantsAreVotes'
    BY <1>5, <1>6, <2>1 DEF ElectionInv, GrantsAreVotes
  <2>5. \A j \in Server : state'[j] # Follower =>
           state'[j] = state[j] /\ currentTerm'[j] = currentTerm[j]
    BY <1>7, <1>8
  <2>6. CountsAreVotes'
    BY <1>2, <2>1, <2>5 DEF ElectionInv, CountsAreVotes, Follower, Candidate
  <2>7. ElectedByMajority'
    <3>1. votesCast \subseteq votesCast'
      BY <2>1
    <3> QED BY <1>2, <3>1, MoreVotes DEF ElectionInv, ElectedByMajority
  <2>8. LeadersElected'
    BY <1>2, <2>5 DEF ElectionInv, LeadersElected, Follower, Leader
  <2> QED BY <2>3, <2>4, <2>6, <2>7, <2>8 DEF ElectionInv
<1>10. CASE ~granted
  <2>1. UNCHANGED <<votesCast, elected>>
    BY <1>2, <1>10
  <2>2. \A r \in rpcs' : r.type = "RequestVoteReply" /\ r.VoteGranted => r \in rpcs
    BY <1>5, <1>6, <1>10
  <2>3. \A j \in Server :
           /\ currentTerm[j] <= currentTerm'[j]
           /\ currentTerm'[j] = currentTerm[j] => votedFor'[j] = votedFor[j]
    <3> SUFFICES ASSUME NEW j \in Server
                 PROVE  /\ currentTerm[j] <= currentTerm'[j]
                        /\ currentTerm'[j] = currentTerm[j] => votedFor'[j] = votedFor[j]
      OBVIOUS
    <3>1. currentTerm[j] \in Nat
      BY DEF TypeOK
    <3>2. CASE j = i
      BY <1>1, <1>3, <1>8, <1>10, <3>2
    <3>3. CASE j # i
      BY <1>7, <3>1, <3>3
    <3> QED BY <3>2, <3>3
  <2>4. \A j \in Server : state'[j] # Follower =>
           state'[j] = state[j] /\ currentTerm'[j] = currentTerm[j]
    BY <1>7, <1>8
  <2>5. VoteFrame
    BY <1>2, <2>1, <2>2, <2>3, <2>4 DEF VoteFrame, Follower, Candidate, Leader
  <2> QED BY <2>5, FramePreserves
<1> QED BY <1>9, <1>10

\* Counting a vote keeps the election invariant: the reply counted is of the
\* candidate's current term, so the majority it completes is of that term.
LEMMA ElectionCount ==
  ASSUME TypeOK, TypeOK', ElectionInv, NEW m \in rpcs, RequestVoteReply(m)
  PROVE  ElectionInv'
<1> DEFINE i == m.to
<1>1. i \in Server /\ m.from \in Server /\ m.Term \in Nat /\ m.term \in Nat
  BY RPCTypes DEF TypeOK, RequestVoteReply, RequestVoteReplies
<1>2. votesCast' = votesCast /\ rpcs' \subseteq rpcs
  BY DEF RequestVoteReply
<1>3. CASE stepDown(i, m.Term) /\ UNCHANGED <<leadership, votesGranted, elected>>
  <2>1. VoteFrame
    BY <1>1, <1>2, <1>3, FrameFollower DEF stepDown
  <2> QED BY <2>1, FramePreserves
<1>4. CASE UNCHANGED <<persistent, persister, state, leadership,
                       votesGranted, elected>>
  <2>1. VoteFrame
    BY <1>2, <1>4, FrameUnchanged DEF persistent
  <2> QED BY <2>1, FramePreserves
<1>5. CASE /\ state[i] = Candidate /\ currentTerm[i] = m.term /\ m.VoteGranted
           /\ votesGranted' = [votesGranted EXCEPT ![i] = @ \cup {m.from}]
           /\ UNCHANGED <<persistent, persister>>
           /\ IF IsMajority(Cardinality(votesGranted'[i]))
              THEN becomeLeader(i)
              ELSE UNCHANGED <<state, leadership, elected>>
  <2>1. UNCHANGED <<currentTerm, votedFor>>
    BY <1>5 DEF persistent
  <2>2. /\ votesGranted'[i] = votesGranted[i] \cup {m.from}
        /\ \A j \in Server \ {i} : votesGranted'[j] = votesGranted[j]
    <3>1. votesGranted \in [Server -> SUBSET Server]
      BY DEF TypeOK
    <3>2. votesGranted' = [votesGranted EXCEPT ![i] = votesGranted[i] \cup {m.from}]
      BY <1>5
    <3> QED BY <1>1, <3>1, <3>2
  <2>3. \A p \in votesGranted'[i] : <<m.term, p, i>> \in votesCast
    <3>1. m.type = "RequestVoteReply"
      BY DEF RequestVoteReply
    <3>2. <<m.term, m.from, i>> \in votesCast
      BY <1>5, <3>1 DEF ElectionInv, GrantsAreVotes
    <3>3. \A p \in votesGranted[i] : <<m.term, p, i>> \in votesCast
      BY <1>1, <1>5 DEF ElectionInv, CountsAreVotes
    <3> QED BY <2>2, <3>2, <3>3
  <2>4. VotesBind' /\ OneVotePerTerm' /\ GrantsAreVotes'
    BY <1>2, <2>1 DEF ElectionInv, VotesBind, OneVotePerTerm, GrantsAreVotes
  <2>5. \A e \in elected : IsMajority(Cardinality(Voters(e[1], e[2])'))
    BY <1>2, MoreVotes DEF ElectionInv, ElectedByMajority
  <2>6. CASE becomeLeader(i) /\ IsMajority(Cardinality(votesGranted'[i]))
    <3>1. elected' = elected \cup {<<m.term, i>>}
      BY <1>5, <2>1, <2>6 DEF becomeLeader
    <3>2. \A j \in Server \ {i} : state'[j] = state[j]
      BY <1>1, <2>6 DEF TypeOK, becomeLeader
    <3>3. state'[i] = Leader
      BY <1>1, <2>6 DEF TypeOK, becomeLeader
    <3>4. CountsAreVotes'
      BY <1>2, <2>1, <2>2, <3>2, <3>3
         DEF ElectionInv, CountsAreVotes, Candidate, Leader
    <3>5. LeadersElected'
      BY <1>1, <1>5, <2>1, <3>1, <3>2 DEF ElectionInv, LeadersElected
    <3>6. IsMajority(Cardinality(Voters(m.term, i)'))
      <4> DEFINE Q == votesGranted'[i]
      <4>1. Q \in SUBSET Server /\ \A p \in Q : <<m.term, p, i>> \in votesCast'
        BY <1>1, <1>2, <2>3 DEF TypeOK
      <4>2. IsMajority(Cardinality(Q))
        BY <2>6
      <4> HIDE DEF Q
      <4> QED BY <4>1, <4>2, CountedMajority
    <3>7. ElectedByMajority'
      <4> SUFFICES ASSUME NEW e \in elected'
                   PROVE  IsMajority(Cardinality(Voters(e[1], e[2])'))
        BY DEF ElectedByMajority
      <4>1. CASE e \in elected
        BY <4>1, <2>5
      <4>2. CASE e = <<m.term, i>>
        <5>1. e[1] = m.term /\ e[2] = i
          BY <4>2
        <5> QED BY <5>1, <3>6
      <4> QED BY <3>1, <4>1, <4>2
    <3> QED BY <2>4, <3>4, <3>5, <3>7 DEF ElectionInv
  <2>7. CASE UNCHANGED <<state, leadership, elected>>
    <3>1. CountsAreVotes'
      BY <1>2, <1>5, <2>1, <2>2, <2>3, <2>7 DEF ElectionInv, CountsAreVotes
    <3>2. ElectedByMajority' /\ LeadersElected'
      BY <2>1, <2>5, <2>7 DEF ElectionInv, ElectedByMajority, LeadersElected
    <3> QED BY <2>4, <3>1, <3>2 DEF ElectionInv
  <2> QED BY <1>5, <2>6, <2>7
<1> QED BY <1>3, <1>4, <1>5 DEF RequestVoteReply

\* Every step of the group keeps the election invariant.
LEMMA ElectionStep ==
  ASSUME TypeOK, TypeOK', PersistBeforeReply, ElectionInv, [Next]_vars
  PROVE  ElectionInv'
<1>1. CASE UNCHANGED vars
  BY <1>1, FrameUnchanged, FramePreserves DEF vars, persistent
<1>2. ASSUME NEW i \in Server, NEW reach \in SUBSET (Server \ {i}),
             startElection(i, reach)
      PROVE  ElectionInv'
  BY <1>2, ElectionStart
<1>3. ASSUME NEW i \in Server,
             \/ Start(i) \/ applier(i) \/ Deliver(i) \/ Snapshot(i) \/ Kill(i)
             \/ Make(i) \/ \E p \in Server : Replicate(i, p) \/ Heartbeat(i, p)
      PROVE  ElectionInv'
  BY <1>3, FrameLocal, FramePreserves
<1>4. ASSUME NEW m \in rpcs, Handle(m)
      PROVE  ElectionInv'
  <2>1. CASE DropRPC(m)
    BY <2>1, FrameUnchanged, FramePreserves DEF DropRPC, persistent
  <2> QED BY <1>4, <2>1, ElectionVote, ElectionCount, FrameRequests,
             FrameReplies, FramePreserves DEF Handle
<1> QED BY <1>1, <1>2, <1>3, <1>4 DEF Next

\* The votes of one server in one term go to one candidate, and two
\* majorities share a voter, so a term has one leader.
LEMMA MajoritiesAgree ==
  ASSUME TypeOK, ElectionInv
  PROVE  ElectionSafety
<1> SUFFICES ASSUME NEW a \in elected, NEW b \in elected, a[1] = b[1]
             PROVE  a[2] = b[2]
  BY DEF ElectionSafety
<1> DEFINE A == Voters(a[1], a[2])
           B == Voters(b[1], b[2])
<1>1. A \subseteq Server /\ B \subseteq Server
  BY DEF Voters
<1>2. IsMajority(Cardinality(A)) /\ IsMajority(Cardinality(B))
  BY DEF ElectionInv, ElectedByMajority
<1>3. /\ IsFiniteSet(Server) /\ IsFiniteSet(A) /\ IsFiniteSet(B)
  BY <1>1, ServerAssumption, FS_Subset
<1> HIDE DEF A, B
<1>4. /\ Cardinality(Server) \in Nat /\ Cardinality(A) \in Nat
      /\ Cardinality(B) \in Nat
  BY <1>3, FS_CardinalityType
<1>5. Cardinality(A) + Cardinality(B) > Cardinality(Server)
  BY <1>2, <1>4 DEF IsMajority
<1>6. A \cap B # {}
  BY <1>1, <1>3, <1>5, FS_MajoritiesIntersect
<1>7. PICK p : p \in A /\ p \in B
  BY <1>6
<1>8. <<a[1], p, a[2]>> \in votesCast /\ <<a[1], p, b[2]>> \in votesCast
  BY <1>7 DEF A, B, Voters
<1> QED BY <1>8 DEF ElectionInv, OneVotePerTerm

\* The inductive invariant of elections holds in every reachable state.
THEOREM ElectionInvariant == Spec => []ElectionInv
<1>1. Init => ElectionInv
  BY DEF Init, ElectionInv, VotesBind, OneVotePerTerm, GrantsAreVotes,
         CountsAreVotes, ElectedByMajority, LeadersElected,
         Follower, Candidate, Leader
<1>2. TypeOK /\ TypeOK' /\ PersistBeforeReply /\ ElectionInv /\ [Next]_vars
        => ElectionInv'
  BY ElectionStep
<1> QED BY <1>1, <1>2, TypeCorrect, Durability, PTL DEF Spec

\* No server votes for two candidates in one term, however often it crashes
\* and recovers (RequestVote, startElection, persist, readPersist).
THEOREM VotesUnique == Spec => []OneVotePerTerm
<1>1. ElectionInv => OneVotePerTerm
  BY DEF ElectionInv
<1> QED BY <1>1, ElectionInvariant, PTL

\* At most one server is elected per term, in groups of any size (the vote
\* counting of startElection and the vote rule of RequestVote).
THEOREM OneLeaderPerTerm == Spec => []ElectionSafety
<1>1. TypeOK /\ ElectionInv => ElectionSafety
  BY MajoritiesAgree
<1> QED BY <1>1, TypeCorrect, ElectionInvariant, PTL

=============================================================================
