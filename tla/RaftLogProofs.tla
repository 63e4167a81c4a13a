--------------------------- MODULE RaftLogProofs ---------------------------
(***************************************************************************)
(* Safety of the replicated log and of the service above it, for every     *)
(* group size, log length, term and number of crashes, lost calls and      *)
(* snapshots.                                                              *)
(*                                                                         *)
(* A log entry is safe because of what was true in the past: which entries *)
(* each term's leader had, and what each server acknowledged before it     *)
(* moved on.  The invariant Explained says that such a past exists.  From  *)
(* it follows what the applier hands to the service (ServiceInv), and from *)
(* both that terms, commit indices and boundaries only grow.               *)
(***************************************************************************)
EXTENDS RaftProofs

(***************************************************************************)
(* The history that explains a state: the log each term's leader had, how  *)
(* long it was, and up to which index each server acknowledged it.  It is  *)
(* quantified in the invariant, so the model needs no variables for it.    *)
(***************************************************************************)
History == [log : [Nat -> [Nat -> Entry]], len : [Nat -> Nat],
            acked : [Server -> [Nat -> Nat]]]

\* The sets of servers that elect and commit.
Majorities == {Q \in SUBSET Server : IsMajority(Cardinality(Q))}

\* The leaders of s and t had the same log up to n.
Same(h, s, t, n) == \A k \in 0..n : h.log[s][k] = h.log[t][k]

\* Leader t created entry n itself; leader u had entry n of leader t; server i
\* has it, in its log or under its snapshot.
Created(h, n, t) == n \in 1..h.len[t] /\ h.log[t][n].Term = t
Contains(h, u, n, t) == n <= h.len[u] /\ h.log[u][n].Term = t
Holds(h, i, n, t) == n <= lastLogIndex(i) /\ h.log[lastLogTerm(i)][n].Term = t

\* Entry n of leader t is committed by a majority; or it never will be, because
\* a majority has left the term without it.
Chosen(h, n, t) ==
    /\ Created(h, n, t)
    /\ \E Q \in Majorities : \A q \in Q : h.acked[q][t] >= n
Blocked(h, n, t) ==
    \E Q \in Majorities : \A q \in Q : currentTerm[q] > t /\ h.acked[q][t] < n

\* Everything up to c was committed by leaders of terms up to t.
Known(h, c, t) == c > 0 => \E u \in 0..t, n \in Nat : c <= n /\ Chosen(h, n, u)

\* Every leader's log is made of pieces of its predecessors' logs.
Lineage(h) ==
    /\ h \in History
    /\ \A t \in Nat : h.log[t][0] = [Term |-> 0, Command |-> None]
    /\ \A t \in Nat : h.len[t] > 0 => \E i \in Server : <<t, i>> \in elected
    /\ \A t \in Nat : \A k \in 1..h.len[t] :
         LET u == h.log[t][k].Term IN
         u \in 1..t /\ k <= h.len[u] /\ Same(h, u, t, k)
    /\ \A t \in Nat : \A k \in 0..h.len[t] : \A j \in 0..k :
         h.log[t][j].Term <= h.log[t][k].Term

\* What server i stores is the log of the leader of its last term, up to its
\* last index and from its snapshot on.
Stored(h, i) ==
    LET t == lastLogTerm(i) IN
    /\ t <= currentTerm[i]
    /\ lastLogIndex(i) <= h.len[t]
    /\ \A k \in lastIncludedIndex[i]..lastLogIndex(i) :
         /\ termAt(i, k) = h.log[t][k].Term
         /\ k > lastIncludedIndex[i] => entryAt(i, k) = h.log[t][k]
    /\ lastIncludedTerm[i] = termAt(i, lastIncludedIndex[i])

\* A leader has the whole log of its term and does not overrate its peers; a
\* candidate has not been elected.
Role(h, i) ==
    /\ state[i] = Leader =>
         /\ lastLogIndex(i) = h.len[currentTerm[i]]
         /\ Same(h, lastLogTerm(i), currentTerm[i], lastLogIndex(i))
         /\ \A p \in Server : matchIndex[i][p] <= h.acked[p][currentTerm[i]]
    /\ state[i] = Candidate => <<currentTerm[i], i>> \notin elected
    /\ state[i] # Follower => currentTerm[i] >= 1

\* What server q acknowledged in its term it has.  What it acknowledged in
\* earlier terms it still has if it can still be committed.
Acked(h, q) ==
    \A t \in Nat :
      /\ h.acked[q][t] <= h.len[t]
      /\ h.acked[q][t] > 0 => t <= currentTerm[q]
      /\ t = currentTerm[q] =>
           /\ h.acked[q][t] <= lastLogIndex(q)
           /\ Same(h, lastLogTerm(q), t, h.acked[q][t])
      /\ \A n \in 1..h.acked[q][t] :
           Created(h, n, t) => Holds(h, q, n, t) \/ Blocked(h, n, t)

\* Server i holds everything up to its commit index, as it was committed.
Commits(h, i) ==
    /\ lastIncludedIndex[i] <= commitIndex[i]
    /\ lastApplied[i] <= commitIndex[i]
    /\ pendingSnapshot[i] # None => pendingSnapshot[i].Index <= commitIndex[i]
    /\ commitIndex[i] <= lastLogIndex(i)
    /\ commitIndex[i] <= Len(committed)
    /\ Known(h, commitIndex[i], currentTerm[i])
    /\ \A k \in 1..commitIndex[i] : h.log[lastLogTerm(i)][k] = committed[k]

\* Nobody is voted for or elected in a term it has not reached.
Terms ==
    /\ \A e \in elected : e[1] >= 1 /\ e[1] <= currentTerm[e[2]]
    /\ \A v \in votesCast : v[1] <= currentTerm[v[3]]

\* A later leader has the entry, unless it cannot be committed any more.
Complete(h) ==
    \A e \in elected : \A t \in Nat : \A n \in 1..h.len[t] :
      t < e[1] /\ Created(h, n, t) => Contains(h, e[1], n, t) \/ Blocked(h, n, t)

\* A candidate has what its voter has acknowledged.
Ballot(h, v) ==
    \A t \in Nat : \A n \in 1..h.acked[v[2]][t] :
      /\ state[v[3]] = Candidate /\ currentTerm[v[3]] = v[1]
      /\ t < v[1] /\ Created(h, n, t)
      => Holds(h, v[3], n, t) \/ Blocked(h, n, t)

\* What is committed was chosen.
Agreed(h) ==
    /\ committed \in Seq(Entry)
    /\ Len(committed) > 0 =>
         \E t \in Nat, n \in Nat :
           /\ Chosen(h, n, t) /\ Len(committed) <= n
           /\ \A k \in 1..Len(committed) : committed[k] = h.log[t][k]

\* A refusal tells the leader of term t where to go on: not at prev, where the
\* logs differ, but before it or at an index past a snapshot.
Hint(h, t, prev, hint) ==
    /\ prev <= h.len[t]
    /\ hint.ConflictTerm # h.log[t][prev].Term
    /\ \/ hint.ConflictIndex <= prev
       \/ /\ hint.ConflictTerm = -1
          /\ prev + 2 <= hint.ConflictIndex /\ hint.ConflictIndex <= h.len[t] + 1

\* What is in flight is true of the sender's term.
Sound(h, m) ==
    /\ m.type = "RequestVote" =>
         /\ m.Term <= currentTerm[m.from]
         /\ m.Term = currentTerm[m.from] /\ state[m.from] = Candidate =>
              m.LastLogIndex = lastLogIndex(m.from) /\ m.LastLogTerm = lastLogTerm(m.from)
    /\ m.type \in {"AppendEntries", "Heartbeat"} =>
         /\ \E i \in Server : <<m.Term, i>> \in elected
         /\ m.PrevLogIndex + Len(m.Entries) <= h.len[m.Term]
         /\ m.PrevLogTerm = h.log[m.Term][m.PrevLogIndex].Term
         /\ \A k \in 1..Len(m.Entries) : m.Entries[k] = h.log[m.Term][m.PrevLogIndex + k]
         /\ m.LeaderCommit <= Len(committed) /\ Known(h, m.LeaderCommit, m.Term)
    /\ m.type = "InstallSnapshot" =>
         /\ \E i \in Server : <<m.Term, i>> \in elected
         /\ m.LastIncludedIndex <= h.len[m.Term]
         /\ m.LastIncludedTerm = h.log[m.Term][m.LastIncludedIndex].Term
         /\ m.LastIncludedIndex <= Len(committed) /\ Known(h, m.LastIncludedIndex, m.Term)
    /\ m.type = "AppendEntriesReply" /\ m.Success =>
         m.PrevLogIndex + m.Count <= h.acked[m.from][m.term]
    /\ m.type = "AppendEntriesReply" /\ ~m.Success => Hint(h, m.term, m.PrevLogIndex, m)
    /\ m.type = "InstallSnapshotReply" /\ ~m.Stopped /\ m.Term <= m.term =>
         m.LastIncludedIndex <= h.acked[m.from][m.term]

\* History h explains the state.
LogInv(h) ==
    /\ Lineage(h) /\ Terms /\ Complete(h) /\ Agreed(h)
    /\ \A i \in Server : Stored(h, i) /\ Role(h, i) /\ Acked(h, i) /\ Commits(h, i)
    /\ \A v \in votesCast : Ballot(h, v)
    /\ \A m \in rpcs : Sound(h, m)

(***************************************************************************)
(* The history on its own.                                                 *)
(***************************************************************************)
\* Two majorities share a server.
LEMMA MajoritiesMeet ==
  ASSUME NEW P \in Majorities, NEW Q \in Majorities
  PROVE  \E p \in Server : p \in P /\ p \in Q
<1>1. P \subseteq Server /\ Q \subseteq Server
  BY DEF Majorities
<1>2. IsMajority(Cardinality(P)) /\ IsMajority(Cardinality(Q))
  BY DEF Majorities
<1>3. IsFiniteSet(Server) /\ IsFiniteSet(P) /\ IsFiniteSet(Q)
  BY <1>1, ServerAssumption, FS_Subset
<1>4. Cardinality(Server) \in Nat /\ Cardinality(P) \in Nat /\ Cardinality(Q) \in Nat
  BY <1>3, FS_CardinalityType
<1>5. Cardinality(P) + Cardinality(Q) > Cardinality(Server)
  BY <1>2, <1>4 DEF IsMajority
<1>6. P \cap Q # {}
  BY <1>1, <1>3, <1>5, FS_MajoritiesIntersect
<1> QED BY <1>1, <1>6

\* The types of a history, in the form the provers use.
LEMMA HistoryTypes ==
  ASSUME NEW h \in History
  PROVE  /\ \A t \in Nat : h.len[t] \in Nat
         /\ \A t, k \in Nat : h.log[t][k] \in Entry /\ h.log[t][k].Term \in Nat
         /\ \A q \in Server, t \in Nat : h.acked[q][t] \in Nat
<1>1. /\ h.len \in [Nat -> Nat] /\ h.log \in [Nat -> [Nat -> Entry]]
      /\ h.acked \in [Server -> [Nat -> Nat]]
  BY DEF History
<1>2. \A t, k \in Nat : h.log[t][k] \in Entry
  BY <1>1
<1>3. \A t, k \in Nat : h.log[t][k].Term \in Nat
  BY <1>2 DEF Entry
<1> QED BY <1>1, <1>2, <1>3

\* An entry of a leader's log came from the leader of its term, with all that
\* precedes it.
LEMMA Origin ==
  ASSUME NEW h, Lineage(h), NEW t \in Nat, NEW k \in 0..h.len[t]
  PROVE  LET u == h.log[t][k].Term IN
         /\ u \in Nat /\ u <= t /\ k <= h.len[u] /\ Same(h, u, t, k)
         /\ h.log[u][k].Term = u
<1> DEFINE u == h.log[t][k].Term
<1>1. h \in History
  BY DEF Lineage
<1>2. h.len[t] \in Nat /\ k \in Nat /\ u \in Nat
  BY <1>1, HistoryTypes
<1>3. CASE k = 0
  <2>1. \A s \in Nat : h.log[s][0] = [Term |-> 0, Command |-> None]
    BY DEF Lineage
  <2>2. u = 0 /\ h.log[u][k].Term = 0
    BY <1>3, <2>1
  <2>3. h.len[u] \in Nat
    BY <1>1, <1>2, HistoryTypes
  <2>4. Same(h, u, t, k)
    BY <1>3, <2>1, <2>2 DEF Same
  <2> QED BY <1>3, <2>2, <2>3, <2>4
<1>4. CASE k # 0
  <2>1. k \in 1..h.len[t]
    BY <1>2, <1>4
  <2>2. u \in 1..t /\ k <= h.len[u] /\ Same(h, u, t, k)
    BY <2>1 DEF Lineage
  <2>3. h.log[u][k] = h.log[t][k]
    BY <1>2, <2>2 DEF Same
  <2> QED BY <2>2, <2>3
<1> QED BY <1>3, <1>4

\* Two leaders whose entries at an index have the same term had the same log up
\* to it.
LEMMA SameTerm ==
  ASSUME NEW h, Lineage(h), NEW s \in Nat, NEW t \in Nat, NEW k \in Nat,
         k <= h.len[s], k <= h.len[t], h.log[s][k].Term = h.log[t][k].Term
  PROVE  Same(h, s, t, k)
<1>1. h.len[s] \in Nat /\ h.len[t] \in Nat
  BY HistoryTypes DEF Lineage
<1>2. k \in 0..h.len[s] /\ k \in 0..h.len[t]
  BY <1>1
<1>3. Same(h, h.log[s][k].Term, s, k) /\ Same(h, h.log[t][k].Term, t, k)
  BY <1>2, Origin
<1> QED BY <1>3 DEF Same

\* Terms do not decrease along a log.
LEMMA TermsGrow ==
  ASSUME NEW h, Lineage(h), NEW t \in Nat, NEW j \in Nat, NEW k \in Nat,
         j <= k, k <= h.len[t]
  PROVE  h.log[t][j].Term <= h.log[t][k].Term
<1>1. k \in 0..h.len[t] /\ j \in 0..k
  BY HistoryTypes DEF Lineage
<1> QED BY <1>1 DEF Lineage

\* What a majority has acknowledged no majority has left the term without.
LEMMA ChosenOrBlocked ==
  ASSUME NEW h \in History, NEW n \in Nat, NEW t \in Nat, Chosen(h, n, t), Blocked(h, n, t)
  PROVE  FALSE
<1>1. PICK P \in Majorities : \A q \in P : h.acked[q][t] >= n
  BY DEF Chosen
<1>2. PICK Q \in Majorities : \A q \in Q : h.acked[q][t] < n
  BY DEF Blocked
<1>3. PICK p \in Server : p \in P /\ p \in Q
  BY MajoritiesMeet
<1>4. h.acked[p][t] \in Nat
  BY HistoryTypes
<1> QED BY <1>1, <1>2, <1>3, <1>4

\* A leader of the term or of a later one has what was chosen.
LEMMA ChosenIn ==
  ASSUME NEW h, Lineage(h), Complete(h), NEW n \in Nat, NEW t \in Nat, Chosen(h, n, t),
         NEW u \in Nat, t <= u, u = t \/ \E i \in Server : <<u, i>> \in elected
  PROVE  n <= h.len[u] /\ Same(h, t, u, n)
<1>1. h \in History /\ Created(h, n, t) /\ n \in 1..h.len[t] /\ h.log[t][n].Term = t
  BY DEF Lineage, Chosen, Created
<1>2. h.len[t] \in Nat
  BY <1>1, HistoryTypes
<1>3. CASE u = t
  BY <1>1, <1>2, <1>3 DEF Same
<1>4. CASE t < u
  <2>1. PICK e \in elected : e[1] = u
    <3>1. PICK i \in Server : <<u, i>> \in elected
      BY <1>4
    <3> QED BY <3>1
  <2>2. Contains(h, u, n, t) \/ Blocked(h, n, t)
    BY <1>1, <1>4, <2>1 DEF Complete
  <2>3. Contains(h, u, n, t)
    BY <1>1, <2>2, ChosenOrBlocked
  <2> QED BY <1>1, <1>2, <2>3, SameTerm DEF Contains
<1> QED BY <1>3, <1>4

\* What is chosen was created, by a leader that was elected.
LEMMA ChosenElected ==
  ASSUME NEW h, Lineage(h), NEW n \in Nat, NEW t \in Nat, Chosen(h, n, t)
  PROVE  n <= h.len[t] /\ n >= 1 /\ \E i \in Server : <<t, i>> \in elected
<1>1. h \in History /\ n \in 1..h.len[t]
  BY DEF Lineage, Chosen, Created
<1>2. h.len[t] \in Nat
  BY <1>1, HistoryTypes
<1>3. h.len[t] > 0
  BY <1>1, <1>2
<1> QED BY <1>1, <1>3 DEF Lineage

\* Two chosen logs agree.
LEMMA ChosenAgree ==
  ASSUME NEW h, Lineage(h), Complete(h), NEW n \in Nat, NEW t \in Nat, Chosen(h, n, t),
         NEW m \in Nat, NEW u \in Nat, Chosen(h, m, u),
         NEW k \in Nat, k <= n, k <= m
  PROVE  h.log[t][k] = h.log[u][k]
<1>1. CASE t <= u
  <2>1. Same(h, t, u, n)
    BY <1>1, ChosenElected, ChosenIn
  <2> QED BY <2>1 DEF Same
<1>2. CASE u <= t
  <2>1. Same(h, u, t, m)
    BY <1>2, ChosenElected, ChosenIn
  <2> QED BY <2>1 DEF Same
<1> QED BY <1>1, <1>2

\* The leader of a term has everything that is known committed in it, as it
\* was committed.
LEMMA KnownIn ==
  ASSUME NEW h, Lineage(h), Complete(h), Agreed(h), NEW c \in Nat, NEW t \in Nat,
         Known(h, c, t), c <= Len(committed),
         NEW u \in Nat, t <= u, \E i \in Server : <<u, i>> \in elected
  PROVE  c <= h.len[u] /\ \A k \in 1..c : h.log[u][k] = committed[k]
<1>1. CASE c = 0
  BY <1>1, HistoryTypes DEF Lineage
<1>2. CASE c > 0
  <2>1. PICK s \in 0..t, n \in Nat : c <= n /\ Chosen(h, n, s)
    BY <1>2 DEF Known
  <2>2. s \in Nat /\ s <= u
    BY <2>1
  <2>3. n <= h.len[u] /\ Same(h, s, u, n)
    BY <2>1, <2>2, ChosenIn
  <2>4. h.len[u] \in Nat
    BY HistoryTypes DEF Lineage
  <2>5. Len(committed) \in Nat
    BY DEF Agreed
  <2>6. PICK r \in Nat, m \in Nat :
           /\ Chosen(h, m, r) /\ Len(committed) <= m
           /\ \A k \in 1..Len(committed) : committed[k] = h.log[r][k]
    BY <1>2, <2>5 DEF Agreed
  <2>7. ASSUME NEW k \in 1..c PROVE h.log[u][k] = committed[k]
    <3>1. k \in Nat /\ k <= n /\ k <= m /\ k \in 1..Len(committed) /\ k \in 0..n
      BY <2>1, <2>5, <2>6
    <3>2. h.log[s][k] = h.log[r][k]
      BY <2>1, <2>2, <2>6, <3>1, ChosenAgree
    <3>3. h.log[s][k] = h.log[u][k]
      BY <2>3, <3>1 DEF Same
    <3> QED BY <2>6, <3>1, <3>2, <3>3
  <2> QED BY <2>1, <2>3, <2>4, <2>7
<1> QED BY <1>1, <1>2

(***************************************************************************)
(* The servers' logs.                                                      *)
(***************************************************************************)
\* The terms and indices of a server's log, and the history's entry at its end.
LEMMA ServerLog ==
  ASSUME TypeOK, NEW h, Lineage(h), NEW i \in Server, Stored(h, i)
  PROVE  /\ lastLogTerm(i) \in Nat /\ lastLogIndex(i) \in Nat
         /\ currentTerm[i] \in Nat /\ lastIncludedIndex[i] \in Nat
         /\ lastIncludedIndex[i] <= lastLogIndex(i)
         /\ lastLogIndex(i) <= h.len[lastLogTerm(i)]
         /\ h.log[lastLogTerm(i)][lastLogIndex(i)].Term = lastLogTerm(i)
<1>0. PersistentTypes
  BY DEF TypeOK, PersistentTypes
<1>1. /\ Len(logs[i]) \in Nat /\ Len(logs[i]) >= 1 /\ lastIncludedIndex[i] \in Nat
      /\ lastLogIndex(i) \in Nat /\ lastLogTerm(i) \in Nat
  BY <1>0, LogFacts
<1>2. lastIncludedIndex[i] <= lastLogIndex(i)
  BY <1>1 DEF lastLogIndex
<1>3. currentTerm[i] \in Nat
  BY DEF TypeOK
<1>4. lastLogIndex(i) \in lastIncludedIndex[i]..lastLogIndex(i)
  BY <1>1, <1>2
<1>5. termAt(i, lastLogIndex(i)) = lastLogTerm(i)
  BY <1>1 DEF termAt, toOffset, lastLogIndex, lastLogTerm
<1>6. termAt(i, lastLogIndex(i)) = h.log[lastLogTerm(i)][lastLogIndex(i)].Term
  BY <1>4 DEF Stored
<1>7. lastLogIndex(i) <= h.len[lastLogTerm(i)]
  BY DEF Stored
<1> QED BY <1>1, <1>2, <1>3, <1>5, <1>6, <1>7

\* The comparison of RequestVote: whoever is at least as up to date as a server
\* with an entry has the entry too, if the entry can still be committed.
LEMMA UpToDateHolds ==
  ASSUME TypeOK, NEW h, Lineage(h), Complete(h),
         NEW i \in Server, NEW j \in Server, Stored(h, i), Stored(h, j),
         AtLeastAsUpToDate(i, j),
         NEW n \in Nat, NEW t \in Nat, Created(h, n, t), Holds(h, j, n, t)
  PROVE  Holds(h, i, n, t) \/ Blocked(h, n, t)
<1> DEFINE u == lastLogTerm(i)
           v == lastLogTerm(j)
<1>1. /\ u \in Nat /\ lastLogIndex(i) \in Nat
      /\ lastLogIndex(i) <= h.len[u] /\ h.log[u][lastLogIndex(i)].Term = u
  BY ServerLog
<1>2. /\ v \in Nat /\ lastLogIndex(j) \in Nat
      /\ lastLogIndex(j) <= h.len[v] /\ h.log[v][lastLogIndex(j)].Term = v
  BY ServerLog
<1>3. n <= lastLogIndex(j) /\ h.log[v][n].Term = t
  BY DEF Holds
<1>4. \/ u > v
      \/ u = v /\ lastLogIndex(i) >= lastLogIndex(j)
  BY DEF AtLeastAsUpToDate
<1>5. h \in History /\ n \in 1..h.len[t] /\ \A s \in Nat : h.len[s] \in Nat
  BY HistoryTypes DEF Created, Lineage
<1> HIDE DEF u, v
<1>6. CASE u = v /\ lastLogIndex(i) >= lastLogIndex(j)
  <2>1. n <= lastLogIndex(i) /\ h.log[u][n].Term = t
    BY <1>1, <1>2, <1>3, <1>6
  <2> QED BY <2>1 DEF Holds, u
<1>7. CASE u > v
  <2>1. t <= v
    BY <1>2, <1>3, TermsGrow
  <2>2. t < u
    BY <1>1, <1>2, <1>7, <2>1
  <2>3. h.log[u][0] = [Term |-> 0, Command |-> None]
    BY <1>1 DEF Lineage
  <2>4. h.log[u][0].Term = 0
    BY <2>3
  <2>5. lastLogIndex(i) # 0
    BY <1>1, <1>2, <1>7, <2>4
  <2>6. h.len[u] > 0
    BY <1>1, <1>5, <2>5
  <2>7. PICK c \in Server : <<u, c>> \in elected
    BY <1>1, <2>6 DEF Lineage
  <2>8. PICK e \in elected : e[1] = u
    BY <2>7
  <2>9. Contains(h, u, n, t) \/ Blocked(h, n, t)
    BY <1>5, <2>2, <2>8 DEF Complete
  <2>10. ASSUME Contains(h, u, n, t) PROVE Holds(h, i, n, t)
    <3>1. n <= h.len[u] /\ h.log[u][n].Term = t
      BY <2>10 DEF Contains
    <3>2. ~(lastLogIndex(i) <= n)
      <4> SUFFICES ASSUME lastLogIndex(i) <= n PROVE FALSE
        OBVIOUS
      <4>1. h.log[u][lastLogIndex(i)].Term <= h.log[u][n].Term
        BY <1>1, <3>1, TermsGrow
      <4> QED BY <1>1, <2>2, <3>1, <4>1
    <3>3. n <= lastLogIndex(i)
      BY <1>1, <3>2
    <3> QED BY <3>1, <3>3 DEF Holds, u
  <2> QED BY <2>9, <2>10
<1> QED BY <1>4, <1>6, <1>7

(***************************************************************************)
(* What follows from the invariant.                                        *)
(***************************************************************************)
\* Logs that agree on a term at an index agree up to it.
LEMMA InvLogMatching ==
  ASSUME TypeOK, NEW h, LogInv(h)
  PROVE  LogMatching
<1> SUFFICES ASSUME NEW i \in Server, NEW j \in Server,
                    NEW k \in (lastIncludedIndex[i] + 1)..lastLogIndex(i),
                    containsIndex(j, k), termAt(i, k) = termAt(j, k),
                    NEW q \in (lastIncludedIndex[i] + 1)..k, q > lastIncludedIndex[j]
             PROVE  entryAt(i, q) = entryAt(j, q)
  BY DEF LogMatching
<1> DEFINE u == lastLogTerm(i)
           v == lastLogTerm(j)
<1>1. Lineage(h) /\ Stored(h, i) /\ Stored(h, j)
  BY DEF LogInv
<1>2. /\ u \in Nat /\ lastLogIndex(i) \in Nat /\ lastIncludedIndex[i] \in Nat
      /\ lastLogIndex(i) <= h.len[u]
  BY <1>1, ServerLog
<1>3. /\ v \in Nat /\ lastLogIndex(j) \in Nat /\ lastIncludedIndex[j] \in Nat
      /\ lastLogIndex(j) <= h.len[v]
  BY <1>1, ServerLog
<1>4. k \in Nat /\ k \in lastIncludedIndex[i]..lastLogIndex(i)
      /\ k \in lastIncludedIndex[j]..lastLogIndex(j)
  BY <1>2, <1>3 DEF containsIndex
<1>5. termAt(i, k) = h.log[u][k].Term /\ termAt(j, k) = h.log[v][k].Term
  BY <1>1, <1>4 DEF Stored
<1>6. h.len[u] \in Nat /\ h.len[v] \in Nat
  BY <1>1, <1>2, <1>3, HistoryTypes DEF Lineage
<1>7. k <= h.len[u] /\ k <= h.len[v]
  BY <1>2, <1>3, <1>4, <1>6
<1>8. Same(h, u, v, k)
  BY <1>1, <1>2, <1>3, <1>4, <1>5, <1>7, SameTerm
<1>9. q \in 0..k /\ q \in lastIncludedIndex[i]..lastLogIndex(i) /\ q > lastIncludedIndex[i]
      /\ q \in lastIncludedIndex[j]..lastLogIndex(j)
  BY <1>2, <1>3, <1>4
<1>10. entryAt(i, q) = h.log[u][q] /\ entryAt(j, q) = h.log[v][q]
  BY <1>1, <1>9 DEF Stored
<1> QED BY <1>8, <1>9, <1>10 DEF Same

\* What a server believes committed was committed.
LEMMA InvStateMachineSafety ==
  ASSUME TypeOK, NEW h, LogInv(h)
  PROVE  StateMachineSafety
<1> SUFFICES ASSUME NEW i \in Server
             PROVE  /\ commitIndex[i] <= Len(committed)
                    /\ \A k \in (lastIncludedIndex[i] + 1)..commitIndex[i] :
                         containsIndex(i, k) /\ entryAt(i, k) = committed[k]
  BY DEF StateMachineSafety
<1>1. Lineage(h) /\ Stored(h, i) /\ Commits(h, i)
  BY DEF LogInv
<1>2. /\ commitIndex[i] <= lastLogIndex(i) /\ commitIndex[i] <= Len(committed)
      /\ \A k \in 1..commitIndex[i] : h.log[lastLogTerm(i)][k] = committed[k]
  BY <1>1 DEF Commits
<1>3. lastLogIndex(i) \in Nat /\ lastIncludedIndex[i] \in Nat /\ commitIndex[i] \in Nat
  BY <1>1, ServerLog DEF TypeOK
<1>4. ASSUME NEW k \in (lastIncludedIndex[i] + 1)..commitIndex[i]
      PROVE  containsIndex(i, k) /\ entryAt(i, k) = committed[k]
  <2>1. k \in 1..commitIndex[i] /\ k \in lastIncludedIndex[i]..lastLogIndex(i)
        /\ k > lastIncludedIndex[i]
    BY <1>2, <1>3
  <2>2. entryAt(i, k) = h.log[lastLogTerm(i)][k]
    BY <1>1, <2>1 DEF Stored
  <2>3. containsIndex(i, k)
    BY <1>3, <2>1 DEF containsIndex
  <2> QED BY <1>2, <2>1, <2>2, <2>3
<1> QED BY <1>2, <1>4

\* What a leader believes replicated is.
LEMMA InvMatchIndexSound ==
  ASSUME TypeOK, NEW h, LogInv(h)
  PROVE  MatchIndexSound
<1> SUFFICES ASSUME NEW i \in Server, NEW p \in Server,
                    state[i] = Leader, currentTerm[p] = currentTerm[i]
             PROVE  /\ matchIndex[i][p] <= lastLogIndex(p)
                    /\ \A k \in (lastIncludedIndex[i] + 1)..matchIndex[i][p] :
                         k > lastIncludedIndex[p] => entryAt(i, k) = entryAt(p, k)
  BY DEF MatchIndexSound
<1> DEFINE t == currentTerm[i]
<1>1. Lineage(h) /\ Stored(h, i) /\ Stored(h, p) /\ Role(h, i) /\ Acked(h, p)
  BY DEF LogInv
<1>2. /\ t \in Nat /\ matchIndex[i][p] \in Nat
      /\ lastLogIndex(i) \in Nat /\ lastIncludedIndex[i] \in Nat
      /\ lastLogIndex(p) \in Nat /\ lastIncludedIndex[p] \in Nat
  BY <1>1, ServerLog DEF TypeOK
<1>3. /\ lastLogIndex(i) = h.len[t]
      /\ Same(h, lastLogTerm(i), t, lastLogIndex(i))
      /\ matchIndex[i][p] <= h.acked[p][t]
  BY <1>1 DEF Role
<1>4. /\ h.acked[p][t] <= h.len[t] /\ h.acked[p][t] <= lastLogIndex(p)
      /\ Same(h, lastLogTerm(p), t, h.acked[p][t])
  BY <1>1, <1>2 DEF Acked
<1>5. h.acked[p][t] \in Nat
  BY <1>1, <1>2, HistoryTypes DEF Lineage
<1>6. ASSUME NEW k \in (lastIncludedIndex[i] + 1)..matchIndex[i][p], k > lastIncludedIndex[p]
      PROVE  entryAt(i, k) = entryAt(p, k)
  <2>1. /\ k \in 0..lastLogIndex(i) /\ k \in 0..h.acked[p][t]
        /\ k \in lastIncludedIndex[i]..lastLogIndex(i) /\ k > lastIncludedIndex[i]
        /\ k \in lastIncludedIndex[p]..lastLogIndex(p)
    BY <1>2, <1>3, <1>4, <1>5, <1>6
  <2>2. /\ entryAt(i, k) = h.log[lastLogTerm(i)][k]
        /\ entryAt(p, k) = h.log[lastLogTerm(p)][k]
    BY <1>1, <1>6, <2>1 DEF Stored
  <2> QED BY <1>3, <1>4, <2>1, <2>2 DEF Same
<1> QED BY <1>2, <1>3, <1>4, <1>5, <1>6

\* Whoever could be elected stores everything that is committed.
LEMMA InvElectable ==
  ASSUME TypeOK, NEW h, LogInv(h)
  PROVE  ElectableServersHoldCommitted
<1> SUFFICES ASSUME NEW i \in Server,
                    IsMajority(Cardinality({j \in Server : AtLeastAsUpToDate(i, j)})),
                    NEW k \in 1..Len(committed)
             PROVE  Stores(PersistentState(i), k)
  BY DEF ElectableServersHoldCommitted
<1>1. /\ Lineage(h) /\ Complete(h) /\ Agreed(h)
      /\ \A j \in Server : Stored(h, j) /\ Acked(h, j)
  BY DEF LogInv
<1>2. Len(committed) \in Nat /\ k \in Nat /\ k >= 1 /\ k <= Len(committed) /\ h \in History
  BY <1>1 DEF Agreed, Lineage
<1>3. PICK t \in Nat, n \in Nat :
           /\ Chosen(h, n, t) /\ Len(committed) <= n
           /\ \A q \in 1..Len(committed) : committed[q] = h.log[t][q]
  BY <1>1, <1>2 DEF Agreed
<1>4. PICK Q \in Majorities : \A q \in Q : h.acked[q][t] >= n
  BY <1>3 DEF Chosen
<1>5. {j \in Server : AtLeastAsUpToDate(i, j)} \in Majorities
  BY DEF Majorities
<1>6. PICK j \in Server : j \in Q /\ AtLeastAsUpToDate(i, j)
  BY <1>4, <1>5, MajoritiesMeet
<1>7. Created(h, n, t) /\ n \in 1..h.len[t] /\ h.log[t][n].Term = t
  BY <1>3 DEF Chosen, Created
<1>8. h.acked[j][t] \in Nat /\ n \in 1..h.acked[j][t]
  BY <1>2, <1>4, <1>6, <1>7, HistoryTypes
<1>9. ~Blocked(h, n, t)
  BY <1>2, <1>3, ChosenOrBlocked
<1>10. Holds(h, j, n, t)
  BY <1>1, <1>7, <1>8, <1>9 DEF Acked
<1>11. Holds(h, i, n, t)
  BY <1>1, <1>6, <1>7, <1>9, <1>10, UpToDateHolds
<1> DEFINE u == lastLogTerm(i)
<1>12. /\ u \in Nat /\ lastLogIndex(i) \in Nat /\ lastIncludedIndex[i] \in Nat
       /\ lastLogIndex(i) <= h.len[u]
  BY <1>1, ServerLog
<1>13. h.len[u] \in Nat /\ h.len[t] \in Nat
  BY <1>2, <1>12, HistoryTypes
<1>14. n <= lastLogIndex(i) /\ h.log[u][n].Term = t
  BY <1>11 DEF Holds
<1>15. Same(h, u, t, n)
  BY <1>1, <1>7, <1>12, <1>13, <1>14, SameTerm
<1>16. h.log[u][k] = committed[k]
  BY <1>2, <1>3, <1>15 DEF Same
<1>17. CASE k <= lastIncludedIndex[i]
  BY <1>17 DEF Stores, PersistentState
<1>18. CASE k > lastIncludedIndex[i]
  <2>1. k \in lastIncludedIndex[i]..lastLogIndex(i)
    BY <1>2, <1>3, <1>12, <1>14, <1>18
  <2>2. entryAt(i, k) = committed[k]
    BY <1>1, <1>16, <1>18, <2>1 DEF Stored
  <2>3. PersistentState(i).logs = logs[i] /\ PersistentState(i).lastIncludedIndex = lastIncludedIndex[i]
    BY DEF PersistentState
  <2>4. k < lastIncludedIndex[i] + Len(logs[i])
    <3>1. PersistentTypes
      BY DEF TypeOK, PersistentTypes
    <3>2. Len(logs[i]) \in Nat
      BY <3>1, LogFacts
    <3> QED BY <1>12, <2>1, <3>2 DEF lastLogIndex
  <2> QED BY <2>2, <2>3, <2>4 DEF Stores, entryAt, toOffset
<1> QED BY <1>2, <1>12, <1>17, <1>18

(***************************************************************************)
(* What a step leaves true.                                                *)
(***************************************************************************)
\* g is h after a step: leaders' logs get longer, servers acknowledge more, and
\* nothing is acknowledged of a term that was left.
Extends(h, g) ==
    /\ h \in History /\ g \in History
    /\ \A t \in Nat : h.len[t] <= g.len[t]
    /\ \A t \in Nat : \A k \in 0..h.len[t] : g.log[t][k] = h.log[t][k]
    /\ \A q \in Server, t \in Nat :
         /\ h.acked[q][t] <= g.acked[q][t]
         /\ currentTerm[q] > t => g.acked[q][t] = h.acked[q][t]

\* Terms, elections and commitment only grow, and who is a candidate already
\* was one, with the same log, or is one of a new term.
Advances ==
    /\ elected \subseteq elected'
    /\ Len(committed) <= Len(committed')
    /\ \A k \in 1..Len(committed) : committed'[k] = committed[k]
    /\ \A i \in Server :
         /\ currentTerm[i] <= currentTerm'[i]
         /\ state'[i] = Candidate =>
              \/ currentTerm[i] < currentTerm'[i]
              \/ /\ state[i] = Candidate
                 /\ lastLogTerm(i)' = lastLogTerm(i) /\ lastLogIndex(i)' = lastLogIndex(i)

\* A history extends itself.
LEMMA ExtendsItself ==
  ASSUME NEW h \in History
  PROVE  Extends(h, h)
<1>1. \A t \in Nat : h.len[t] \in Nat
  BY HistoryTypes
<1>2. \A q \in Server, t \in Nat : h.acked[q][t] \in Nat
  BY HistoryTypes
<1> QED BY <1>1, <1>2 DEF Extends

\* An entry its leader created stays the one it created.
LEMMA CreatedStays ==
  ASSUME NEW h, NEW g, Extends(h, g), NEW n, NEW t \in Nat
  PROVE  /\ Created(h, n, t) => Created(g, n, t)
         /\ n <= h.len[t] /\ Created(g, n, t) => Created(h, n, t)
<1>1. h.len[t] \in Nat /\ g.len[t] \in Nat /\ h.len[t] <= g.len[t]
  BY HistoryTypes DEF Extends
<1>2. ASSUME n \in 1..h.len[t] PROVE g.log[t][n] = h.log[t][n] /\ n \in 1..g.len[t]
  BY <1>1, <1>2 DEF Extends
<1>3. n \in 1..g.len[t] /\ n <= h.len[t] => n \in 1..h.len[t]
  BY <1>1
<1> QED BY <1>2, <1>3 DEF Created

\* A chosen entry stays chosen.
LEMMA ChosenStays ==
  ASSUME NEW h, NEW g, Extends(h, g), NEW n \in Nat, NEW t \in Nat, Chosen(h, n, t)
  PROVE  Chosen(g, n, t)
<1>1. Created(g, n, t)
  BY CreatedStays DEF Chosen
<1>2. PICK Q \in Majorities : \A q \in Q : h.acked[q][t] >= n
  BY DEF Chosen
<1>3. ASSUME NEW q \in Q PROVE g.acked[q][t] >= n
  <2>1. q \in Server
    BY DEF Majorities
  <2>2. h.acked[q][t] \in Nat /\ g.acked[q][t] \in Nat /\ h.acked[q][t] <= g.acked[q][t]
    BY <2>1, HistoryTypes DEF Extends
  <2> QED BY <1>2, <2>2
<1> QED BY <1>1, <1>3 DEF Chosen

\* What is known committed stays so, in later terms too.
LEMMA KnownStays ==
  ASSUME NEW h, NEW g, Extends(h, g), NEW c \in Nat, NEW t \in Nat, Known(h, c, t),
         NEW d \in Nat, d <= c, NEW s \in Nat, t <= s
  PROVE  Known(g, d, s)
<1> SUFFICES ASSUME d > 0 PROVE \E u \in 0..s, n \in Nat : d <= n /\ Chosen(g, n, u)
  BY DEF Known
<1>1. PICK u \in 0..t, n \in Nat : c <= n /\ Chosen(h, n, u)
  BY DEF Known
<1>2. u \in Nat /\ u \in 0..s /\ d <= n
  BY <1>1
<1>3. Chosen(g, n, u)
  BY <1>1, <1>2, ChosenStays
<1> QED BY <1>2, <1>3

\* An entry that cannot be committed any more stays so.
LEMMA BlockedStays ==
  ASSUME TypeOK, TypeOK', NEW h, NEW g, Extends(h, g), Advances, NEW n, NEW t \in Nat,
         Blocked(h, n, t)
  PROVE  Blocked(g, n, t)'
<1>1. PICK Q \in Majorities : \A q \in Q : currentTerm[q] > t /\ h.acked[q][t] < n
  BY DEF Blocked
<1>2. ASSUME NEW q \in Q PROVE currentTerm'[q] > t /\ g.acked[q][t] < n
  <2>1. q \in Server
    BY DEF Majorities
  <2>2. /\ currentTerm[q] \in Nat /\ currentTerm'[q] \in Nat
        /\ currentTerm[q] <= currentTerm'[q]
    BY <2>1 DEF TypeOK, Advances
  <2>3. g.acked[q][t] = h.acked[q][t]
    BY <1>1, <2>1 DEF Extends
  <2> QED BY <1>1, <2>2, <2>3
<1> QED BY <1>2 DEF Blocked, Majorities

\* A hint stays right.
LEMMA HintStays ==
  ASSUME NEW h, NEW g, Extends(h, g), NEW t \in Nat, NEW prev \in Nat, NEW hint,
         hint.ConflictIndex \in Nat, Hint(h, t, prev, hint)
  PROVE  Hint(g, t, prev, hint)
<1>1. PICK a \in Nat, b \in Nat, c \in Nat :
        a = h.len[t] /\ b = g.len[t] /\ c = hint.ConflictIndex /\ a <= b
  BY HistoryTypes DEF Extends
<1>2. prev <= a /\ prev \in 0..h.len[t]
  BY <1>1 DEF Hint
<1>3. g.log[t][prev] = h.log[t][prev]
  BY <1>2 DEF Extends
<1>4. hint.ConflictTerm # g.log[t][prev].Term
  BY <1>3 DEF Hint
<1>5. c <= prev \/ (hint.ConflictTerm = -1 /\ prev + 2 <= c /\ c <= a + 1)
  BY <1>1 DEF Hint
<1>6. prev <= b /\ (c <= a + 1 => c <= b + 1)
  BY <1>1, <1>2
<1> QED BY <1>1, <1>4, <1>5, <1>6 DEF Hint

\* What was said in a message stays true.
LEMMA SoundStays ==
  ASSUME TypeOK, TypeOK', NEW h, NEW g, Extends(h, g), Advances,
         committed \in Seq(Entry), committed' \in Seq(Entry),
         NEW m \in RPC, Sound(h, m)
  PROVE  Sound(g, m)'
<1>0. Len(committed) \in Nat /\ Len(committed') \in Nat /\ Len(committed) <= Len(committed')
  BY DEF Advances
<1>1. m.type = "RequestVote" =>
         /\ m.Term <= currentTerm'[m.from]
         /\ m.Term = currentTerm'[m.from] /\ state'[m.from] = Candidate =>
              /\ m.LastLogIndex = lastLogIndex(m.from)'
              /\ m.LastLogTerm = lastLogTerm(m.from)'
  <2> SUFFICES ASSUME m.type = "RequestVote"
               PROVE  /\ m.Term <= currentTerm'[m.from]
                      /\ m.Term = currentTerm'[m.from] /\ state'[m.from] = Candidate =>
                           /\ m.LastLogIndex = lastLogIndex(m.from)'
                           /\ m.LastLogTerm = lastLogTerm(m.from)'
    OBVIOUS
  <2>1. m \in RequestVoteArgs
    BY RPCTypes
  <2>2. PICK c \in Server : c = m.from
    BY <2>1 DEF RequestVoteArgs
  <2>3. m.Term \in Nat /\ currentTerm[c] \in Nat /\ currentTerm'[c] \in Nat
    BY <2>1 DEF RequestVoteArgs, TypeOK
  <2>4. currentTerm[c] <= currentTerm'[c]
    BY DEF Advances
  <2>5. /\ m.Term <= currentTerm[c]
        /\ m.Term = currentTerm[c] /\ state[c] = Candidate =>
             m.LastLogIndex = lastLogIndex(c) /\ m.LastLogTerm = lastLogTerm(c)
    BY <2>2 DEF Sound
  <2>6. ASSUME m.Term = currentTerm'[c], state'[c] = Candidate
        PROVE  m.LastLogIndex = lastLogIndex(c)' /\ m.LastLogTerm = lastLogTerm(c)'
    <3>1. m.Term = currentTerm[c] /\ ~(currentTerm[c] < currentTerm'[c])
      BY <2>3, <2>4, <2>5, <2>6
    <3>2. /\ state[c] = Candidate
          /\ lastLogTerm(c)' = lastLogTerm(c) /\ lastLogIndex(c)' = lastLogIndex(c)
      BY <2>6, <3>1 DEF Advances
    <3> QED BY <2>5, <3>1, <3>2
  <2> QED BY <2>2, <2>3, <2>4, <2>5, <2>6
<1>2. m.type \in {"AppendEntries", "Heartbeat"} =>
         /\ \E i \in Server : <<m.Term, i>> \in elected'
         /\ m.PrevLogIndex + Len(m.Entries) <= g.len[m.Term]
         /\ m.PrevLogTerm = g.log[m.Term][m.PrevLogIndex].Term
         /\ \A k \in 1..Len(m.Entries) : m.Entries[k] = g.log[m.Term][m.PrevLogIndex + k]
         /\ m.LeaderCommit <= Len(committed') /\ Known(g, m.LeaderCommit, m.Term)
  <2> SUFFICES ASSUME m.type \in {"AppendEntries", "Heartbeat"}
               PROVE  /\ \E i \in Server : <<m.Term, i>> \in elected'
                      /\ m.PrevLogIndex + Len(m.Entries) <= g.len[m.Term]
                      /\ m.PrevLogTerm = g.log[m.Term][m.PrevLogIndex].Term
                      /\ \A k \in 1..Len(m.Entries) :
                           m.Entries[k] = g.log[m.Term][m.PrevLogIndex + k]
                      /\ m.LeaderCommit <= Len(committed') /\ Known(g, m.LeaderCommit, m.Term)
    OBVIOUS
  <2>1. m \in AppendEntriesArgs
    BY RPCTypes
  <2>2. /\ m.Term \in Nat /\ m.PrevLogIndex \in Nat /\ m.LeaderCommit \in Nat
        /\ Len(m.Entries) \in Nat
    BY <2>1 DEF AppendEntriesArgs
  <2>3. /\ \E i \in Server : <<m.Term, i>> \in elected
        /\ m.PrevLogIndex + Len(m.Entries) <= h.len[m.Term]
        /\ m.PrevLogTerm = h.log[m.Term][m.PrevLogIndex].Term
        /\ \A k \in 1..Len(m.Entries) : m.Entries[k] = h.log[m.Term][m.PrevLogIndex + k]
        /\ m.LeaderCommit <= Len(committed) /\ Known(h, m.LeaderCommit, m.Term)
    BY DEF Sound
  <2>4. /\ h.len[m.Term] \in Nat /\ g.len[m.Term] \in Nat
        /\ h.len[m.Term] <= g.len[m.Term]
    BY <2>2, HistoryTypes DEF Extends
  <2>5. \A k \in 0..h.len[m.Term] : g.log[m.Term][k] = h.log[m.Term][k]
    BY <2>2 DEF Extends
  <2>6. \E i \in Server : <<m.Term, i>> \in elected'
    BY <2>3 DEF Advances
  <2>7. m.PrevLogIndex \in 0..h.len[m.Term]
    BY <2>2, <2>3, <2>4
  <2>8. ASSUME NEW k \in 1..Len(m.Entries)
        PROVE  m.Entries[k] = g.log[m.Term][m.PrevLogIndex + k]
    <3>1. PICK p \in Nat, n \in Nat, z \in Nat :
            p = m.PrevLogIndex /\ n = Len(m.Entries) /\ z = h.len[m.Term]
      BY <2>2, <2>4
    <3>2. k \in 1..n /\ p + n <= z
      BY <2>3, <3>1
    <3>3. p + k \in 0..z
      BY <3>2
    <3> QED BY <2>3, <2>5, <3>1, <3>3
  <2>9. Known(g, m.LeaderCommit, m.Term)
    BY <2>2, <2>3, KnownStays
  <2>10. m.PrevLogIndex + Len(m.Entries) <= g.len[m.Term] /\ m.LeaderCommit <= Len(committed')
    BY <1>0, <2>2, <2>3, <2>4
  <2>11. m.PrevLogTerm = g.log[m.Term][m.PrevLogIndex].Term
    BY <2>3, <2>5, <2>7
  <2> QED BY <2>6, <2>8, <2>9, <2>10, <2>11
<1>3. m.type = "InstallSnapshot" =>
         /\ \E i \in Server : <<m.Term, i>> \in elected'
         /\ m.LastIncludedIndex <= g.len[m.Term]
         /\ m.LastIncludedTerm = g.log[m.Term][m.LastIncludedIndex].Term
         /\ m.LastIncludedIndex <= Len(committed') /\ Known(g, m.LastIncludedIndex, m.Term)
  <2> SUFFICES ASSUME m.type = "InstallSnapshot"
               PROVE  /\ \E i \in Server : <<m.Term, i>> \in elected'
                      /\ m.LastIncludedIndex <= g.len[m.Term]
                      /\ m.LastIncludedTerm = g.log[m.Term][m.LastIncludedIndex].Term
                      /\ m.LastIncludedIndex <= Len(committed')
                      /\ Known(g, m.LastIncludedIndex, m.Term)
    OBVIOUS
  <2>1. m \in InstallSnapshotArgs
    BY RPCTypes
  <2>2. m.Term \in Nat /\ m.LastIncludedIndex \in Nat
    BY <2>1 DEF InstallSnapshotArgs
  <2>3. /\ \E i \in Server : <<m.Term, i>> \in elected
        /\ m.LastIncludedIndex <= h.len[m.Term]
        /\ m.LastIncludedTerm = h.log[m.Term][m.LastIncludedIndex].Term
        /\ m.LastIncludedIndex <= Len(committed) /\ Known(h, m.LastIncludedIndex, m.Term)
    BY DEF Sound
  <2>4. /\ h.len[m.Term] \in Nat /\ g.len[m.Term] \in Nat
        /\ h.len[m.Term] <= g.len[m.Term]
    BY <2>2, HistoryTypes DEF Extends
  <2>5. m.LastIncludedIndex \in 0..h.len[m.Term]
    BY <2>2, <2>3, <2>4
  <2>6. g.log[m.Term][m.LastIncludedIndex] = h.log[m.Term][m.LastIncludedIndex]
    BY <2>2, <2>5 DEF Extends
  <2>7. \E i \in Server : <<m.Term, i>> \in elected'
    BY <2>3 DEF Advances
  <2>8. Known(g, m.LastIncludedIndex, m.Term)
    BY <2>2, <2>3, KnownStays
  <2>9. m.LastIncludedIndex <= g.len[m.Term] /\ m.LastIncludedIndex <= Len(committed')
    BY <1>0, <2>2, <2>3, <2>4
  <2>10. m.LastIncludedTerm = g.log[m.Term][m.LastIncludedIndex].Term
    BY <2>3, <2>6
  <2> QED BY <2>7, <2>8, <2>9, <2>10
<1>4. m.type = "AppendEntriesReply" /\ m.Success =>
         m.PrevLogIndex + m.Count <= g.acked[m.from][m.term]
  <2> SUFFICES ASSUME m.type = "AppendEntriesReply", m.Success
               PROVE  m.PrevLogIndex + m.Count <= g.acked[m.from][m.term]
    OBVIOUS
  <2>1. m \in AppendEntriesReplies
    BY RPCTypes
  <2>2. m.from \in Server /\ m.term \in Nat /\ m.PrevLogIndex \in Nat /\ m.Count \in Nat
    BY <2>1 DEF AppendEntriesReplies
  <2>3. /\ h.acked[m.from][m.term] \in Nat /\ g.acked[m.from][m.term] \in Nat
        /\ h.acked[m.from][m.term] <= g.acked[m.from][m.term]
    BY <2>2, HistoryTypes DEF Extends
  <2>4. m.PrevLogIndex + m.Count <= h.acked[m.from][m.term]
    BY DEF Sound
  <2>5. PICK p \in Nat, c \in Nat, a \in Nat, b \in Nat :
          /\ p = m.PrevLogIndex /\ c = m.Count
          /\ a = h.acked[m.from][m.term] /\ b = g.acked[m.from][m.term]
    BY <2>2, <2>3
  <2>6. p + c <= a /\ a <= b
    BY <2>3, <2>4, <2>5
  <2>7. p + c <= b
    BY <2>6
  <2> QED BY <2>5, <2>7
<1>5. m.type = "InstallSnapshotReply" /\ ~m.Stopped /\ m.Term <= m.term =>
         m.LastIncludedIndex <= g.acked[m.from][m.term]
  <2> SUFFICES ASSUME m.type = "InstallSnapshotReply", ~m.Stopped, m.Term <= m.term
               PROVE  m.LastIncludedIndex <= g.acked[m.from][m.term]
    OBVIOUS
  <2>1. m \in InstallSnapshotReplies
    BY RPCTypes
  <2>2. m.from \in Server /\ m.term \in Nat /\ m.LastIncludedIndex \in Nat
    BY <2>1 DEF InstallSnapshotReplies
  <2>3. /\ h.acked[m.from][m.term] \in Nat /\ g.acked[m.from][m.term] \in Nat
        /\ h.acked[m.from][m.term] <= g.acked[m.from][m.term]
    BY <2>2, HistoryTypes DEF Extends
  <2>4. m.LastIncludedIndex <= h.acked[m.from][m.term]
    BY DEF Sound
  <2> QED BY <2>2, <2>3, <2>4
<1>6. m.type = "AppendEntriesReply" /\ ~m.Success => Hint(g, m.term, m.PrevLogIndex, m)
  <2> SUFFICES ASSUME m.type = "AppendEntriesReply", ~m.Success
               PROVE  Hint(g, m.term, m.PrevLogIndex, m)
    OBVIOUS
  <2>1. m \in AppendEntriesReplies
    BY RPCTypes
  <2>2. m.term \in Nat /\ m.PrevLogIndex \in Nat /\ m.ConflictIndex \in Nat
    BY <2>1 DEF AppendEntriesReplies
  <2>3. Hint(h, m.term, m.PrevLogIndex, m)
    BY DEF Sound
  <2> QED BY <2>2, <2>3, HintStays
<1> QED BY <1>1, <1>2, <1>3, <1>4, <1>5, <1>6 DEF Sound

\* The log of server i is what it was.
Keeps(i) == lastLogTerm(i)' = lastLogTerm(i) /\ lastLogIndex(i)' = lastLogIndex(i)

\* A server that keeps its log keeps an entry.
LEMMA HoldsStays ==
  ASSUME TypeOK, NEW h, NEW g, Extends(h, g), Lineage(h), NEW i \in Server, Stored(h, i),
         Keeps(i), NEW n \in Nat, NEW t \in Nat, Holds(h, i, n, t)
  PROVE  Holds(g, i, n, t)'
<1>1. /\ lastLogTerm(i) \in Nat /\ lastLogIndex(i) \in Nat
      /\ lastLogIndex(i) <= h.len[lastLogTerm(i)]
  BY ServerLog
<1>2. h.len[lastLogTerm(i)] \in Nat
  BY <1>1, HistoryTypes DEF Extends
<1>3. n \in 0..h.len[lastLogTerm(i)]
  BY <1>1, <1>2 DEF Holds
<1>4. g.log[lastLogTerm(i)][n] = h.log[lastLogTerm(i)][n]
  BY <1>1, <1>3 DEF Extends
<1> QED BY <1>4 DEF Holds, Keeps

\* A server whose log is not touched stores what it stored.
LEMMA StoredStays ==
  ASSUME TypeOK, TypeOK', NEW h, NEW g, Extends(h, g), Lineage(h), NEW i \in Server,
         Stored(h, i), logs'[i] = logs[i], lastIncludedIndex'[i] = lastIncludedIndex[i],
         lastIncludedTerm'[i] = lastIncludedTerm[i], currentTerm[i] <= currentTerm'[i]
  PROVE  Stored(g, i)' /\ Keeps(i)
<1> DEFINE t == lastLogTerm(i)
<1>1. /\ t \in Nat /\ lastLogIndex(i) \in Nat /\ currentTerm[i] \in Nat
      /\ lastIncludedIndex[i] \in Nat /\ lastLogIndex(i) <= h.len[t]
  BY ServerLog
<1>2. /\ h.len[t] \in Nat /\ g.len[t] \in Nat /\ h.len[t] <= g.len[t]
  BY <1>1, HistoryTypes DEF Extends
<1>3. /\ lastLogTerm(i)' = t /\ lastLogIndex(i)' = lastLogIndex(i)
      /\ \A k : termAt(i, k)' = termAt(i, k) /\ entryAt(i, k)' = entryAt(i, k)
  BY DEF lastLogTerm, lastLogIndex, termAt, entryAt, toOffset
<1>4. /\ t <= currentTerm[i]
      /\ \A k \in lastIncludedIndex[i]..lastLogIndex(i) :
           /\ termAt(i, k) = h.log[t][k].Term
           /\ k > lastIncludedIndex[i] => entryAt(i, k) = h.log[t][k]
      /\ lastIncludedTerm[i] = termAt(i, lastIncludedIndex[i])
  BY DEF Stored
<1>5. t <= currentTerm'[i] /\ lastLogIndex(i) <= g.len[t]
  <2>1. currentTerm'[i] \in Nat
    BY DEF TypeOK
  <2> QED BY <1>1, <1>2, <1>4, <2>1
<1>6. ASSUME NEW k \in lastIncludedIndex[i]..lastLogIndex(i)
      PROVE  g.log[t][k] = h.log[t][k]
  <2>1. k \in 0..h.len[t]
    BY <1>1, <1>2
  <2> QED BY <1>1, <2>1 DEF Extends
<1>7. /\ \A k \in lastIncludedIndex[i]..lastLogIndex(i) :
           /\ termAt(i, k)' = g.log[t][k].Term
           /\ k > lastIncludedIndex[i] => entryAt(i, k)' = g.log[t][k]
  BY <1>3, <1>4, <1>6
<1>8. lastIncludedTerm'[i] = termAt(i, lastIncludedIndex[i])'
  BY <1>4 DEF termAt, toOffset
<1>9. \A k \in lastIncludedIndex'[i]..lastLogIndex(i)' :
           /\ termAt(i, k)' = g.log[lastLogTerm(i)'][k].Term
           /\ k > lastIncludedIndex'[i] => entryAt(i, k)' = g.log[lastLogTerm(i)'][k]
  BY <1>3, <1>7
<1> HIDE DEF t
<1>10. Stored(g, i)'
  BY <1>3, <1>5, <1>8, <1>9 DEF Stored
<1> QED BY <1>3, <1>10 DEF Keeps, t

\* Every history begins with the dummy entry.
LEMMA SameStart ==
  ASSUME NEW h, NEW g, Extends(h, g), Lineage(h), NEW s \in Nat, NEW t \in Nat
  PROVE  Same(g, s, t, 0)
<1>1. 0 \in 0..h.len[s] /\ 0 \in 0..h.len[t]
  BY HistoryTypes DEF Extends
<1>2. g.log[s][0] = h.log[s][0] /\ g.log[t][0] = h.log[t][0]
  BY <1>1 DEF Extends
<1>3. h.log[s][0] = h.log[t][0]
  BY DEF Lineage
<1>4. \A k \in 0..0 : k = 0
  OBVIOUS
<1> QED BY <1>2, <1>3, <1>4 DEF Same

\* Equal logs stay equal.
LEMMA SameStays ==
  ASSUME NEW h, NEW g, Extends(h, g), NEW s \in Nat, NEW t \in Nat, NEW n \in Nat,
         n <= h.len[s], n <= h.len[t], Same(h, s, t, n)
  PROVE  Same(g, s, t, n)
<1>1. h.len[s] \in Nat /\ h.len[t] \in Nat
  BY HistoryTypes DEF Extends
<1> SUFFICES ASSUME NEW k \in 0..n PROVE g.log[s][k] = g.log[t][k]
  BY DEF Same
<1>2. k \in 0..h.len[s] /\ k \in 0..h.len[t]
  BY <1>1
<1>3. g.log[s][k] = h.log[s][k] /\ g.log[t][k] = h.log[t][k]
  BY <1>2 DEF Extends
<1> QED BY <1>3 DEF Same

\* A server that keeps its log and acknowledges nothing keeps its promises.
LEMMA AckedStays ==
  ASSUME TypeOK, TypeOK', NEW h, NEW g, Extends(h, g), Advances, Lineage(h), NEW i \in Server,
         Stored(h, i), Acked(h, i), Keeps(i), g.acked[i] = h.acked[i]
  PROVE  Acked(g, i)'
<1> SUFFICES ASSUME NEW t \in Nat
             PROVE  /\ g.acked[i][t] <= g.len[t]
                    /\ g.acked[i][t] > 0 => t <= currentTerm'[i]
                    /\ t = currentTerm'[i] =>
                         /\ g.acked[i][t] <= lastLogIndex(i)'
                         /\ Same(g, lastLogTerm(i)', t, g.acked[i][t])
                    /\ \A n \in 1..g.acked[i][t] :
                         Created(g, n, t) => Holds(g, i, n, t)' \/ Blocked(g, n, t)'
  BY DEF Acked
<1>1. /\ h.acked[i][t] \in Nat /\ h.len[t] \in Nat /\ g.len[t] \in Nat
      /\ h.len[t] <= g.len[t]
  BY HistoryTypes DEF Extends
<1>2. /\ lastLogTerm(i) \in Nat /\ lastLogIndex(i) \in Nat
      /\ lastLogIndex(i) <= h.len[lastLogTerm(i)]
  BY ServerLog
<1>3. /\ currentTerm[i] \in Nat /\ currentTerm'[i] \in Nat
      /\ currentTerm[i] <= currentTerm'[i]
  BY DEF TypeOK, Advances
<1>4. /\ h.acked[i][t] <= h.len[t]
      /\ h.acked[i][t] > 0 => t <= currentTerm[i]
      /\ t = currentTerm[i] =>
           /\ h.acked[i][t] <= lastLogIndex(i)
           /\ Same(h, lastLogTerm(i), t, h.acked[i][t])
      /\ \A n \in 1..h.acked[i][t] :
           Created(h, n, t) => Holds(h, i, n, t) \/ Blocked(h, n, t)
  BY DEF Acked
<1>5. /\ g.acked[i][t] <= g.len[t]
      /\ g.acked[i][t] > 0 => t <= currentTerm'[i]
  BY <1>1, <1>3, <1>4
<1>6. ASSUME t = currentTerm'[i]
      PROVE  /\ g.acked[i][t] <= lastLogIndex(i)'
             /\ Same(g, lastLogTerm(i)', t, g.acked[i][t])
  <2>1. CASE t = currentTerm[i]
    <3>1. /\ h.acked[i][t] <= lastLogIndex(i)
          /\ Same(h, lastLogTerm(i), t, h.acked[i][t])
      BY <1>4, <2>1
    <3>2. h.len[lastLogTerm(i)] \in Nat
      BY <1>2, HistoryTypes DEF Extends
    <3>3. h.acked[i][t] <= h.len[lastLogTerm(i)]
      BY <1>1, <1>2, <3>1, <3>2
    <3>4. Same(g, lastLogTerm(i), t, h.acked[i][t])
      BY <1>1, <1>2, <1>4, <3>1, <3>3, SameStays
    <3> QED BY <3>1, <3>4 DEF Keeps
  <2>2. CASE t # currentTerm[i]
    <3>1. h.acked[i][t] = 0
      BY <1>1, <1>3, <1>4, <1>6, <2>2
    <3>2. Same(g, lastLogTerm(i), t, 0)
      BY <1>2, SameStart
    <3> QED BY <1>2, <3>1, <3>2 DEF Keeps
  <2> QED BY <2>1, <2>2
<1>7. ASSUME NEW n \in 1..g.acked[i][t], Created(g, n, t)
      PROVE  Holds(g, i, n, t)' \/ Blocked(g, n, t)'
  <2>1. n \in 1..h.acked[i][t] /\ n \in Nat /\ n <= h.len[t]
    BY <1>1, <1>4
  <2>2. Created(h, n, t)
    BY <1>7, <2>1, CreatedStays
  <2>3. Holds(h, i, n, t) \/ Blocked(h, n, t)
    BY <1>4, <2>1, <2>2
  <2> QED BY <2>1, <2>3, HoldsStays, BlockedStays
<1> QED BY <1>5, <1>6, <1>7

\* A server that keeps its log and commits nothing new.
LEMMA CommitsStays ==
  ASSUME TypeOK, TypeOK', NEW h, NEW g, Extends(h, g), Advances, Lineage(h), Agreed(h),
         NEW i \in Server, Stored(h, i), Commits(h, i), Keeps(i),
         committed' \in Seq(Entry),
         commitIndex'[i] <= commitIndex[i], lastIncludedIndex'[i] <= commitIndex'[i],
         lastApplied'[i] <= commitIndex'[i],
         pendingSnapshot'[i] # None => pendingSnapshot'[i].Index <= commitIndex'[i]
  PROVE  Commits(g, i)'
<1> DEFINE c == commitIndex[i]
           d == commitIndex'[i]
           u == lastLogTerm(i)
<1>1. /\ u \in Nat /\ lastLogIndex(i) \in Nat /\ lastLogIndex(i) <= h.len[u]
      /\ c \in Nat /\ d \in Nat /\ currentTerm[i] \in Nat /\ currentTerm'[i] \in Nat
      /\ h.len[u] \in Nat
  BY ServerLog, HistoryTypes DEF TypeOK, Extends
<1>2. /\ c <= lastLogIndex(i) /\ c <= Len(committed) /\ Known(h, c, currentTerm[i])
      /\ \A k \in 1..c : h.log[u][k] = committed[k]
  BY DEF Commits
<1>3. currentTerm[i] <= currentTerm'[i] /\ Len(committed) <= Len(committed')
      /\ Len(committed) \in Nat /\ Len(committed') \in Nat
  BY DEF Advances, Agreed
<1>4. Known(g, d, currentTerm'[i])
  BY <1>1, <1>2, <1>3, KnownStays
<1>5. ASSUME NEW k \in 1..d PROVE g.log[u][k] = committed'[k]
  <2>1. k \in 1..c /\ k \in 0..h.len[u] /\ k \in 1..Len(committed)
    BY <1>1, <1>2, <1>3
  <2>2. g.log[u][k] = h.log[u][k] /\ committed'[k] = committed[k]
    BY <1>1, <2>1 DEF Extends, Advances
  <2> QED BY <1>2, <2>1, <2>2
<1>6. d <= lastLogIndex(i) /\ d <= Len(committed')
  BY <1>1, <1>2, <1>3
<1> QED BY <1>4, <1>5, <1>6 DEF Commits, Keeps

\* Old votes are for candidates that still have what the voter acknowledged.
LEMMA BallotStays ==
  ASSUME TypeOK, TypeOK', ElectionInv, NEW h, NEW g, Extends(h, g), Advances, LogInv(h),
         NEW v \in votesCast
  PROVE  Ballot(g, v)'
<1>0. v[1] \in Nat /\ v[2] \in Server /\ v[3] \in Server
  BY DEF TypeOK
<1> SUFFICES ASSUME NEW t \in Nat, NEW n \in 1..g.acked[v[2]][t],
                    state'[v[3]] = Candidate, currentTerm'[v[3]] = v[1],
                    t < v[1], Created(g, n, t)
             PROVE  Holds(g, v[3], n, t)' \/ Blocked(g, n, t)'
  BY DEF Ballot
<1>1. v[1] <= currentTerm[v[2]] /\ v[1] <= currentTerm[v[3]]
  BY DEF ElectionInv, VotesBind, LogInv, Terms
<1>2. currentTerm[v[2]] \in Nat /\ currentTerm[v[3]] \in Nat /\ currentTerm'[v[3]] \in Nat
  BY <1>0 DEF TypeOK
<1>3. currentTerm[v[3]] <= currentTerm'[v[3]]
  BY <1>0 DEF Advances
<1>4. currentTerm[v[3]] = v[1] /\ ~(currentTerm[v[3]] < currentTerm'[v[3]])
  BY <1>0, <1>1, <1>2, <1>3
<1>5. state[v[3]] = Candidate /\ Keeps(v[3])
  BY <1>0, <1>4 DEF Advances, Keeps
<1>6. currentTerm[v[2]] > t
  BY <1>0, <1>1, <1>2
<1>7. g.acked[v[2]][t] = h.acked[v[2]][t]
  BY <1>0, <1>6 DEF Extends
<1>8. Lineage(h) /\ Stored(h, v[3]) /\ Acked(h, v[2]) /\ Ballot(h, v)
  BY <1>0 DEF LogInv
<1>9. h.acked[v[2]][t] \in Nat /\ h.len[t] \in Nat /\ h.acked[v[2]][t] <= h.len[t]
  BY <1>0, <1>8, HistoryTypes DEF Extends, Acked
<1>10. n \in 1..h.acked[v[2]][t] /\ n \in Nat /\ n <= h.len[t]
  BY <1>7, <1>9
<1>11. Created(h, n, t)
  BY <1>10, CreatedStays
<1>12. Holds(h, v[3], n, t) \/ Blocked(h, n, t)
  BY <1>4, <1>5, <1>8, <1>10, <1>11 DEF Ballot
<1> QED BY <1>0, <1>5, <1>8, <1>10, <1>12, HoldsStays, BlockedStays

\* The leaders elected so far still have what may be committed of the entries
\* that existed.
LEMMA CompleteStays ==
  ASSUME TypeOK, TypeOK', NEW h, NEW g, Extends(h, g), Advances, Complete(h),
         NEW e \in elected, NEW t \in Nat, NEW n \in Nat, n <= h.len[t],
         t < e[1], Created(g, n, t)
  PROVE  Contains(g, e[1], n, t) \/ Blocked(g, n, t)'
<1>1. e[1] \in Nat
  BY DEF TypeOK
<1>2. /\ h.len[t] \in Nat /\ h.len[e[1]] \in Nat /\ g.len[e[1]] \in Nat
      /\ h.len[e[1]] <= g.len[e[1]]
  BY <1>1, HistoryTypes DEF Extends
<1>3. Created(h, n, t)
  BY CreatedStays
<1>4. n \in 1..h.len[t]
  BY <1>3 DEF Created
<1>5. Contains(h, e[1], n, t) \/ Blocked(h, n, t)
  BY <1>3, <1>4 DEF Complete
<1>6. ASSUME Contains(h, e[1], n, t) PROVE Contains(g, e[1], n, t)
  <2>1. n \in 0..h.len[e[1]] /\ n <= g.len[e[1]]
    BY <1>2, <1>6 DEF Contains
  <2>2. g.log[e[1]][n] = h.log[e[1]][n]
    BY <1>1, <2>1 DEF Extends
  <2> QED BY <1>6, <2>1, <2>2 DEF Contains
<1> QED BY <1>5, <1>6, BlockedStays

\* What was committed stays chosen.
LEMMA AgreedStays ==
  ASSUME NEW h, NEW g, Extends(h, g), Agreed(h), committed' = committed
  PROVE  Agreed(g)'
<1>1. ASSUME Len(committed) > 0
      PROVE  \E t \in Nat, n \in Nat :
               /\ Chosen(g, n, t) /\ Len(committed) <= n
               /\ \A k \in 1..Len(committed) : committed[k] = g.log[t][k]
  <2>1. PICK t \in Nat, n \in Nat :
               /\ Chosen(h, n, t) /\ Len(committed) <= n
               /\ \A k \in 1..Len(committed) : committed[k] = h.log[t][k]
    BY <1>1 DEF Agreed
  <2>2. Len(committed) \in Nat /\ h.len[t] \in Nat /\ n \in 1..h.len[t]
    BY <2>1, HistoryTypes DEF Agreed, Extends, Chosen, Created
  <2>3. Chosen(g, n, t)
    BY <2>1, ChosenStays
  <2>4. ASSUME NEW k \in 1..Len(committed) PROVE committed[k] = g.log[t][k]
    <3>1. k \in 0..h.len[t]
      BY <2>1, <2>2
    <3>2. g.log[t][k] = h.log[t][k]
      BY <3>1 DEF Extends
    <3> QED BY <2>1, <3>2
  <2> QED BY <2>1, <2>3, <2>4
<1> QED BY <1>1 DEF Agreed

(***************************************************************************)
(* Steps that change no log and commit nothing.                            *)
(***************************************************************************)
Calm(h) ==
    /\ UNCHANGED <<elected, committed>>
    /\ votesCast \subseteq votesCast'
    /\ \A v \in votesCast' \ votesCast : v[1] <= currentTerm'[v[3]] /\ Ballot(h, v)'
    /\ \A m \in rpcs' \ rpcs : Sound(h, m)'
    /\ \A i \in Server :
         /\ currentTerm[i] <= currentTerm'[i]
         /\ Stored(h, i)' /\ Keeps(i)
         /\ state'[i] # Follower =>
              \/ state'[i] = state[i] /\ currentTerm'[i] = currentTerm[i]
              \/ state'[i] = Candidate /\ currentTerm[i] < currentTerm'[i]
         /\ state'[i] = Leader =>
              \A p \in Server : matchIndex'[i][p] <= h.acked[p][currentTerm'[i]]
         /\ lastIncludedIndex'[i] <= commitIndex'[i] /\ lastApplied'[i] <= commitIndex'[i]
         /\ pendingSnapshot'[i] # None => pendingSnapshot'[i].Index <= commitIndex'[i]
         /\ commitIndex'[i] <= commitIndex[i]

\* Such a step is an advance.
LEMMA CalmAdvances ==
  ASSUME TypeOK, TypeOK', NEW h, LogInv(h), UNCHANGED <<elected, committed>>,
         \A i \in Server :
           /\ currentTerm[i] <= currentTerm'[i]
           /\ Keeps(i)
           /\ state'[i] # Follower =>
                \/ state'[i] = state[i] /\ currentTerm'[i] = currentTerm[i]
                \/ state'[i] = Candidate /\ currentTerm[i] < currentTerm'[i]
  PROVE  Advances
<1>1. Len(committed) \in Nat
  BY DEF LogInv, Agreed
<1>2. Candidate # Follower
  BY DEF Candidate, Follower
<1> QED BY <1>1, <1>2 DEF Advances, Keeps

\* The history of such a step is the old one.
LEMMA CalmStep ==
  ASSUME TypeOK, TypeOK', ElectionInv, NEW h, LogInv(h), Calm(h)
  PROVE  LogInv(h)'
<1>1. /\ Lineage(h) /\ Terms /\ Complete(h) /\ Agreed(h) /\ h \in History
      /\ \A i \in Server : Stored(h, i) /\ Role(h, i) /\ Acked(h, i) /\ Commits(h, i)
  BY DEF LogInv, Lineage
<1>2. Extends(h, h)
  BY <1>1, ExtendsItself
<1>3. Advances
  BY CalmAdvances DEF Calm
<1>4. elected' = elected /\ committed' = committed
  BY DEF Calm
<1>5. Lineage(h)'
  BY <1>1, <1>4 DEF Lineage
<1>6. Agreed(h)'
  BY <1>1, <1>2, <1>4, AgreedStays
<1>7. Complete(h)'
  <2> SUFFICES ASSUME NEW e \in elected, NEW t \in Nat, NEW n \in 1..h.len[t],
                      t < e[1], Created(h, n, t)
               PROVE  Contains(h, e[1], n, t) \/ Blocked(h, n, t)'
    BY <1>4 DEF Complete
  <2>1. h.len[t] \in Nat
    BY <1>1, HistoryTypes
  <2>2. n \in Nat /\ n <= h.len[t]
    BY <2>1
  <2> QED BY <1>1, <1>2, <1>3, <2>2, CompleteStays
<1>8. Terms'
  <2>1. ASSUME NEW e \in elected PROVE e[1] >= 1 /\ e[1] <= currentTerm'[e[2]]
    <3>1. e[1] \in Nat /\ e[2] \in Server
      BY DEF TypeOK
    <3>2. currentTerm[e[2]] \in Nat /\ currentTerm'[e[2]] \in Nat
          /\ currentTerm[e[2]] <= currentTerm'[e[2]]
      BY <3>1 DEF TypeOK, Calm
    <3>3. e[1] >= 1 /\ e[1] <= currentTerm[e[2]]
      BY <1>1 DEF Terms
    <3> QED BY <3>1, <3>2, <3>3
  <2>2. ASSUME NEW v \in votesCast PROVE v[1] <= currentTerm'[v[3]]
    <3>1. v[1] \in Nat /\ v[3] \in Server
      BY DEF TypeOK
    <3>2. currentTerm[v[3]] \in Nat /\ currentTerm'[v[3]] \in Nat
          /\ currentTerm[v[3]] <= currentTerm'[v[3]]
      BY <3>1 DEF TypeOK, Calm
    <3>3. v[1] <= currentTerm[v[3]]
      BY <1>1 DEF Terms
    <3> QED BY <3>1, <3>2, <3>3
  <2>3. \A v \in votesCast' : v[1] <= currentTerm'[v[3]]
    BY <2>2 DEF Calm
  <2> QED BY <1>4, <2>1, <2>3 DEF Terms
<1>9. ASSUME NEW v \in votesCast' PROVE Ballot(h, v)'
  <2>1. CASE v \in votesCast
    BY <1>2, <1>3, <2>1, BallotStays
  <2>2. CASE v \notin votesCast
    BY <2>2 DEF Calm
  <2> QED BY <2>1, <2>2
<1>10. ASSUME NEW m \in rpcs' PROVE Sound(h, m)'
  <2>1. CASE m \in rpcs
    <3>1. m \in RPC /\ Sound(h, m)
      BY <2>1 DEF TypeOK, LogInv
    <3>2. committed \in Seq(Entry) /\ committed' \in Seq(Entry)
      BY <1>1, <1>4 DEF Agreed
    <3> QED BY <1>2, <1>3, <3>1, <3>2, SoundStays
  <2>2. CASE m \notin rpcs
    BY <2>2 DEF Calm
  <2> QED BY <2>1, <2>2
<1>11. ASSUME NEW i \in Server
       PROVE  Stored(h, i)' /\ Role(h, i)' /\ Acked(h, i)' /\ Commits(h, i)'
  <2>1. Stored(h, i)' /\ Keeps(i)
    BY DEF Calm
  <2>2. Acked(h, i)'
    BY <1>1, <1>2, <1>3, <2>1, AckedStays
  <2>3. Commits(h, i)'
    <3>1. committed' \in Seq(Entry)
      BY <1>1, <1>4 DEF Agreed
    <3>2. /\ commitIndex'[i] <= commitIndex[i] /\ lastIncludedIndex'[i] <= commitIndex'[i]
          /\ lastApplied'[i] <= commitIndex'[i]
          /\ pendingSnapshot'[i] # None => pendingSnapshot'[i].Index <= commitIndex'[i]
      BY DEF Calm
    <3> QED BY <1>1, <1>2, <1>3, <2>1, <3>1, <3>2, CommitsStays
  <2>4. Role(h, i)'
    <3>1. /\ currentTerm[i] \in Nat /\ currentTerm'[i] \in Nat
          /\ state'[i] \in {Follower, Candidate, Leader}
      BY DEF TypeOK
    <3>2. CASE state'[i] = Follower
      BY <3>2 DEF Role, Follower, Candidate, Leader
    <3>3. CASE state'[i] # Follower /\ state'[i] = state[i] /\ currentTerm'[i] = currentTerm[i]
      <4>1. state'[i] = Leader =>
              \A p \in Server : matchIndex'[i][p] <= h.acked[p][currentTerm'[i]]
        BY DEF Calm
      <4> QED BY <1>1, <1>4, <2>1, <3>3, <4>1 DEF Role, Keeps
    <3>4. CASE state'[i] = Candidate /\ currentTerm[i] < currentTerm'[i]
      <4>1. <<currentTerm'[i], i>> \notin elected
        <5> SUFFICES ASSUME <<currentTerm'[i], i>> \in elected PROVE FALSE
          OBVIOUS
        <5>1. currentTerm'[i] <= currentTerm[i]
          BY <1>1 DEF Terms
        <5> QED BY <3>1, <3>4, <5>1
      <4>2. currentTerm'[i] >= 1
        BY <3>1, <3>4
      <4> QED BY <1>4, <3>4, <4>1, <4>2 DEF Role, Follower, Candidate, Leader
    <3> QED BY <3>2, <3>3, <3>4 DEF Calm
  <2> QED BY <2>1, <2>2, <2>3, <2>4
<1> QED BY <1>5, <1>6, <1>7, <1>8, <1>9, <1>10, <1>11 DEF LogInv

\* The variables of a server's log.
storage == <<logs, lastIncludedIndex, lastIncludedTerm, commitIndex, lastApplied,
             pendingSnapshot, matchIndex>>

\* A step that changes terms and roles only: a server stays what it is, becomes
\* a follower or stands in a new term.
LEMMA CalmRoles ==
  ASSUME TypeOK, TypeOK', NEW h, LogInv(h), UNCHANGED <<elected, committed, storage>>,
         votesCast \subseteq votesCast',
         \A v \in votesCast' \ votesCast : v[1] <= currentTerm'[v[3]] /\ Ballot(h, v)',
         \A m \in rpcs' \ rpcs : Sound(h, m)',
         \A i \in Server :
           /\ currentTerm[i] <= currentTerm'[i]
           /\ state'[i] # Follower =>
                \/ state'[i] = state[i] /\ currentTerm'[i] = currentTerm[i]
                \/ state'[i] = Candidate /\ currentTerm[i] < currentTerm'[i]
  PROVE  Calm(h)
<1>1. /\ Lineage(h) /\ h \in History
      /\ \A i \in Server : Stored(h, i) /\ Role(h, i) /\ Commits(h, i)
  BY DEF LogInv, Lineage
<1>2. Extends(h, h)
  BY <1>1, ExtendsItself
<1>3. /\ UNCHANGED <<elected, committed, logs, lastIncludedIndex, lastIncludedTerm>>
      /\ UNCHANGED <<commitIndex, lastApplied, pendingSnapshot, matchIndex>>
  BY DEF storage
<1>4. ASSUME NEW i \in Server
      PROVE  /\ Stored(h, i)' /\ Keeps(i)
             /\ state'[i] = Leader =>
                  \A p \in Server : matchIndex'[i][p] <= h.acked[p][currentTerm'[i]]
             /\ lastIncludedIndex'[i] <= commitIndex'[i] /\ lastApplied'[i] <= commitIndex'[i]
             /\ pendingSnapshot'[i] # None => pendingSnapshot'[i].Index <= commitIndex'[i]
             /\ commitIndex'[i] <= commitIndex[i]
  <2>1. Stored(h, i)' /\ Keeps(i)
    BY <1>1, <1>2, <1>3, StoredStays
  <2>2. ASSUME state'[i] = Leader
        PROVE  \A p \in Server : matchIndex'[i][p] <= h.acked[p][currentTerm'[i]]
    <3>1. state[i] = Leader /\ currentTerm'[i] = currentTerm[i]
      BY <2>2 DEF Leader, Follower, Candidate
    <3> QED BY <1>1, <1>3, <3>1 DEF Role
  <2>3. commitIndex[i] \in Nat
    BY DEF TypeOK
  <2> QED BY <1>1, <1>3, <2>1, <2>2, <2>3 DEF Commits
<1> QED BY <1>3, <1>4 DEF Calm

(***************************************************************************)
(* The calm actions.                                                       *)
(***************************************************************************)
\* A message of these kinds says nothing about logs.
LEMMA SoundVoteReply ==
  ASSUME NEW h, NEW m, m.type \in {"RequestVoteReply", "HeartbeatReply"}
  PROVE  Sound(h, m)'
BY DEF Sound

\* A refused AppendEntries promises nothing but its hint.
LEMMA SoundRefusal ==
  ASSUME NEW h, NEW m, m.type = "AppendEntriesReply", ~m.Success,
         Hint(h, m.term, m.PrevLogIndex, m)
  PROVE  Sound(h, m)'
BY DEF Sound

\* An InstallSnapshot that came too late promises nothing.
LEMMA SoundLate ==
  ASSUME NEW h, NEW m, m.type = "InstallSnapshotReply", m.Stopped \/ ~(m.Term <= m.term)
  PROVE  Sound(h, m)'
BY DEF Sound

\* A reply of a higher term: the receiver follows.
LEMMA StepDownRoles ==
  ASSUME TypeOK, TypeOK', NEW i \in Server, NEW t \in Nat, becomeFollower(i, t)
  PROVE  \A j \in Server :
           /\ currentTerm[j] <= currentTerm'[j]
           /\ state'[j] # Follower => state'[j] = state[j] /\ currentTerm'[j] = currentTerm[j]
<1> SUFFICES ASSUME NEW j \in Server
             PROVE  /\ currentTerm[j] <= currentTerm'[j]
                    /\ state'[j] # Follower =>
                         state'[j] = state[j] /\ currentTerm'[j] = currentTerm[j]
  OBVIOUS
<1>1. currentTerm \in [Server -> Nat] /\ state \in [Server -> {Follower, Candidate, Leader}]
  BY DEF TypeOK
<1>2. /\ currentTerm' = [currentTerm EXCEPT ![i] = IF t > currentTerm[i] THEN t ELSE currentTerm[i]]
      /\ state' = [state EXCEPT ![i] = Follower]
  BY DEF becomeFollower
<1>3. CASE j = i
  <2>1. currentTerm'[j] = (IF t > currentTerm[i] THEN t ELSE currentTerm[i]) /\ state'[j] = Follower
    BY <1>1, <1>2, <1>3
  <2>2. currentTerm[i] \in Nat
    BY <1>1
  <2> QED BY <1>3, <2>1, <2>2
<1>4. CASE j # i
  <2>1. currentTerm'[j] = currentTerm[j] /\ state'[j] = state[j] /\ currentTerm[j] \in Nat
    BY <1>1, <1>2, <1>4
  <2> QED BY <2>1
<1> QED BY <1>3, <1>4

\* A step that changes no term, role or log and sends only sound messages.
LEMMA CalmUnchanged ==
  ASSUME TypeOK, TypeOK', NEW h, LogInv(h),
         UNCHANGED <<elected, committed, votesCast, storage, currentTerm, state>>,
         \A m \in rpcs' \ rpcs : Sound(h, m)'
  PROVE  Calm(h)
<1>1. \A i \in Server : currentTerm[i] <= currentTerm'[i] /\ state'[i] = state[i]
  BY DEF TypeOK
<1> QED BY <1>1, CalmRoles

\* A step in which one server follows, and that sends only sound messages.
LEMMA CalmFollower ==
  ASSUME TypeOK, TypeOK', NEW h, LogInv(h), NEW i \in Server, NEW t \in Nat,
         becomeFollower(i, t), UNCHANGED <<elected, committed, votesCast, storage>>,
         \A m \in rpcs' \ rpcs : Sound(h, m)'
  PROVE  Calm(h)
BY StepDownRoles, CalmRoles

\* Dropping a call, heartbeat replies and deliveries.
LEMMA CalmOthers ==
  ASSUME TypeOK, TypeOK', NEW h, LogInv(h),
         \/ \E m \in rpcs : DropRPC(m) \/ HeartbeatReply(m)
         \/ \E i \in Server : Deliver(i)
         \/ UNCHANGED vars
  PROVE  Calm(h)
<1>1. ASSUME NEW m \in rpcs, DropRPC(m) PROVE Calm(h)
  <2>1. UNCHANGED <<elected, committed, votesCast, storage, currentTerm, state>>
        /\ rpcs' \ rpcs = {}
    BY <1>1 DEF DropRPC, persistent, leadership, storage
  <2> QED BY <2>1, CalmUnchanged
<1>2. ASSUME NEW m \in rpcs, HeartbeatReply(m) PROVE Calm(h)
  <2>1. m \in HeartbeatReplies
    BY <1>2, RPCTypes DEF HeartbeatReply, TypeOK
  <2>2. m.to \in Server /\ m.Term \in Nat
    BY <2>1 DEF HeartbeatReplies
  <2>3. CASE stepDown(m.to, m.Term)
    <3>1. UNCHANGED <<elected, committed, votesCast, storage>> /\ rpcs' \ rpcs = {}
      BY <1>2, <2>3 DEF HeartbeatReply, leadership, storage, stepDown
    <3> QED BY <2>2, <2>3, <3>1, CalmFollower DEF stepDown
  <2>4. CASE UNCHANGED <<persistent, persister, state>>
    <3>1. UNCHANGED <<elected, committed, votesCast, storage, currentTerm, state>>
          /\ rpcs' \ rpcs = {}
      BY <1>2, <2>4 DEF HeartbeatReply, leadership, storage, persistent
    <3> QED BY <3>1, CalmUnchanged
  <2> QED BY <1>2, <2>3, <2>4 DEF HeartbeatReply
<1>3. ASSUME NEW i \in Server, Deliver(i) PROVE Calm(h)
  <2>1. UNCHANGED <<elected, committed, votesCast, storage, currentTerm, state>>
        /\ rpcs' \ rpcs = {}
    BY <1>3 DEF Deliver, persistent, leadership, storage
  <2> QED BY <2>1, CalmUnchanged
<1>4. CASE UNCHANGED vars
  <2>1. UNCHANGED <<elected, committed, votesCast, storage, currentTerm, state>>
        /\ rpcs' \ rpcs = {}
    BY <1>4 DEF vars, persistent, leadership, storage
  <2> QED BY <2>1, CalmUnchanged
<1> QED BY <1>1, <1>2, <1>3, <1>4

\* Kill marks calls as abandoned; what they say stays true.
LEMMA CalmKill ==
  ASSUME TypeOK, TypeOK', NEW h, LogInv(h), NEW i \in Server, Kill(i)
  PROVE  Calm(h)
<1>1. UNCHANGED <<elected, committed, votesCast, storage, currentTerm>>
  BY DEF Kill, persistent, leadership, storage
<1>2. state' = [state EXCEPT ![i] = Follower]
  BY DEF Kill
<1>3. \A j \in Server :
        /\ currentTerm[j] <= currentTerm'[j]
        /\ state'[j] # Follower => state'[j] = state[j] /\ currentTerm'[j] = currentTerm[j]
  <2> SUFFICES ASSUME NEW j \in Server
               PROVE  /\ currentTerm[j] <= currentTerm'[j]
                      /\ state'[j] # Follower =>
                           state'[j] = state[j] /\ currentTerm'[j] = currentTerm[j]
    OBVIOUS
  <2>1. currentTerm'[j] = currentTerm[j] /\ currentTerm[j] \in Nat
    BY <1>1 DEF TypeOK
  <2>2. currentTerm[j] <= currentTerm'[j]
    BY <2>1
  <2>3. state'[j] # Follower => state'[j] = state[j]
    BY <1>2 DEF TypeOK
  <2> QED BY <2>1, <2>2, <2>3
<1>4. Advances
  <2>1. UNCHANGED <<logs, lastIncludedIndex>> /\ UNCHANGED <<elected, committed>>
    BY <1>1 DEF storage
  <2>2. \A j \in Server : Keeps(j)
    BY <2>1 DEF Keeps, lastLogTerm, lastLogIndex
  <2> QED BY <1>3, <2>1, <2>2, CalmAdvances
<1>5. ASSUME NEW m \in rpcs' \ rpcs PROVE Sound(h, m)'
  <2>1. PICK r \in rpcs : m = IF IsRequest(r) /\ r.from = i
                              THEN [r EXCEPT !.live = FALSE] ELSE r
    BY DEF Kill
  <2>2. IsRequest(r) /\ m = [r EXCEPT !.live = FALSE]
    BY <2>1
  <2>3. r \in RPC /\ Sound(h, r)
    BY DEF TypeOK, LogInv
  <2>4. h \in History /\ committed \in Seq(Entry) /\ committed' \in Seq(Entry)
    BY <1>1 DEF LogInv, Lineage, Agreed
  <2>5. Sound(h, r)'
    BY <1>4, <2>3, <2>4, ExtendsItself, SoundStays
  <2>6. CASE r.type = "RequestVote"
    <3>1. r \in RequestVoteArgs
      BY <2>3, <2>6, RPCTypes
    <3>2. /\ m.type = r.type /\ m.from = r.from /\ m.Term = r.Term
          /\ m.LastLogIndex = r.LastLogIndex /\ m.LastLogTerm = r.LastLogTerm
      BY <2>2, <3>1 DEF RequestVoteArgs
    <3> QED BY <2>5, <2>6, <3>2 DEF Sound
  <2>7. CASE r.type \in {"AppendEntries", "Heartbeat"}
    <3>1. r \in AppendEntriesArgs
      BY <2>3, <2>7, RPCTypes
    <3>2. /\ m.type = r.type /\ m.Term = r.Term /\ m.Entries = r.Entries
          /\ m.PrevLogIndex = r.PrevLogIndex /\ m.PrevLogTerm = r.PrevLogTerm
          /\ m.LeaderCommit = r.LeaderCommit
      BY <2>2, <3>1 DEF AppendEntriesArgs
    <3> QED BY <2>5, <2>7, <3>2 DEF Sound
  <2>8. CASE r.type = "InstallSnapshot"
    <3>1. r \in InstallSnapshotArgs
      BY <2>3, <2>8, RPCTypes
    <3>2. /\ m.type = r.type /\ m.Term = r.Term
          /\ m.LastIncludedIndex = r.LastIncludedIndex
          /\ m.LastIncludedTerm = r.LastIncludedTerm
      BY <2>2, <3>1 DEF InstallSnapshotArgs
    <3> QED BY <2>5, <2>8, <3>2 DEF Sound
  <2> QED BY <2>2, <2>6, <2>7, <2>8 DEF IsRequest
<1> QED BY <1>1, <1>3, <1>5, CalmRoles

\* A request to a leader's peer carries a piece of the leader's log.
LEMMA CalmReplicate ==
  ASSUME TypeOK, TypeOK', ElectionInv, NEW h, LogInv(h), NEW i \in Server, NEW p \in Server,
         Replicate(i, p) \/ Heartbeat(i, p)
  PROVE  Calm(h)
<1> DEFINE t == currentTerm[i]
           u == lastLogTerm(i)
           first == lastIncludedIndex[i]
           last == lastLogIndex(i)
<1>1. /\ Lineage(h) /\ Stored(h, i) /\ Role(h, i) /\ Commits(h, i) /\ h \in History
  BY DEF LogInv, Lineage
<1>2. state[i] = Leader
  BY DEF Replicate, Heartbeat
<1>3. last = h.len[t] /\ Same(h, u, t, last)
  BY <1>1, <1>2 DEF Role
<1>4. \E j \in Server : <<t, j>> \in elected
  BY <1>2 DEF ElectionInv, LeadersElected
<1>5. /\ u \in Nat /\ last \in Nat /\ t \in Nat /\ first \in Nat /\ first <= last
  BY <1>1, ServerLog
<1>6. /\ \A k \in first..last : termAt(i, k) = h.log[t][k].Term
      /\ \A k \in (first + 1)..last : entryAt(i, k) = h.log[t][k]
  <2>1. ASSUME NEW k \in first..last
        PROVE  /\ termAt(i, k) = h.log[t][k].Term
               /\ k > first => entryAt(i, k) = h.log[t][k]
    <3>1. k \in 0..last
      BY <1>5
    <3>2. h.log[u][k] = h.log[t][k]
      BY <1>3, <3>1 DEF Same
    <3> QED BY <1>1, <3>2 DEF Stored
  <2> QED BY <1>5, <2>1
<1>7. commitIndex[i] \in Nat /\ commitIndex[i] <= Len(committed)
      /\ Known(h, commitIndex[i], t) /\ first <= commitIndex[i] /\ Len(committed) \in Nat
  BY <1>1 DEF Commits, TypeOK, LogInv, Agreed
<1>8. Known(h, first, t)
  BY <1>1, <1>5, <1>7, ExtendsItself, KnownStays
<1>9. UNCHANGED <<elected, committed, votesCast, storage, currentTerm, state>>
  BY DEF Replicate, Heartbeat, persistent, leadership, storage
<1>10. CASE Replicate(i, p)
  <2> DEFINE next == nextIndex[i][p]
  <2>0. PICK m : m = ReplicationArgs(i, p)
    OBVIOUS
  <2>1. rpcs' = rpcs \cup {m} /\ next \in Nat
    BY <1>10, <2>0 DEF Replicate, TypeOK
  <2>2. CASE next <= first
    <3>1. /\ m.type = "InstallSnapshot" /\ m.Term = t
          /\ m.LastIncludedIndex = first /\ m.LastIncludedTerm = lastIncludedTerm[i]
      BY <2>0, <2>2 DEF ReplicationArgs
    <3>2. lastIncludedTerm[i] = h.log[t][first].Term
      <4>1. lastIncludedTerm[i] = termAt(i, first)
        BY <1>1 DEF Stored
      <4>2. first \in first..last
        BY <1>5
      <4> QED BY <1>6, <4>1, <4>2
    <3>3. first <= h.len[t] /\ first <= Len(committed)
      BY <1>3, <1>5, <1>7
    <3>4. Sound(h, m)'
      <4>1. /\ \E j \in Server : <<m.Term, j>> \in elected'
            /\ m.LastIncludedIndex <= h.len[m.Term]
            /\ m.LastIncludedTerm = h.log[m.Term][m.LastIncludedIndex].Term
            /\ m.LastIncludedIndex <= Len(committed') /\ Known(h, m.LastIncludedIndex, m.Term)
        BY <1>4, <1>8, <1>9, <3>1, <3>2, <3>3
      <4> QED BY <3>1, <4>1 DEF Sound
    <3> QED BY <1>9, <2>1, <3>4, CalmUnchanged
  <2>3. CASE ~(next <= first)
    <3>1. /\ m.type = "AppendEntries" /\ m.Term = t
          /\ m.PrevLogIndex = next - 1 /\ m.PrevLogTerm = termAt(i, next - 1)
          /\ m.Entries = SubSeq(logs[i], toOffset(i, next) + 1, Len(logs[i]))
          /\ m.LeaderCommit = commitIndex[i]
      BY <2>0, <2>3 DEF ReplicationArgs
    <3>2. next - 1 \in first..last
      BY <1>5, <1>10, <2>1, <2>3 DEF Replicate, containsIndex
    <3>3. /\ logs[i] \in Seq(Entry) /\ Len(logs[i]) \in Nat /\ Len(logs[i]) >= 1
      BY LogFacts DEF TypeOK, PersistentTypes
    <3>4. last = first + Len(logs[i]) - 1
      BY DEF lastLogIndex
    <3> DEFINE a == next - first + 1
    <3>5. /\ m.Entries = SubSeq(logs[i], a, Len(logs[i]))
          /\ a \in Nat /\ a >= 2 /\ a <= Len(logs[i]) + 1
      <4>1. m.Entries = SubSeq(logs[i], a, Len(logs[i]))
        BY <3>1 DEF toOffset
      <4>2. PICK y \in Nat, f \in Nat, n \in Nat : y = next /\ f = first /\ n = Len(logs[i])
        BY <1>5, <2>1, <3>3
      <4>3. last = f + n - 1 /\ y - 1 \in f..last /\ ~(y <= f)
        BY <2>3, <3>2, <3>4, <4>2
      <4>4. y - f + 1 \in Nat /\ y - f + 1 >= 2 /\ y - f + 1 <= n + 1
        <5> HIDE DEF next, first, last
        <5> QED BY <4>3
      <4> QED BY <4>1, <4>2, <4>4
    <3> HIDE DEF a
    <3>6. /\ Len(m.Entries) = Len(logs[i]) - a + 1
          /\ \A k \in 1..Len(m.Entries) : m.Entries[k] = logs[i][a + k - 1]
      <4>1. CASE a <= Len(logs[i])
        <5>1. Len(m.Entries) = Len(logs[i]) - a + 1
          BY <3>3, <3>5, <4>1
        <5>2. ASSUME NEW k \in 1..Len(m.Entries) PROVE m.Entries[k] = logs[i][a + k - 1]
          BY <3>3, <3>5, <4>1, <5>1
        <5> QED BY <5>1, <5>2
      <4>2. CASE a = Len(logs[i]) + 1
        BY <3>3, <3>5, <4>2
      <4> QED BY <3>3, <3>5, <4>1, <4>2
    <3>7. next - 1 + Len(m.Entries) = last
      <4>1. a = next - first + 1 /\ Len(m.Entries) = Len(logs[i]) - a + 1
        BY <3>6 DEF a
      <4> HIDE DEF next, first, last
      <4> QED BY <1>5, <2>1, <3>3, <3>4, <4>1
    <3>8. ASSUME NEW k \in 1..Len(m.Entries)
          PROVE  m.Entries[k] = h.log[t][m.PrevLogIndex + k]
      <4>1. Len(m.Entries) \in Nat
        BY <1>5, <2>1, <3>7
      <4>2. next - 1 + k \in (first + 1)..last
        <5> HIDE DEF next, first, last
        <5> QED BY <1>5, <2>1, <2>3, <3>7, <4>1
      <4>3. entryAt(i, next - 1 + k) = logs[i][a + k - 1]
        <5>1. (next - 1 + k) - first + 1 = a + k - 1
          <6> HIDE DEF next, first, last
          <6> QED BY <1>5, <2>1, <4>1 DEF a
        <5> QED BY <5>1 DEF entryAt, toOffset
      <4> QED BY <1>6, <3>1, <3>6, <4>2, <4>3
    <3>9. m.PrevLogTerm = h.log[t][m.PrevLogIndex].Term
      BY <1>6, <3>1, <3>2
    <3>10. Sound(h, m)'
      <4>0. m.PrevLogIndex + Len(m.Entries) <= h.len[m.Term]
        <5>1. m.PrevLogIndex + Len(m.Entries) = last
          BY <3>1, <3>7
        <5>2. h.len[m.Term] = last /\ last <= last
          BY <1>3, <1>5, <3>1
        <5> QED BY <5>1, <5>2
      <4>1. /\ \E j \in Server : <<m.Term, j>> \in elected'
            /\ m.PrevLogTerm = h.log[m.Term][m.PrevLogIndex].Term
            /\ \A k \in 1..Len(m.Entries) : m.Entries[k] = h.log[m.Term][m.PrevLogIndex + k]
            /\ m.LeaderCommit <= Len(committed') /\ Known(h, m.LeaderCommit, m.Term)
        BY <1>4, <1>7, <1>9, <3>1, <3>8, <3>9
      <4> QED BY <3>1, <4>0, <4>1 DEF Sound
    <3> QED BY <1>9, <2>1, <3>10, CalmUnchanged
  <2> QED BY <2>2, <2>3
<1>11. CASE Heartbeat(i, p)
  <2>0. PICK m : m = [type |-> "Heartbeat", from |-> i, to |-> p, live |-> TRUE,
                      Term |-> currentTerm[i],
                      PrevLogIndex |-> lastLogIndex(i), PrevLogTerm |-> lastLogTerm(i),
                      Entries |-> <<>>, LeaderCommit |-> commitIndex[i]]
    OBVIOUS
  <2>1. rpcs' = rpcs \cup {m}
    BY <1>11, <2>0 DEF Heartbeat
  <2>2. /\ m.type = "Heartbeat" /\ m.Term = t /\ m.PrevLogIndex = last /\ m.PrevLogTerm = u
        /\ m.Entries = <<>> /\ m.LeaderCommit = commitIndex[i]
    BY <2>0
  <2>3. Len(m.Entries) = 0
    BY <2>2
  <2>4. u = h.log[t][last].Term
    <3>1. h.log[u][last].Term = u /\ last \in 0..last
      BY <1>1, <1>5, ServerLog
    <3>2. h.log[u][last] = h.log[t][last]
      BY <1>3, <3>1 DEF Same
    <3> QED BY <3>1, <3>2
  <2>5. Sound(h, m)'
    <3>0. m.PrevLogIndex + Len(m.Entries) <= h.len[m.Term]
      BY <1>3, <1>5, <2>2, <2>3
    <3>1. /\ \E j \in Server : <<m.Term, j>> \in elected'
          /\ m.PrevLogTerm = h.log[m.Term][m.PrevLogIndex].Term
          /\ \A k \in 1..Len(m.Entries) : m.Entries[k] = h.log[m.Term][m.PrevLogIndex + k]
          /\ m.LeaderCommit <= Len(committed') /\ Known(h, m.LeaderCommit, m.Term)
      BY <1>4, <1>7, <1>9, <2>2, <2>3, <2>4
    <3> QED BY <2>2, <3>0, <3>1 DEF Sound
  <2> QED BY <1>9, <2>1, <2>5, CalmUnchanged
<1> QED BY <1>10, <1>11

\* A granted vote goes to a candidate that has what the voter acknowledged.
LEMMA CalmRequestVote ==
  ASSUME TypeOK, TypeOK', ElectionInv, NEW h, LogInv(h), NEW m \in rpcs, RequestVote(m)
  PROVE  Calm(h)
<1>1. m \in RequestVoteArgs /\ m.type = "RequestVote"
  BY RPCTypes DEF TypeOK, RequestVote
<1>2. PICK i \in Server, c \in Server : i = m.to /\ c = m.from
  BY <1>1 DEF RequestVoteArgs
<1>3. m.Term \in Nat
  BY <1>1 DEF RequestVoteArgs
<1> DEFINE stale   == dead[i] \/ m.Term < currentTerm[i]
           granted == ~stale /\ canVote(m, i) /\ UpToDate(m, i)
           higher  == ~stale /\ m.Term > currentTerm[i]
<1>4. /\ currentTerm' = [currentTerm EXCEPT ![i] = IF higher THEN m.Term ELSE currentTerm[i]]
      /\ state' = [state EXCEPT ![i] = IF higher THEN Follower ELSE state[i]]
      /\ votesCast' = votesCast \cup (IF granted THEN {<<m.Term, i, c>>} ELSE {})
      /\ UNCHANGED <<elected, committed, logs, lastIncludedIndex, lastIncludedTerm>>
      /\ UNCHANGED <<commitIndex, lastApplied, pendingSnapshot, matchIndex>>
  BY <1>2 DEF RequestVote, leadership
<1>5. \E r : r.type = "RequestVoteReply" /\ Answer(m, r)
  <2>1. PICK r : r = [type |-> "RequestVoteReply", from |-> i, to |-> c,
                      Term |-> currentTerm'[i], VoteGranted |-> granted, term |-> m.Term]
    OBVIOUS
  <2>2. Answer(m, r)
    BY <1>2, <2>1 DEF RequestVote
  <2> QED BY <2>1, <2>2
<1>6. \A r \in rpcs' \ rpcs : Sound(h, r)'
  BY <1>5, SoundVoteReply DEF Answer
<1>7. \A j \in Server :
        /\ currentTerm[j] <= currentTerm'[j]
        /\ state'[j] # Follower => state'[j] = state[j] /\ currentTerm'[j] = currentTerm[j]
  <2> SUFFICES ASSUME NEW j \in Server
               PROVE  /\ currentTerm[j] <= currentTerm'[j]
                      /\ state'[j] # Follower =>
                           state'[j] = state[j] /\ currentTerm'[j] = currentTerm[j]
    OBVIOUS
  <2>1. currentTerm \in [Server -> Nat] /\ state \in [Server -> {Follower, Candidate, Leader}]
    BY DEF TypeOK
  <2>2. CASE j = i
    <3>1. /\ currentTerm'[j] = IF higher THEN m.Term ELSE currentTerm[i]
          /\ state'[j] = IF higher THEN Follower ELSE state[i]
      BY <1>4, <2>1, <2>2
    <3>2. currentTerm[i] \in Nat
      BY <2>1
    <3> QED BY <1>3, <2>2, <3>1, <3>2
  <2>3. CASE j # i
    <3>1. currentTerm'[j] = currentTerm[j] /\ state'[j] = state[j] /\ currentTerm[j] \in Nat
      BY <1>4, <2>1, <2>3
    <3> QED BY <3>1
  <2> QED BY <2>2, <2>3
<1>8. \A j \in Server : Keeps(j)
  BY <1>4 DEF Keeps, lastLogTerm, lastLogIndex
<1>9. Advances
  BY <1>4, <1>7, <1>8, CalmAdvances
<1>10. /\ Lineage(h) /\ Complete(h) /\ h \in History
       /\ \A j \in Server : Stored(h, j) /\ Acked(h, j)
       /\ Sound(h, m)
  BY DEF LogInv, Lineage
<1>11. ASSUME granted
       PROVE  m.Term <= currentTerm'[c] /\ Ballot(h, <<m.Term, i, c>>)'
  <2>1. m.Term <= currentTerm[c]
    BY <1>1, <1>2, <1>10 DEF Sound
  <2>2. currentTerm[c] \in Nat /\ currentTerm'[c] \in Nat /\ currentTerm[c] <= currentTerm'[c]
    BY <1>7 DEF TypeOK
  <2>3. ASSUME NEW t \in Nat, NEW n \in 1..h.acked[i][t], state'[c] = Candidate,
               currentTerm'[c] = m.Term, t < m.Term, Created(h, n, t)
        PROVE  Holds(h, c, n, t)' \/ Blocked(h, n, t)'
    <3>1. state[c] = Candidate /\ currentTerm[c] = m.Term
      BY <1>7, <2>3 DEF Candidate, Follower
    <3>2. m.LastLogIndex = lastLogIndex(c) /\ m.LastLogTerm = lastLogTerm(c)
      BY <1>1, <1>2, <1>10, <3>1 DEF Sound
    <3>3. UpToDate(m, i)
      BY <1>11
    <3>4. AtLeastAsUpToDate(c, i)
      BY <3>2, <3>3 DEF AtLeastAsUpToDate, UpToDate
    <3>5. h.acked[i][t] \in Nat
      BY <1>10, HistoryTypes
    <3>6. n \in Nat
      BY <3>5
    <3>7. Holds(h, i, n, t) \/ Blocked(h, n, t)
      BY <1>10, <2>3 DEF Acked
    <3>8. Holds(h, c, n, t) \/ Blocked(h, n, t)
      BY <1>10, <2>3, <3>4, <3>6, <3>7, UpToDateHolds
    <3>9. Extends(h, h)
      BY <1>10, ExtendsItself
    <3> QED BY <1>8, <1>9, <1>10, <3>6, <3>8, <3>9, HoldsStays, BlockedStays
  <2>4. Ballot(h, <<m.Term, i, c>>)'
    BY <2>3 DEF Ballot
  <2> QED BY <1>3, <2>1, <2>2, <2>4
<1>12. \A v \in votesCast' \ votesCast : v[1] <= currentTerm'[v[3]] /\ Ballot(h, v)'
  <2> SUFFICES ASSUME NEW v \in votesCast' \ votesCast
               PROVE  v[1] <= currentTerm'[v[3]] /\ Ballot(h, v)'
    OBVIOUS
  <2>1. granted /\ v = <<m.Term, i, c>>
    BY <1>4
  <2> HIDE DEF granted
  <2> QED BY <1>11, <2>1
<1>13. votesCast \subseteq votesCast'
  BY <1>4
<1>14. UNCHANGED <<elected, committed, storage>>
  BY <1>4 DEF storage
<1> HIDE DEF granted, higher, stale
<1> QED BY <1>6, <1>7, <1>12, <1>13, <1>14, CalmRoles

\* A candidate that is not elected at once.
LEMMA CalmStartElection ==
  ASSUME TypeOK, TypeOK', ElectionInv, NEW h, LogInv(h), NEW i \in Server,
         NEW reach \in SUBSET (Server \ {i}), startElection(i, reach), ~IsMajority(1)
  PROVE  Calm(h)
<1>1. /\ currentTerm' = [currentTerm EXCEPT ![i] = currentTerm[i] + 1]
      /\ state' = [state EXCEPT ![i] = Candidate]
      /\ votesCast' = votesCast \cup {<<currentTerm[i] + 1, i, i>>}
      /\ UNCHANGED <<elected, committed, logs, lastIncludedIndex, lastIncludedTerm>>
      /\ UNCHANGED <<commitIndex, lastApplied, pendingSnapshot, matchIndex>>
      /\ rpcs' = rpcs \cup
                 {[type |-> "RequestVote", from |-> i, to |-> p, live |-> TRUE,
                   Term |-> currentTerm[i] + 1,
                   LastLogIndex |-> lastLogIndex(i),
                   LastLogTerm |-> lastLogTerm(i)] : p \in reach}
  BY DEF startElection, leadership
<1>2. PICK T \in Nat : T = currentTerm[i] + 1
  <2>1. currentTerm[i] \in Nat
    BY DEF TypeOK
  <2> QED BY <2>1
<1>3. /\ \A j \in Server : currentTerm[j] \in Nat
      /\ currentTerm'[i] = T /\ state'[i] = Candidate
      /\ \A j \in Server \ {i} : currentTerm'[j] = currentTerm[j] /\ state'[j] = state[j]
  BY <1>1, <1>2 DEF TypeOK
<1>4. \A j \in Server :
        /\ currentTerm[j] <= currentTerm'[j]
        /\ state'[j] # Follower =>
                \/ state'[j] = state[j] /\ currentTerm'[j] = currentTerm[j]
                \/ state'[j] = Candidate /\ currentTerm[j] < currentTerm'[j]
  BY <1>2, <1>3
<1>5. \A j \in Server : Keeps(j)
  BY <1>1 DEF Keeps, lastLogTerm, lastLogIndex
<1>6. Advances
  BY <1>1, <1>4, <1>5, CalmAdvances
<1>7. Lineage(h) /\ h \in History /\ Stored(h, i) /\ Acked(h, i)
  BY DEF LogInv, Lineage
<1>8. Ballot(h, <<T, i, i>>)'
  <2>1. ASSUME NEW t \in Nat, NEW n \in 1..h.acked[i][t], Created(h, n, t)
        PROVE  Holds(h, i, n, t)' \/ Blocked(h, n, t)'
    <3>1. h.acked[i][t] \in Nat
      BY <1>7, HistoryTypes
    <3>2. n \in Nat
      BY <3>1
    <3>3. Holds(h, i, n, t) \/ Blocked(h, n, t)
      BY <1>7, <2>1 DEF Acked
    <3>4. Extends(h, h)
      BY <1>7, ExtendsItself
    <3> QED BY <1>5, <1>6, <1>7, <3>2, <3>3, <3>4, HoldsStays, BlockedStays
  <2> QED BY <2>1 DEF Ballot
<1>9. \A v \in votesCast' \ votesCast : v[1] <= currentTerm'[v[3]] /\ Ballot(h, v)'
  <2> SUFFICES ASSUME NEW v \in votesCast' \ votesCast
               PROVE  v[1] <= currentTerm'[v[3]] /\ Ballot(h, v)'
    OBVIOUS
  <2>1. v = <<T, i, i>>
    BY <1>1, <1>2
  <2> QED BY <1>3, <1>8, <2>1
<1>10. ASSUME NEW m \in rpcs' \ rpcs PROVE Sound(h, m)'
  <2>1. PICK p \in reach :
          m = [type |-> "RequestVote", from |-> i, to |-> p, live |-> TRUE,
               Term |-> T, LastLogIndex |-> lastLogIndex(i), LastLogTerm |-> lastLogTerm(i)]
    BY <1>1, <1>2
  <2>2. /\ m.type = "RequestVote" /\ m.from = i /\ m.Term = T
        /\ m.LastLogIndex = lastLogIndex(i)' /\ m.LastLogTerm = lastLogTerm(i)'
    BY <1>5, <2>1 DEF Keeps
  <2> QED BY <1>3, <2>2 DEF Sound
<1>11. UNCHANGED <<elected, committed, storage>> /\ votesCast \subseteq votesCast'
  BY <1>1 DEF storage
<1> QED BY <1>4, <1>9, <1>10, <1>11, CalmRoles

\* A vote that does not decide the election.
LEMMA CalmRequestVoteReply ==
  ASSUME TypeOK, TypeOK', NEW h, LogInv(h), NEW m \in rpcs, RequestVoteReply(m),
         ~becomeLeader(m.to)
  PROVE  Calm(h)
<1>1. m \in RequestVoteReplies
  BY RPCTypes DEF TypeOK, RequestVoteReply
<1>2. m.to \in Server /\ m.Term \in Nat
  BY <1>1 DEF RequestVoteReplies
<1>3. /\ UNCHANGED <<commitIndex, lastApplied, pendingSnapshot, committed, votesCast>>
      /\ rpcs' \ rpcs = {}
  BY DEF RequestVoteReply
<1>4. CASE stepDown(m.to, m.Term) /\ UNCHANGED <<leadership, elected>>
  <2>1. UNCHANGED <<elected, committed, votesCast, storage>>
    BY <1>3, <1>4 DEF storage, stepDown, leadership
  <2> QED BY <1>2, <1>3, <1>4, <2>1, CalmFollower DEF stepDown
<1>5. CASE UNCHANGED <<persistent, state, elected, leadership>>
  <2>1. UNCHANGED <<elected, committed, votesCast, storage, currentTerm, state>>
    BY <1>3, <1>5 DEF storage, persistent, leadership
  <2> QED BY <1>3, <2>1, CalmUnchanged
<1> QED BY <1>4, <1>5 DEF RequestVoteReply

\* What an answer adds to the calls in flight.
LEMMA AnswerAdds ==
  ASSUME NEW m, NEW r, Answer(m, r)
  PROVE  \A x \in rpcs' \ rpcs : x = r
BY DEF Answer

\* The hint of a request that comes from an older term.
LEMMA HintRejected ==
  ASSUME NEW h, Lineage(h), NEW m \in AppendEntriesArgs, Sound(h, m)
  PROVE  Hint(h, m.Term, m.PrevLogIndex, Rejected)
<1>1. PICK t \in Nat, prev \in Nat, n \in Nat, z \in Nat :
        t = m.Term /\ prev = m.PrevLogIndex /\ n = Len(m.Entries) /\ z = h.len[t]
  BY HistoryTypes DEF AppendEntriesArgs, Lineage
<1>2. m.type \in {"AppendEntries", "Heartbeat"}
  BY DEF AppendEntriesArgs
<1>3. prev + n <= z
  BY <1>1, <1>2 DEF Sound
<1>4. prev <= z /\ 0 <= prev
  BY <1>3
<1>5. h.log[t][prev].Term \in Nat
  BY HistoryTypes DEF Lineage
<1>6. -1 # h.log[t][prev].Term
  BY <1>5
<1> QED BY <1>1, <1>4, <1>6 DEF Hint, Rejected

\* The run of equal terms that ends at index starts at or before it.
LEMMA RunStarts ==
  ASSUME TypeOK, NEW i \in Server, NEW prev \in Nat, containsIndex(i, prev)
  PROVE  firstIndexOfRun(i, prev) <= prev
<1> DEFINE S == {k \in firstLogIndex(i)..prev :
                   \A q \in k..prev : termAt(i, q) = termAt(i, prev)}
<1>1. PICK f \in Nat : f = firstLogIndex(i)
  BY DEF TypeOK, firstLogIndex
<1>2. prev \in S
  BY <1>1 DEF containsIndex, firstLogIndex
<1>3. S \subseteq f..prev /\ f \in Int /\ prev \in Int
  BY <1>1
<1>4. firstIndexOfRun(i, prev) = Min(S)
  BY DEF firstIndexOfRun
<1> HIDE DEF S
<1>5. IsFiniteSet(S) /\ S \subseteq Int
  BY <1>3, IndexSetFinite
<1>6. Min(S) <= prev
  BY <1>2, <1>5, MinOfFinite
<1> QED BY <1>4, <1>6

\* The hint of a request that does not fit the follower's log.
LEMMA HintConflict ==
  ASSUME TypeOK, NEW h, LogInv(h), NEW m \in rpcs, m \in AppendEntriesArgs,
         NEW i \in Server, currentTerm[i] <= m.Term, ~PrevLogCheck(i, m).Success
  PROVE  Hint(h, m.Term, m.PrevLogIndex, PrevLogCheck(i, m))
<1>1. Lineage(h) /\ Complete(h) /\ Agreed(h) /\ Commits(h, i) /\ Sound(h, m) /\ h \in History
  BY DEF LogInv, Lineage
<1>2. PICK t \in Nat, prev \in Nat, n \in Nat, z \in Nat :
        t = m.Term /\ prev = m.PrevLogIndex /\ n = Len(m.Entries) /\ z = h.len[t]
  BY <1>1, HistoryTypes DEF AppendEntriesArgs
<1>3. m.type \in {"AppendEntries", "Heartbeat"}
  BY DEF AppendEntriesArgs
<1>4. /\ prev + n <= z /\ m.PrevLogTerm = h.log[t][prev].Term
      /\ \E j \in Server : <<t, j>> \in elected
  BY <1>1, <1>2, <1>3 DEF Sound
<1>5. prev <= z /\ h.log[t][prev].Term \in Nat
  BY <1>1, <1>4, HistoryTypes
<1>6. -1 # h.log[t][prev].Term
  BY <1>5
<1>7. PICK f \in Nat, last \in Nat : f = lastIncludedIndex[i] /\ last = lastLogIndex(i)
  <2>1. PersistentTypes
    BY DEF TypeOK, PersistentTypes
  <2>2. lastIncludedIndex[i] \in Nat /\ lastLogIndex(i) \in Nat
    BY <2>1, LogFacts
  <2> QED BY <2>2
<1>8. PICK result : result = PrevLogCheck(i, m)
  OBVIOUS
<1>9. CASE prev > last
  <2>1. result = [Success |-> FALSE, ConflictTerm |-> -1, ConflictIndex |-> last + 1]
    BY <1>2, <1>7, <1>8, <1>9 DEF PrevLogCheck
  <2>2. result.ConflictTerm = -1 /\ result.ConflictIndex = last + 1 /\ last + 1 <= prev
    BY <1>9, <2>1
  <2> QED BY <1>2, <1>5, <1>6, <1>8, <2>2 DEF Hint
<1>10. CASE ~(prev > last) /\ prev < f
  <2>1. result = [Success |-> FALSE, ConflictTerm |-> -1, ConflictIndex |-> f + 1]
    BY <1>2, <1>7, <1>8, <1>10 DEF PrevLogCheck, firstLogIndex
  <2>2. f <= z
    <3>1. PICK c \in Nat, u \in Nat : c = commitIndex[i] /\ u = currentTerm[i]
      BY DEF TypeOK
    <3>2. f <= c /\ c <= Len(committed) /\ Known(h, c, u) /\ u <= t
      BY <1>1, <1>2, <1>7, <3>1 DEF Commits
    <3>3. c <= z
      BY <1>1, <1>2, <1>4, <3>2, KnownIn
    <3> QED BY <3>2, <3>3
  <2>3. /\ result.ConflictTerm = -1 /\ result.ConflictIndex = f + 1
        /\ prev + 2 <= f + 1 /\ f + 1 <= z + 1
    BY <1>10, <2>1, <2>2
  <2> QED BY <1>2, <1>5, <1>6, <1>8, <2>3 DEF Hint
<1>11. CASE ~(prev > last) /\ ~(prev < f)
  <2>1. /\ termAt(i, prev) # m.PrevLogTerm
        /\ result.ConflictTerm = termAt(i, prev)
        /\ result.ConflictIndex = firstIndexOfRun(i, prev)
    BY <1>2, <1>7, <1>8, <1>11 DEF PrevLogCheck, firstLogIndex
  <2>2. containsIndex(i, prev)
    BY <1>7, <1>11 DEF containsIndex
  <2>3. firstIndexOfRun(i, prev) <= prev
    BY <2>2, RunStarts
  <2> QED BY <1>2, <1>4, <1>5, <1>8, <2>1, <2>3 DEF Hint
<1> QED BY <1>9, <1>10, <1>11

\* The answer to a refused AppendEntries or Heartbeat promises nothing but its
\* hint.
LEMMA SoundAppendRefusal ==
  ASSUME NEW h, NEW m, NEW t, NEW result, NEW stopped, ~result.Success,
         Hint(h, m.Term, m.PrevLogIndex, result)
  PROVE  Sound(h, AppendReply(m, t, result, stopped))'
<1>1. PICK r : r = AppendReply(m, t, result, stopped)
  OBVIOUS
<1>2. CASE m.type = "Heartbeat"
  <2>1. r.type = "HeartbeatReply"
    BY <1>1, <1>2 DEF AppendReply
  <2> QED BY <1>1, <2>1, SoundVoteReply
<1>3. CASE m.type # "Heartbeat"
  <2>1. /\ r.type = "AppendEntriesReply" /\ ~r.Success
        /\ r.term = m.Term /\ r.PrevLogIndex = m.PrevLogIndex
        /\ r.ConflictTerm = result.ConflictTerm /\ r.ConflictIndex = result.ConflictIndex
    BY <1>1, <1>3 DEF AppendReply
  <2>2. Hint(h, m.Term, m.PrevLogIndex, r)
    BY <2>1 DEF Hint
  <2>3. Hint(h, r.term, r.PrevLogIndex, r)
    BY <2>1, <2>2
  <2> QED BY <1>1, <2>1, <2>3, SoundRefusal
<1> QED BY <1>2, <1>3

\* A refused AppendEntries.
LEMMA CalmAppendEntries ==
  ASSUME TypeOK, TypeOK', NEW h, LogInv(h), NEW m \in rpcs, AppendEntries(m),
         \/ dead[m.to] \/ m.Term < currentTerm[m.to]
         \/ ~PrevLogCheck(m.to, m).Success
  PROVE  Calm(h)
<1>1. m \in AppendEntriesArgs
  BY RPCTypes DEF TypeOK, AppendEntries
<1>2. PICK i \in Server : i = m.to
  BY <1>1 DEF AppendEntriesArgs
<1>3. m.Term \in Nat /\ currentTerm[i] \in Nat
  BY <1>1 DEF AppendEntriesArgs, TypeOK
<1>4. UNCHANGED <<lastApplied, matchIndex, pendingSnapshot, votesCast, elected, committed>>
  BY DEF AppendEntries, leadership
<1>5. CASE dead[i] \/ m.Term < currentTerm[i]
  <2>1. /\ Answer(m, AppendReply(m, currentTerm[i], Rejected, dead[i]))
        /\ UNCHANGED <<persistent, state, commitIndex>>
    <3>1. ~(~dead[i] /\ m.Term >= currentTerm[i])
      BY <1>3, <1>5
    <3> QED BY <1>2, <3>1 DEF AppendEntries
  <2>2. ~Rejected.Success /\ Hint(h, m.Term, m.PrevLogIndex, Rejected)
    BY <1>1, HintRejected DEF Rejected, LogInv
  <2>3. \A x \in rpcs' \ rpcs : Sound(h, x)'
    BY <2>1, <2>2, AnswerAdds, SoundAppendRefusal
  <2>4. UNCHANGED <<elected, committed, votesCast, storage, currentTerm, state>>
    BY <1>4, <2>1 DEF storage, persistent
  <2> QED BY <2>3, <2>4, CalmUnchanged
<1>6. CASE ~(dead[i] \/ m.Term < currentTerm[i])
  <2>0. PICK result : result = PrevLogCheck(i, m)
    OBVIOUS
  <2>1. ~result.Success /\ Hint(h, m.Term, m.PrevLogIndex, result)
    <3>1. ~PrevLogCheck(i, m).Success /\ currentTerm[i] <= m.Term
      BY <1>2, <1>3, <1>6
    <3> QED BY <1>1, <2>0, <3>1, HintConflict
  <2>2. /\ becomeFollower(i, m.Term)
        /\ logs' = [logs EXCEPT ![i] = logs[i]]
        /\ commitIndex' = [commitIndex EXCEPT ![i] = commitIndex[i]]
        /\ UNCHANGED <<lastIncludedIndex, lastIncludedTerm>>
        /\ Answer(m, AppendReply(m, m.Term, result, FALSE))
    BY <1>2, <1>6, <2>0, <2>1 DEF AppendEntries, followerCommit
  <2>3. \A x \in rpcs' \ rpcs : Sound(h, x)'
    <3>1. PICK r : r = AppendReply(m, m.Term, result, FALSE)
      OBVIOUS
    <3>2. Sound(h, r)'
      BY <2>1, <3>1, SoundAppendRefusal
    <3> QED BY <2>2, <3>1, <3>2, AnswerAdds
  <2>4. logs' = logs /\ commitIndex' = commitIndex
    BY <2>2 DEF TypeOK
  <2>5. UNCHANGED <<elected, committed, votesCast, storage>>
    BY <1>4, <2>2, <2>4 DEF storage
  <2> QED BY <1>3, <2>2, <2>3, <2>5, CalmFollower
<1> QED BY <1>5, <1>6

\* An InstallSnapshot that comes too late.
LEMMA CalmInstallSnapshot ==
  ASSUME TypeOK, TypeOK', NEW h, LogInv(h), NEW m \in rpcs, InstallSnapshot(m),
         dead[m.to] \/ m.Term < currentTerm[m.to]
  PROVE  Calm(h)
<1>1. m \in InstallSnapshotArgs
  BY RPCTypes DEF TypeOK, InstallSnapshot
<1>2. PICK i \in Server : i = m.to
  BY <1>1 DEF InstallSnapshotArgs
<1>3. m.Term \in Nat /\ currentTerm[i] \in Nat
  BY <1>1 DEF InstallSnapshotArgs, TypeOK
<1>4. UNCHANGED <<matchIndex, votesCast, elected, committed>>
  BY DEF InstallSnapshot, leadership
<1>5. PICK r : r = SnapshotReply(m, currentTerm[i], dead[i])
  OBVIOUS
<1>6. /\ Answer(m, r)
      /\ UNCHANGED <<persistent, state, commitIndex, lastApplied, pendingSnapshot>>
  <2>1. ~(~dead[i] /\ m.Term >= currentTerm[i])
    BY <1>2, <1>3
  <2> QED BY <1>2, <1>5, <2>1 DEF InstallSnapshot
<1>7. /\ r.type = "InstallSnapshotReply" /\ r.Stopped = dead[i]
      /\ r.Term = currentTerm[i] /\ r.term = m.Term
  BY <1>5 DEF SnapshotReply
<1>8. r.Stopped \/ ~(r.Term <= r.term)
  BY <1>2, <1>3, <1>7
<1>9. \A x \in rpcs' \ rpcs : Sound(h, x)'
  BY <1>6, <1>7, <1>8, AnswerAdds, SoundLate
<1>10. UNCHANGED <<elected, committed, votesCast, storage, currentTerm, state>>
  BY <1>4, <1>6 DEF storage, persistent
<1> QED BY <1>9, <1>10, CalmUnchanged

\* An AppendEntries reply that confirms nothing.
LEMMA CalmAppendEntriesReply ==
  ASSUME TypeOK, TypeOK', NEW h, LogInv(h), NEW m \in rpcs, AppendEntriesReply(m),
         ~(~m.Stopped /\ Expected(m.to, m) /\ m.Success)
  PROVE  Calm(h)
<1>1. m \in AppendEntriesReplies
  BY RPCTypes DEF TypeOK, AppendEntriesReply
<1>2. m.to \in Server /\ m.Term \in Nat
  BY <1>1 DEF AppendEntriesReplies
<1>3. /\ UNCHANGED <<lastApplied, pendingSnapshot, votesCast, elected>>
      /\ rpcs' \ rpcs = {}
  BY DEF AppendEntriesReply
<1>4. \/ stepDown(m.to, m.Term) /\ UNCHANGED <<matchIndex, commitIndex, committed>>
      \/ UNCHANGED <<persistent, state, matchIndex, commitIndex, committed>>
  BY DEF AppendEntriesReply, leadership
<1>5. CASE stepDown(m.to, m.Term) /\ UNCHANGED <<matchIndex, commitIndex, committed>>
  <2>1. UNCHANGED <<elected, committed, votesCast, storage>>
    BY <1>3, <1>5 DEF storage, stepDown
  <2> QED BY <1>2, <1>3, <1>5, <2>1, CalmFollower DEF stepDown
<1>6. CASE UNCHANGED <<persistent, state, matchIndex, commitIndex, committed>>
  <2>1. UNCHANGED <<elected, committed, votesCast, storage, currentTerm, state>>
    BY <1>3, <1>6 DEF storage, persistent
  <2> QED BY <1>3, <2>1, CalmUnchanged
<1> QED BY <1>4, <1>5, <1>6

\* A step that touches the storage of one server only, and leaves its log.
LEMMA CalmOne ==
  ASSUME TypeOK, TypeOK', NEW h, LogInv(h), NEW i \in Server,
         UNCHANGED <<elected, committed, votesCast, currentTerm, state>>,
         rpcs' \subseteq rpcs,
         \A j \in Server \ {i} :
           /\ logs'[j] = logs[j] /\ lastIncludedIndex'[j] = lastIncludedIndex[j]
           /\ lastIncludedTerm'[j] = lastIncludedTerm[j] /\ commitIndex'[j] = commitIndex[j]
           /\ lastApplied'[j] = lastApplied[j] /\ pendingSnapshot'[j] = pendingSnapshot[j]
           /\ matchIndex'[j] = matchIndex[j],
         Stored(h, i)', Keeps(i),
         state[i] = Leader =>
           \A p \in Server : matchIndex'[i][p] <= h.acked[p][currentTerm[i]],
         lastIncludedIndex'[i] <= commitIndex'[i], lastApplied'[i] <= commitIndex'[i],
         pendingSnapshot'[i] # None => pendingSnapshot'[i].Index <= commitIndex'[i],
         commitIndex'[i] <= commitIndex[i]
  PROVE  Calm(h)
<1>1. /\ Lineage(h) /\ h \in History
      /\ \A j \in Server : Stored(h, j) /\ Role(h, j) /\ Commits(h, j)
  BY DEF LogInv, Lineage
<1>2. Extends(h, h)
  BY <1>1, ExtendsItself
<1>3. \A j \in Server : currentTerm[j] \in Nat /\ commitIndex[j] \in Nat
  BY DEF TypeOK
<1>4. ASSUME NEW j \in Server \ {i}
      PROVE  /\ Stored(h, j)' /\ Keeps(j)
             /\ state'[j] = Leader =>
                  \A p \in Server : matchIndex'[j][p] <= h.acked[p][currentTerm'[j]]
             /\ lastIncludedIndex'[j] <= commitIndex'[j] /\ lastApplied'[j] <= commitIndex'[j]
             /\ pendingSnapshot'[j] # None => pendingSnapshot'[j].Index <= commitIndex'[j]
             /\ commitIndex'[j] <= commitIndex[j]
  <2>1. Stored(h, j)' /\ Keeps(j)
    <3>1. currentTerm[j] <= currentTerm'[j]
      BY <1>3
    <3> QED BY <1>1, <1>2, <3>1, StoredStays
  <2>2. state'[j] = Leader =>
                  \A p \in Server : matchIndex'[j][p] <= h.acked[p][currentTerm'[j]]
    BY <1>1 DEF Role
  <2> QED BY <1>1, <1>3, <2>1, <2>2 DEF Commits
<1>5. \A j \in Server :
         /\ currentTerm[j] <= currentTerm'[j]
         /\ state'[j] # Follower => state'[j] = state[j] /\ currentTerm'[j] = currentTerm[j]
  BY <1>3
<1>6. \A j \in Server :
         /\ Stored(h, j)' /\ Keeps(j)
         /\ state'[j] = Leader =>
              \A p \in Server : matchIndex'[j][p] <= h.acked[p][currentTerm'[j]]
         /\ lastIncludedIndex'[j] <= commitIndex'[j] /\ lastApplied'[j] <= commitIndex'[j]
         /\ pendingSnapshot'[j] # None => pendingSnapshot'[j].Index <= commitIndex'[j]
         /\ commitIndex'[j] <= commitIndex[j]
  <2>1. \A j \in Server : j = i \/ j \in Server \ {i}
    OBVIOUS
  <2> QED BY <1>4, <2>1
<1> QED BY <1>5, <1>6 DEF Calm

\* An InstallSnapshot reply raises the match index to what the peer acknowledged.
LEMMA CalmInstallSnapshotReply ==
  ASSUME TypeOK, TypeOK', NEW h, LogInv(h), NEW m \in rpcs, InstallSnapshotReply(m)
  PROVE  Calm(h)
<1>1. m \in InstallSnapshotReplies /\ m.type = "InstallSnapshotReply"
  BY RPCTypes DEF TypeOK, InstallSnapshotReply
<1>2. /\ m.to \in Server /\ m.from \in Server /\ m.Term \in Nat /\ m.term \in Nat
      /\ m.LastIncludedIndex \in Nat
  BY <1>1 DEF InstallSnapshotReplies
<1>3. /\ UNCHANGED <<lastApplied, pendingSnapshot, votesCast, elected, committed, commitIndex>>
      /\ rpcs' \ rpcs = {}
  BY DEF InstallSnapshotReply
<1>4. CASE stepDown(m.to, m.Term) /\ UNCHANGED leadership
  <2>1. UNCHANGED <<elected, committed, votesCast, storage>>
    BY <1>3, <1>4 DEF storage, stepDown, leadership
  <2> QED BY <1>2, <1>3, <1>4, <2>1, CalmFollower DEF stepDown
<1>5. CASE UNCHANGED <<persistent, state, leadership>>
  <2>1. UNCHANGED <<elected, committed, votesCast, storage, currentTerm, state>>
    BY <1>3, <1>5 DEF storage, persistent, leadership
  <2> QED BY <1>3, <2>1, CalmUnchanged
<1>6. CASE /\ ~m.Stopped /\ Expected(m.to, m)
           /\ matchIndex' = [matchIndex EXCEPT ![m.to][m.from] =
                               Max({matchIndex[m.to][m.from], m.LastIncludedIndex})]
           /\ UNCHANGED <<persistent, state>>
  <2>0. PICK i \in Server, p \in Server : i = m.to /\ p = m.from
    BY <1>2
  <2>1. m.Term <= currentTerm[i] /\ state[i] = Leader /\ currentTerm[i] = m.term
    BY <1>6, <2>0 DEF Expected
  <2>2. m.LastIncludedIndex <= h.acked[p][currentTerm[i]]
    BY <1>1, <1>6, <2>0, <2>1 DEF LogInv, Sound
  <2>3. /\ Lineage(h) /\ h \in History /\ Stored(h, i) /\ Role(h, i) /\ Commits(h, i)
    BY DEF LogInv, Lineage
  <2>4. \A q \in Server : matchIndex[i][q] <= h.acked[q][currentTerm[i]]
    BY <2>1, <2>3 DEF Role
  <2>5. matchIndex \in [Server -> [Server -> Nat]]
    BY DEF TypeOK
  <2>6. Max({matchIndex[i][p], m.LastIncludedIndex}) \in {matchIndex[i][p], m.LastIncludedIndex}
    <3>1. matchIndex[i][p] \in Int /\ m.LastIncludedIndex \in Int
      BY <1>2, <2>5
    <3> QED BY <3>1, MaxOfTwo
  <2>7. ASSUME NEW q \in Server PROVE matchIndex'[i][q] <= h.acked[q][currentTerm[i]]
    <3>1. CASE q = p
      <4>1. matchIndex'[i][q] = Max({matchIndex[i][p], m.LastIncludedIndex})
        BY <1>6, <2>0, <2>5, <3>1
      <4> QED BY <2>2, <2>4, <2>6, <3>1, <4>1
    <3>2. CASE q # p
      <4>1. matchIndex'[i][q] = matchIndex[i][q]
        BY <1>6, <2>0, <2>5, <3>2
      <4> QED BY <2>4, <4>1
    <3> QED BY <3>1, <3>2
  <2>8. \A j \in Server \ {i} : matchIndex'[j] = matchIndex[j]
    BY <1>6, <2>0, <2>5
  <2>9. UNCHANGED <<elected, committed, votesCast, currentTerm, state>>
        /\ UNCHANGED <<logs, lastIncludedIndex, lastIncludedTerm, commitIndex>>
        /\ UNCHANGED <<lastApplied, pendingSnapshot>>
        /\ rpcs' \subseteq rpcs
    BY <1>3, <1>6 DEF persistent
  <2>10. Stored(h, i)' /\ Keeps(i)
    <3>1. currentTerm[i] <= currentTerm'[i]
      BY <2>9 DEF TypeOK
    <3> QED BY <2>3, <2>9, <3>1, ExtendsItself, StoredStays
  <2>11. /\ lastIncludedIndex'[i] <= commitIndex'[i] /\ lastApplied'[i] <= commitIndex'[i]
         /\ pendingSnapshot'[i] # None => pendingSnapshot'[i].Index <= commitIndex'[i]
         /\ commitIndex'[i] <= commitIndex[i]
    <3>1. commitIndex[i] \in Nat
      BY DEF TypeOK
    <3> QED BY <2>3, <2>9, <3>1 DEF Commits
  <2> QED BY <2>7, <2>8, <2>9, <2>10, <2>11, CalmOne
<1> QED BY <1>4, <1>5, <1>6 DEF InstallSnapshotReply

\* The applier claims no more than what is committed.
LEMMA CalmApplier ==
  ASSUME TypeOK, TypeOK', NEW h, LogInv(h), NEW i \in Server, applier(i)
  PROVE  Calm(h)
<1>1. /\ Lineage(h) /\ h \in History /\ Stored(h, i) /\ Role(h, i) /\ Commits(h, i)
  BY DEF LogInv, Lineage
<1>2. /\ UNCHANGED <<elected, committed, votesCast, currentTerm, state>>
      /\ UNCHANGED <<logs, lastIncludedIndex, lastIncludedTerm, commitIndex, matchIndex>>
      /\ rpcs' \subseteq rpcs
  BY DEF applier, persistent, leadership
<1>3. /\ commitIndex[i] \in Nat /\ lastApplied[i] \in Nat
      /\ lastApplied[i] <= commitIndex[i] /\ lastIncludedIndex[i] <= commitIndex[i]
      /\ pendingSnapshot[i] # None =>
           pendingSnapshot[i].Index \in Nat /\ pendingSnapshot[i].Index <= commitIndex[i]
  BY <1>1 DEF TypeOK, Commits
<1>4. lastApplied \in [Server -> Nat] /\ DOMAIN pendingSnapshot = Server
  BY DEF TypeOK
<1>5. /\ \A j \in Server \ {i} : lastApplied'[j] = lastApplied[j]
                                 /\ pendingSnapshot'[j] = pendingSnapshot[j]
      /\ lastApplied'[i] <= commitIndex[i]
      /\ pendingSnapshot'[i] # None => pendingSnapshot'[i].Index <= commitIndex[i]
  <2>1. CASE /\ pendingSnapshot[i] # None
             /\ lastApplied' = [lastApplied EXCEPT ![i] =
                                  Max({lastApplied[i], pendingSnapshot[i].Index})]
             /\ pendingSnapshot' = [pendingSnapshot EXCEPT ![i] = None]
    <3>1. Max({lastApplied[i], pendingSnapshot[i].Index})
            \in {lastApplied[i], pendingSnapshot[i].Index}
      <4>1. lastApplied[i] \in Int /\ pendingSnapshot[i].Index \in Int
        BY <1>3, <2>1
      <4> QED BY <4>1, MaxOfTwo
    <3>2. lastApplied'[i] = Max({lastApplied[i], pendingSnapshot[i].Index})
          /\ pendingSnapshot'[i] = None
      BY <1>4, <2>1
    <3>3. \A j \in Server \ {i} : lastApplied'[j] = lastApplied[j]
                                 /\ pendingSnapshot'[j] = pendingSnapshot[j]
      BY <1>4, <2>1
    <3>4. lastApplied'[i] <= commitIndex[i]
      BY <1>3, <2>1, <3>1, <3>2
    <3> QED BY <3>2, <3>3, <3>4
  <2>2. CASE /\ lastApplied' = [lastApplied EXCEPT ![i] = commitIndex[i]]
             /\ UNCHANGED pendingSnapshot
    <3>1. lastApplied'[i] = commitIndex[i]
          /\ \A j \in Server \ {i} : lastApplied'[j] = lastApplied[j]
      BY <1>4, <2>2
    <3>2. lastApplied'[i] <= commitIndex[i]
      BY <1>3, <3>1
    <3> QED BY <1>3, <2>2, <3>1, <3>2
  <2> QED BY <2>1, <2>2 DEF applier
<1>6. Stored(h, i)' /\ Keeps(i)
  <2>1. currentTerm[i] <= currentTerm'[i]
    BY <1>2 DEF TypeOK
  <2> QED BY <1>1, <1>2, <2>1, ExtendsItself, StoredStays
<1>7. state[i] = Leader =>
        \A p \in Server : matchIndex'[i][p] <= h.acked[p][currentTerm[i]]
  BY <1>1, <1>2 DEF Role
<1>8. commitIndex'[i] <= commitIndex[i] /\ lastIncludedIndex'[i] <= commitIndex'[i]
  BY <1>2, <1>3
<1> QED BY <1>2, <1>5, <1>6, <1>7, <1>8, CalmOne

\* The entries of a log between two positions.
LEMMA Piece ==
  ASSUME NEW s \in Seq(Entry), NEW a \in Nat, NEW b \in Nat, a >= 1, a <= b + 1, b <= Len(s)
  PROVE  /\ SubSeq(s, a, b) \in Seq(Entry) /\ Len(SubSeq(s, a, b)) = b - a + 1
         /\ \A k \in 1..(b - a + 1) : SubSeq(s, a, b)[k] = s[a + k - 1]
<1>1. Len(s) \in Nat /\ \A k \in 1..Len(s) : s[k] \in Entry
  OBVIOUS
<1>2. \A k \in a..b : s[k] \in Entry
  BY <1>1
<1>3. /\ SubSeq(s, a, b) \in Seq(Entry)
      /\ Len(SubSeq(s, a, b)) = IF a <= b THEN b - a + 1 ELSE 0
      /\ \A k \in 1..(b - a + 1) : SubSeq(s, a, b)[k] = s[a + k - 1]
  BY <1>2, SubSeqProperties
<1> QED BY <1>3

\* Two pieces put together.
LEMMA Joined ==
  ASSUME NEW s \in Seq(Entry), NEW t \in Seq(Entry)
  PROVE  /\ s \o t \in Seq(Entry) /\ Len(s \o t) = Len(s) + Len(t)
         /\ \A k \in 1..Len(s) : (s \o t)[k] = s[k]
         /\ \A k \in 1..Len(t) : (s \o t)[Len(s) + k] = t[k]
<1>1. /\ s \o t \in Seq(Entry) /\ Len(s \o t) = Len(s) + Len(t)
      /\ \A k \in 1..(Len(s) + Len(t)) :
           (s \o t)[k] = IF k <= Len(s) THEN s[k] ELSE t[k - Len(s)]
  BY ConcatProperties
<1>2. Len(s) \in Nat /\ Len(t) \in Nat
  OBVIOUS
<1>3. ASSUME NEW k \in 1..Len(s) PROVE (s \o t)[k] = s[k]
  <2>1. k \in 1..(Len(s) + Len(t)) /\ k <= Len(s)
    BY <1>2
  <2> QED BY <1>1, <2>1
<1>4. ASSUME NEW k \in 1..Len(t) PROVE (s \o t)[Len(s) + k] = t[k]
  <2>1. Len(s) + k \in 1..(Len(s) + Len(t)) /\ ~(Len(s) + k <= Len(s)) /\ (Len(s) + k) - Len(s) = k
    BY <1>2
  <2> QED BY <1>1, <2>1
<1> QED BY <1>1, <1>3, <1>4

\* What compaction leaves of a log that agrees with the snapshot.
LEMMA CompactedSuffix ==
  ASSUME PersistentTypes, NEW i \in Server, NEW index \in Nat, containsIndex(i, index),
         NEW term \in Nat, termAt(i, index) = term
  PROVE  \E d \in Nat :
           /\ index = lastIncludedIndex[i] + d /\ d + 1 <= Len(logs[i])
           /\ compactedLog(i, index, term) \in Seq(Entry)
           /\ Len(compactedLog(i, index, term)) = Len(logs[i]) - d
           /\ compactedLog(i, index, term)[1] = [Term |-> term, Command |-> None]
           /\ \A k \in 2..(Len(logs[i]) - d) :
                compactedLog(i, index, term)[k] = logs[i][k + d]
<1>1. /\ logs[i] \in Seq(Entry) /\ Len(logs[i]) \in Nat /\ lastIncludedIndex[i] \in Nat
      /\ index - lastIncludedIndex[i] + 1 \in 1..Len(logs[i])
  BY LogFacts DEF toOffset
<1>2. PICK d \in Nat : d = index - lastIncludedIndex[i]
  BY <1>1
<1>3. index = lastIncludedIndex[i] + d /\ d + 1 <= Len(logs[i])
  BY <1>1, <1>2
<1>4. PICK s \in Seq(Entry) : s = logs[i]
  BY <1>1
<1>5. PICK n \in Nat : n = Len(s)
  BY <1>1, <1>4
<1>6. PICK S : S = SubSeq(s, d + 2, n)
  OBVIOUS
<1>7. PICK D : D = <<[Term |-> term, Command |-> None]>>
  OBVIOUS
<1>8. PICK L : L = compactedLog(i, index, term)
  OBVIOUS
<1>9. L = D \o S
  BY <1>2, <1>4, <1>5, <1>6, <1>7, <1>8 DEF compactedLog, toOffset
<1>10. D \in Seq(Entry) /\ Len(D) = 1 /\ D[1] = [Term |-> term, Command |-> None]
  BY <1>7 DEF Entry
<1>11. d + 1 <= n
  BY <1>3, <1>4, <1>5
<1>12. /\ S \in Seq(Entry) /\ Len(S) = n - d - 1
       /\ \A k \in 1..(n - d - 1) : S[k] = s[d + 1 + k]
  <2>1. d + 2 \in Nat /\ d + 2 >= 1 /\ d + 2 <= n + 1 /\ n <= Len(s) /\ n - (d + 2) + 1 = n - d - 1
    BY <1>5, <1>11
  <2>2. /\ S \in Seq(Entry) /\ Len(S) = n - d - 1
        /\ \A k \in 1..(n - d - 1) : S[k] = s[d + 2 + k - 1]
    BY <1>6, <2>1, Piece
  <2>3. \A k \in Int : d + 2 + k - 1 = d + 1 + k
    OBVIOUS
  <2> QED BY <2>2, <2>3
<1>13. /\ L \in Seq(Entry) /\ Len(L) = 1 + Len(S)
       /\ \A k \in 1..1 : L[k] = D[k]
       /\ \A k \in 1..Len(S) : L[1 + k] = S[k]
  <2>1. /\ L \in Seq(Entry) /\ Len(L) = Len(D) + Len(S)
        /\ \A k \in 1..Len(D) : L[k] = D[k]
        /\ \A k \in 1..Len(S) : L[Len(D) + k] = S[k]
    <3> HIDE <1>7
    <3> QED BY <1>9, <1>10, <1>12, Joined
  <2> QED BY <1>10, <2>1
<1>14. Len(L) = n - d /\ L[1] = D[1]
  BY <1>12, <1>13
<1>15. ASSUME NEW k \in 2..(n - d) PROVE L[k] = s[k + d]
  <2>1. PICK j \in Nat : k = 1 + j
    BY <1>11
  <2>2. j \in 1..(n - d - 1) /\ d + 1 + j = k + d
    BY <1>11, <2>1
  <2> QED BY <1>12, <1>13, <2>1, <2>2
<1> QED BY <1>3, <1>4, <1>5, <1>8, <1>10, <1>13, <1>14, <1>15

\* A server that compacts a prefix of its log stores what it stored.
LEMMA StoredCompacted ==
  ASSUME TypeOK, TypeOK', NEW h, Lineage(h), NEW i \in Server,
         Stored(h, i), NEW index \in Nat, containsIndex(i, index),
         logs'[i] = compactedLog(i, index, termAt(i, index)),
         lastIncludedIndex'[i] = index, lastIncludedTerm'[i] = termAt(i, index),
         currentTerm[i] <= currentTerm'[i]
  PROVE  Stored(h, i)' /\ Keeps(i)
<1>1. PersistentTypes
  BY DEF TypeOK, PersistentTypes
<1>2. PICK term \in Nat : term = termAt(i, index)
  BY <1>1, LogFacts
<1>3. PICK d \in Nat :
        /\ index = lastIncludedIndex[i] + d /\ d + 1 <= Len(logs[i])
        /\ compactedLog(i, index, term) \in Seq(Entry)
        /\ Len(compactedLog(i, index, term)) = Len(logs[i]) - d
        /\ compactedLog(i, index, term)[1] = [Term |-> term, Command |-> None]
        /\ \A k \in 2..(Len(logs[i]) - d) : compactedLog(i, index, term)[k] = logs[i][k + d]
  BY <1>1, <1>2, CompactedSuffix, ZenonT(40)
<1>4. PICK L \in Seq(Entry) : L = compactedLog(i, index, term)
  BY <1>3
<1>0. PICK n \in Nat : n = Len(L)
  BY <1>4
<1>5. /\ d + 1 <= Len(logs[i]) /\ n = Len(logs[i]) - d
      /\ \A k \in 2..n : L[k] = logs[i][k + d]
  BY <1>0, <1>3, <1>4
<1>6. logs'[i] = L /\ L[1].Term = term
  BY <1>2, <1>3, <1>4
<1>7. /\ Len(logs[i]) \in Nat /\ lastIncludedIndex[i] \in Nat
      /\ lastLogTerm(i) \in Nat /\ lastLogIndex(i) \in Nat
      /\ currentTerm[i] \in Nat /\ lastLogIndex(i) <= h.len[lastLogTerm(i)]
      /\ lastLogIndex(i) = lastIncludedIndex[i] + Len(logs[i]) - 1
  BY <1>1, LogFacts, ServerLog DEF lastLogIndex
<1>17. PICK f \in Nat, a \in Nat, z \in Nat :
         f = lastIncludedIndex[i] /\ a = Len(logs[i]) /\ z = lastLogIndex(i)
  BY <1>7
<1>18. index = f + d /\ n = a - d /\ z = f + a - 1 /\ d + 1 <= a
  BY <1>3, <1>5, <1>7, <1>17
<1>8. term = logs[i][d + 1].Term
  <2>1. index - f + 1 = d + 1
    BY <1>18
  <2> QED BY <1>2, <1>17, <2>1 DEF termAt, toOffset
<1>9. \A k \in 1..n : L[k].Term = logs[i][k + d].Term
  <2> SUFFICES ASSUME NEW k \in 1..n PROVE L[k].Term = logs[i][k + d].Term
    OBVIOUS
  <2>1. CASE k = 1
    BY <1>6, <1>8, <2>1
  <2>2. CASE k # 1
    <3>1. k \in 2..n
      BY <1>5, <1>7, <2>2
    <3> QED BY <1>5, <3>1
  <2> QED BY <2>1, <2>2
<1>10. lastLogIndex(i)' = lastLogIndex(i)
  <2>1. lastLogIndex(i)' = index + n - 1
    BY <1>0, <1>6 DEF lastLogIndex
  <2>2. index + n - 1 = z
    BY <1>18
  <2> QED BY <1>17, <2>1, <2>2
<1>11. lastLogTerm(i)' = lastLogTerm(i)
  <2>1. n \in 1..n /\ n + d = Len(logs[i])
    BY <1>3, <1>5, <1>7
  <2>2. L[n].Term = logs[i][Len(logs[i])].Term
    BY <1>9, <2>1
  <2> QED BY <1>0, <1>6, <2>2 DEF lastLogTerm
<1>12. PICK t \in Nat : t = lastLogTerm(i)
  BY <1>7
<1>13. ASSUME NEW k \in index..lastLogIndex(i)
       PROVE  /\ termAt(i, k)' = h.log[t][k].Term
              /\ k > index => entryAt(i, k)' = h.log[t][k]
  <2>0. k \in index..z
    BY <1>17
  <2>1. PICK o \in Nat : o = k - index + 1
    BY <2>0
  <2>2. o \in 1..n /\ o + d = k - lastIncludedIndex[i] + 1
    <3>1. o \in 1..n /\ o + d = k - f + 1
      BY <1>18, <2>0, <2>1
    <3> QED BY <1>17, <3>1
  <2>3. /\ k \in lastIncludedIndex[i]..lastLogIndex(i)
        /\ k > index => k > lastIncludedIndex[i] /\ o \in 2..n
    <3>1. k \in f..z /\ (k > index => k > f /\ o \in 2..n)
      BY <1>18, <2>0, <2>1
    <3> QED BY <1>17, <3>1
  <2>4. /\ termAt(i, k) = h.log[t][k].Term
        /\ k > lastIncludedIndex[i] => entryAt(i, k) = h.log[t][k]
    BY <1>12, <2>3 DEF Stored
  <2>5. termAt(i, k)' = L[o].Term /\ entryAt(i, k)' = L[o]
    BY <1>6, <2>1 DEF termAt, entryAt, toOffset
  <2>6. termAt(i, k) = logs[i][o + d].Term /\ entryAt(i, k) = logs[i][o + d]
    BY <2>2 DEF termAt, entryAt, toOffset
  <2>7. L[o].Term = logs[i][o + d].Term
    BY <1>9, <2>2
  <2>8. ASSUME k > index PROVE entryAt(i, k)' = h.log[t][k]
    BY <1>5, <2>3, <2>4, <2>5, <2>6, <2>8
  <2> QED BY <2>4, <2>5, <2>6, <2>7, <2>8
<1>14. lastIncludedTerm'[i] = termAt(i, lastIncludedIndex[i])'
  <2>1. termAt(i, lastIncludedIndex[i])' = L[index - index + 1].Term
    BY <1>6 DEF termAt, toOffset
  <2>2. index - index + 1 = 1
    OBVIOUS
  <2> QED BY <1>2, <1>6, <2>1, <2>2
<1>15. t <= currentTerm'[i] /\ lastLogIndex(i) <= h.len[t]
  <2>1. currentTerm'[i] \in Nat /\ t <= currentTerm[i]
    BY <1>12 DEF TypeOK, Stored
  <2> QED BY <1>7, <1>12, <2>1
<1>16. Stored(h, i)'
  BY <1>10, <1>11, <1>12, <1>13, <1>14, <1>15 DEF Stored
<1> QED BY <1>10, <1>11, <1>16 DEF Keeps

\* A service that compacts the log up to what it applied.
LEMMA CalmSnapshot ==
  ASSUME TypeOK, TypeOK', NEW h, LogInv(h), NEW i \in Server, Snapshot(i)
  PROVE  Calm(h)
<1>1. /\ Lineage(h) /\ h \in History /\ Stored(h, i) /\ Role(h, i) /\ Commits(h, i)
  BY DEF LogInv, Lineage
<1>2. /\ UNCHANGED <<elected, committed, votesCast, currentTerm, state>>
      /\ UNCHANGED <<commitIndex, lastApplied, pendingSnapshot, matchIndex>>
      /\ rpcs' \subseteq rpcs
  BY DEF Snapshot, leadership
<1>3. PICK index \in Nat : index = appliedIndex[i]
  BY DEF TypeOK
<1>4. /\ index > lastIncludedIndex[i] /\ index <= lastApplied[i] /\ index <= lastLogIndex(i)
      /\ logs' = [logs EXCEPT ![i] = compactedLog(i, index, termAt(i, index))]
      /\ lastIncludedIndex' = [lastIncludedIndex EXCEPT ![i] = index]
      /\ lastIncludedTerm' = [lastIncludedTerm EXCEPT ![i] = termAt(i, index)]
  BY <1>3 DEF Snapshot, snapshotIndex
<1>5. /\ logs'[i] = compactedLog(i, index, termAt(i, index))
      /\ lastIncludedIndex'[i] = index /\ lastIncludedTerm'[i] = termAt(i, index)
      /\ \A j \in Server \ {i} :
           /\ logs'[j] = logs[j] /\ lastIncludedIndex'[j] = lastIncludedIndex[j]
           /\ lastIncludedTerm'[j] = lastIncludedTerm[j]
  BY <1>4 DEF TypeOK
<1>6. /\ lastApplied[i] \in Nat /\ commitIndex[i] \in Nat /\ currentTerm[i] \in Nat
      /\ lastIncludedIndex[i] \in Nat
  BY DEF TypeOK
<1>7. containsIndex(i, index)
  BY <1>4, <1>6 DEF containsIndex
<1>8. Stored(h, i)' /\ Keeps(i)
  <2>1. currentTerm[i] <= currentTerm'[i]
    BY <1>2, <1>6
  <2> QED BY <1>1, <1>5, <1>7, <2>1, StoredCompacted
<1>9. /\ lastIncludedIndex'[i] <= commitIndex'[i] /\ lastApplied'[i] <= commitIndex'[i]
      /\ commitIndex'[i] <= commitIndex[i]
  <2>1. lastApplied[i] <= commitIndex[i]
    BY <1>1 DEF Commits
  <2> QED BY <1>2, <1>4, <1>5, <1>6, <2>1
<1>10. pendingSnapshot'[i] # None => pendingSnapshot'[i].Index <= commitIndex'[i]
  BY <1>1, <1>2 DEF Commits
<1>11. state[i] = Leader =>
         \A p \in Server : matchIndex'[i][p] <= h.acked[p][currentTerm[i]]
  BY <1>1, <1>2 DEF Role
<1> QED BY <1>2, <1>5, <1>8, <1>9, <1>10, <1>11, CalmOne

\* A restart finds the log as it was and forgets what was committed after the
\* snapshot.
LEMMA CalmMake ==
  ASSUME TypeOK, TypeOK', PersistBeforeReply, NEW h, LogInv(h), NEW i \in Server, Make(i)
  PROVE  Calm(h)
<1>1. /\ Lineage(h) /\ h \in History /\ Stored(h, i) /\ Role(h, i) /\ Commits(h, i)
  BY DEF LogInv, Lineage
<1>2. persister[i] = PersistentState(i)
  BY DEF PersistBeforeReply
<1>3. /\ persister[i].currentTerm = currentTerm[i] /\ persister[i].logs = logs[i]
      /\ persister[i].lastIncludedIndex = lastIncludedIndex[i]
      /\ persister[i].lastIncludedTerm = lastIncludedTerm[i]
  BY <1>2 DEF PersistentState
<1>4. /\ currentTerm' = [currentTerm EXCEPT ![i] = currentTerm[i]]
      /\ logs' = [logs EXCEPT ![i] = logs[i]]
      /\ lastIncludedIndex' = [lastIncludedIndex EXCEPT ![i] = lastIncludedIndex[i]]
      /\ lastIncludedTerm' = [lastIncludedTerm EXCEPT ![i] = lastIncludedTerm[i]]
      /\ commitIndex' = [commitIndex EXCEPT ![i] = lastIncludedIndex[i]]
      /\ lastApplied' = [lastApplied EXCEPT ![i] = lastIncludedIndex[i]]
      /\ pendingSnapshot' = [pendingSnapshot EXCEPT ![i] = None]
      /\ matchIndex' = [matchIndex EXCEPT ![i] = [p \in Server |-> 0]]
      /\ UNCHANGED <<elected, committed, votesCast, state>>
      /\ rpcs' \subseteq rpcs
  BY <1>3 DEF Make, readPersist
<1>5. UNCHANGED <<currentTerm, logs, lastIncludedIndex, lastIncludedTerm>>
  BY <1>4 DEF TypeOK
<1>6. /\ commitIndex'[i] = lastIncludedIndex[i] /\ lastApplied'[i] = lastIncludedIndex[i]
      /\ pendingSnapshot'[i] = None
      /\ \A p \in Server : matchIndex'[i][p] = 0
      /\ \A j \in Server \ {i} :
           /\ commitIndex'[j] = commitIndex[j] /\ lastApplied'[j] = lastApplied[j]
           /\ pendingSnapshot'[j] = pendingSnapshot[j] /\ matchIndex'[j] = matchIndex[j]
  BY <1>4 DEF TypeOK
<1>7. lastIncludedIndex[i] \in Nat /\ currentTerm[i] \in Nat
  BY DEF TypeOK
<1>8. Stored(h, i)' /\ Keeps(i)
  <2>1. currentTerm[i] <= currentTerm'[i]
    BY <1>5, <1>7
  <2> QED BY <1>1, <1>5, <2>1, ExtendsItself, StoredStays
<1>9. \A p \in Server : matchIndex'[i][p] <= h.acked[p][currentTerm[i]]
  <2>1. \A p \in Server : h.acked[p][currentTerm[i]] \in Nat
    BY <1>1, <1>7, HistoryTypes
  <2> QED BY <1>6, <2>1
<1>10. lastIncludedIndex[i] <= commitIndex[i] /\ lastIncludedIndex[i] <= lastIncludedIndex[i]
  BY <1>1, <1>7 DEF Commits
<1> QED BY <1>4, <1>5, <1>6, <1>8, <1>9, <1>10, CalmOne

(***************************************************************************)
(* A follower accepts what the leader of its term sent.                    *)
(***************************************************************************)
\* Server i acknowledges the log of leader T up to x.
Acknowledge(h, i, T, x) ==
    [h EXCEPT !.acked = [h.acked EXCEPT ![i] = [h.acked[i] EXCEPT ![T] =
                           IF h.acked[i][T] < x THEN x ELSE h.acked[i][T]]]]

\* Accepting keeps what already agrees with the leader, and replaces the log
\* only from an entry on that does not.
Accepted(h, i, T, x) ==
    \/ Keeps(i) /\ x <= lastLogIndex(i) /\ Same(h, lastLogTerm(i), T, x)
    \/ /\ lastLogIndex(i)' = x /\ lastLogTerm(i)' = h.log[T][x].Term
       /\ \E k \in 1..x :
            k > lastLogIndex(i) \/ h.log[lastLogTerm(i)][k] # h.log[T][k]

\* The answer to it.
Confirms(r, i, T, x) ==
    \/ r.type = "HeartbeatReply"
    \/ /\ r.type = "AppendEntriesReply" /\ r.Success
       /\ r.from = i /\ r.term = T /\ r.PrevLogIndex + r.Count = x
    \/ r.type = "InstallSnapshotReply" /\ r.from = i /\ r.term = T /\ r.LastIncludedIndex = x

\* The history with the acknowledgement extends the one without.
LEMMA AcknowledgeExtends ==
  ASSUME TypeOK, NEW h \in History, NEW i \in Server, NEW T \in Nat, NEW x \in Nat,
         T >= currentTerm[i]
  PROVE  LET g == Acknowledge(h, i, T, x) IN
         /\ Extends(h, g) /\ g \in History /\ g.log = h.log /\ g.len = h.len
         /\ g.acked[i][T] = IF h.acked[i][T] < x THEN x ELSE h.acked[i][T]
         /\ \A t \in Nat : t # T => g.acked[i][t] = h.acked[i][t]
         /\ \A j \in Server : j # i => g.acked[j] = h.acked[j]
<1>1. PICK g : g = Acknowledge(h, i, T, x)
  OBVIOUS
<1>2. /\ h.log \in [Nat -> [Nat -> Entry]] /\ h.len \in [Nat -> Nat]
      /\ h.acked \in [Server -> [Nat -> Nat]]
      /\ h = [log |-> h.log, len |-> h.len, acked |-> h.acked]
  BY DEF History
<1>3. PICK y \in Nat : y = IF h.acked[i][T] < x THEN x ELSE h.acked[i][T]
  BY <1>2
<1>4. h.acked[i] \in [Nat -> Nat]
  BY <1>2
<1>5. PICK row \in [Nat -> Nat] : row = [h.acked[i] EXCEPT ![T] = y]
  BY <1>4
<1>6. PICK rows \in [Server -> [Nat -> Nat]] : rows = [h.acked EXCEPT ![i] = row]
  BY <1>2, <1>5
<1>7. g = [h EXCEPT !.acked = rows]
  BY <1>1, <1>3, <1>5, <1>6 DEF Acknowledge
<1>8. g.log = h.log /\ g.len = h.len /\ g.acked = rows
      /\ g = [log |-> h.log, len |-> h.len, acked |-> rows]
  BY <1>2, <1>7
<1>9. g \in History
  BY <1>2, <1>6, <1>8 DEF History
<1>10. row[T] = y /\ \A t \in Nat : t # T => row[t] = h.acked[i][t]
  BY <1>4, <1>5
<1>11. rows[i] = row /\ \A j \in Server : j # i => rows[j] = h.acked[j]
  BY <1>2, <1>6
<1>12. ASSUME NEW q \in Server, NEW t \in Nat
       PROVE  /\ h.acked[q][t] <= g.acked[q][t]
              /\ currentTerm[q] > t => g.acked[q][t] = h.acked[q][t]
  <2>0. currentTerm[q] \in Nat
    BY DEF TypeOK
  <2>1. h.acked[q][t] \in Nat /\ currentTerm[q] \in Nat
    BY <1>2, <2>0
  <2>2. CASE q = i /\ t = T
    <3>1. g.acked[q][t] = y
      BY <1>8, <1>10, <1>11, <2>2
    <3>2. ~(currentTerm[q] > t)
      BY <2>1, <2>2
    <3>3. h.acked[q][t] <= y
      BY <1>3, <2>1, <2>2
    <3> QED BY <3>1, <3>2, <3>3
  <2>3. CASE ~(q = i /\ t = T)
    <3>1. g.acked[q][t] = h.acked[q][t]
      BY <1>8, <1>10, <1>11, <2>3
    <3> QED BY <2>1, <3>1
  <2> QED BY <2>2, <2>3
<1>13. ASSUME NEW t \in Nat PROVE h.len[t] <= g.len[t]
  <2>1. PICK z \in Nat : z = h.len[t]
    BY <1>2
  <2>2. z <= z
    OBVIOUS
  <2> QED BY <1>8, <2>1, <2>2
<1>14. Extends(h, g)
  BY <1>8, <1>9, <1>12, <1>13 DEF Extends
<1> QED BY <1>1, <1>3, <1>8, <1>9, <1>10, <1>11, <1>14

\* What the follower had acknowledged of the leader's log it keeps, and it now
\* agrees with the leader up to x.
LEMMA AcceptedAgrees ==
  ASSUME TypeOK, NEW h, Lineage(h), NEW i \in Server, Stored(h, i), Acked(h, i),
         NEW T \in Nat, NEW x \in Nat, x <= h.len[T], T >= currentTerm[i],
         Accepted(h, i, T, x),
         NEW y, y = IF h.acked[i][T] < x THEN x ELSE h.acked[i][T]
  PROVE  /\ lastLogTerm(i)' \in Nat /\ lastLogIndex(i)' \in Nat
         /\ y \in Nat /\ y <= lastLogIndex(i)' /\ y <= h.len[T]
         /\ Same(h, lastLogTerm(i)', T, y)
<1>1. /\ lastLogTerm(i) \in Nat /\ lastLogIndex(i) \in Nat /\ currentTerm[i] \in Nat
      /\ h.acked[i][T] \in Nat /\ h.len[T] \in Nat /\ h \in History
  BY ServerLog, HistoryTypes DEF Lineage
<1>2. h.acked[i][T] <= h.len[T]
  BY DEF Acked
<1>3. h.acked[i][T] > 0 =>
        /\ h.acked[i][T] <= lastLogIndex(i)
        /\ Same(h, lastLogTerm(i), T, h.acked[i][T])
  <2> SUFFICES ASSUME h.acked[i][T] > 0
               PROVE  /\ h.acked[i][T] <= lastLogIndex(i)
                      /\ Same(h, lastLogTerm(i), T, h.acked[i][T])
    OBVIOUS
  <2>1. T <= currentTerm[i]
    BY DEF Acked
  <2>2. T = currentTerm[i]
    BY <1>1, <2>1
  <2> QED BY <2>2 DEF Acked
<1>4. y \in Nat /\ y <= h.len[T]
  BY <1>1, <1>2
<1>5. CASE Keeps(i) /\ x <= lastLogIndex(i) /\ Same(h, lastLogTerm(i), T, x)
  <2>1. y <= lastLogIndex(i) /\ Same(h, lastLogTerm(i), T, y)
    <3>1. CASE h.acked[i][T] < x
      BY <1>5, <3>1
    <3>2. CASE ~(h.acked[i][T] < x) /\ h.acked[i][T] > 0
      BY <1>3, <3>2
    <3>3. CASE ~(h.acked[i][T] < x) /\ ~(h.acked[i][T] > 0)
      <4>1. y = x
        BY <1>1, <3>3
      <4> QED BY <1>5, <4>1
    <3> QED BY <3>1, <3>2, <3>3
  <2> QED BY <1>1, <1>4, <1>5, <2>1 DEF Keeps
<1>6. CASE /\ lastLogIndex(i)' = x /\ lastLogTerm(i)' = h.log[T][x].Term
           /\ \E k \in 1..x :
                k > lastLogIndex(i) \/ h.log[lastLogTerm(i)][k] # h.log[T][k]
  <2>1. PICK k \in 1..x : k > lastLogIndex(i) \/ h.log[lastLogTerm(i)][k] # h.log[T][k]
    BY <1>6
  <2>2. ~(h.acked[i][T] >= k)
    <3> SUFFICES ASSUME h.acked[i][T] >= k PROVE FALSE
      OBVIOUS
    <3>1. h.acked[i][T] > 0 /\ k \in 0..h.acked[i][T]
      BY <1>1
    <3>2. h.log[lastLogTerm(i)][k] = h.log[T][k]
      BY <1>3, <3>1 DEF Same
    <3>3. ~(k > lastLogIndex(i))
      BY <1>1, <1>3, <3>1
    <3> QED BY <2>1, <3>2, <3>3
  <2>3. y = x
    BY <1>1, <2>2
  <2>4. x \in 0..h.len[T]
    BY <1>1
  <2>5. h.log[T][x].Term \in Nat /\ Same(h, h.log[T][x].Term, T, x)
    BY <2>4, Origin
  <2>6. x <= x
    OBVIOUS
  <2> QED BY <1>4, <1>6, <2>3, <2>5, <2>6
<1> QED BY <1>5, <1>6 DEF Accepted

\* A later leader's log does not lose an entry that can still be committed.
LEMMA AcceptedHolds ==
  ASSUME TypeOK, NEW h, Lineage(h), Complete(h), NEW i \in Server, Stored(h, i),
         NEW T \in Nat, NEW x \in Nat, x <= h.len[T], \E j \in Server : <<T, j>> \in elected,
         Accepted(h, i, T, x), NEW t \in Nat, t < T, NEW n \in Nat, Created(h, n, t),
         Holds(h, i, n, t)
  PROVE  \/ n <= lastLogIndex(i)' /\ h.log[lastLogTerm(i)'][n].Term = t
         \/ Blocked(h, n, t)
<1>1. /\ lastLogTerm(i) \in Nat /\ lastLogIndex(i) \in Nat /\ h \in History
      /\ lastLogIndex(i) <= h.len[lastLogTerm(i)]
      /\ \A s \in Nat : h.len[s] \in Nat
  BY ServerLog, HistoryTypes DEF Lineage
<1>2. n <= lastLogIndex(i) /\ h.log[lastLogTerm(i)][n].Term = t
  BY DEF Holds
<1>3. CASE Keeps(i)
  BY <1>2, <1>3 DEF Keeps
<1>4. CASE /\ lastLogIndex(i)' = x /\ lastLogTerm(i)' = h.log[T][x].Term
           /\ \E k \in 1..x :
                k > lastLogIndex(i) \/ h.log[lastLogTerm(i)][k] # h.log[T][k]
  <2>1. PICK k \in 1..x : k > lastLogIndex(i) \/ h.log[lastLogTerm(i)][k] # h.log[T][k]
    BY <1>4
  <2>2. Contains(h, T, n, t) \/ Blocked(h, n, t)
    <3>1. PICK e \in elected : e[1] = T
      OBVIOUS
    <3>2. n \in 1..h.len[t]
      BY DEF Created
    <3> QED BY <3>1, <3>2 DEF Complete
  <2>3. CASE Contains(h, T, n, t)
    <3>1. n <= h.len[T] /\ h.log[T][n].Term = t
      BY <2>3 DEF Contains
    <3>2. n <= h.len[lastLogTerm(i)]
      BY <1>1, <1>2
    <3>3. Same(h, lastLogTerm(i), T, n)
      BY <1>1, <1>2, <3>1, <3>2, SameTerm
    <3>4. ~(x < n)
      <4> SUFFICES ASSUME x < n PROVE FALSE
        OBVIOUS
      <4>1. k \in 0..n /\ ~(k > lastLogIndex(i))
        BY <1>1, <1>2
      <4> QED BY <2>1, <3>3, <4>1 DEF Same
    <3>5. n \in 0..x /\ x \in 0..h.len[T] /\ n <= x
      BY <1>1, <3>4
    <3>6. Same(h, h.log[T][x].Term, T, x)
      BY <3>5, Origin
    <3>7. h.log[h.log[T][x].Term][n] = h.log[T][n]
      BY <3>5, <3>6 DEF Same
    <3> QED BY <1>4, <3>1, <3>5, <3>7
  <2> QED BY <2>2, <2>3
<1> QED BY <1>3, <1>4 DEF Accepted

\* What the follower had committed it keeps, and what it commits now is what
\* the leader has.
LEMMA AcceptedCommits ==
  ASSUME TypeOK, NEW h, LogInv(h), NEW i \in Server,
         NEW T \in Nat, NEW x \in Nat, x <= h.len[T], T >= currentTerm[i],
         \E j \in Server : <<T, j>> \in elected, Accepted(h, i, T, x),
         NEW c \in Nat,
         \/ c = commitIndex[i]
         \/ c <= x /\ c <= Len(committed) /\ Known(h, c, T)
  PROVE  /\ c <= lastLogIndex(i)' /\ c <= Len(committed) /\ Known(h, c, T)
         /\ \A k \in 1..c : h.log[lastLogTerm(i)'][k] = committed[k]
<1>1. /\ Lineage(h) /\ Complete(h) /\ Agreed(h) /\ Stored(h, i) /\ Acked(h, i)
      /\ Commits(h, i) /\ h \in History
  BY DEF LogInv, Lineage
<1>2. /\ lastLogTerm(i) \in Nat /\ lastLogIndex(i) \in Nat /\ currentTerm[i] \in Nat
      /\ \A s \in Nat : h.len[s] \in Nat
  BY <1>1, ServerLog, HistoryTypes
<1>3. c <= Len(committed) /\ Known(h, c, T)
  <2>1. CASE c = commitIndex[i]
    <3>1. c <= Len(committed) /\ Known(h, c, currentTerm[i])
      BY <1>1, <2>1 DEF Commits
    <3>2. c <= c /\ currentTerm[i] <= T
      BY <1>2
    <3>3. Known(h, c, T)
      BY <1>1, <1>2, <3>1, <3>2, ExtendsItself, KnownStays
    <3> QED BY <3>1, <3>3
  <2>2. CASE ~(c = commitIndex[i])
    BY <2>2
  <2> QED BY <2>1, <2>2
<1>4. c <= h.len[T] /\ \A k \in 1..c : h.log[T][k] = committed[k]
  <2>1. T <= T
    OBVIOUS
  <2> QED BY <1>1, <1>3, <2>1, KnownIn
<1>5. c = commitIndex[i] =>
        c <= lastLogIndex(i) /\ \A k \in 1..c : h.log[lastLogTerm(i)][k] = committed[k]
  BY <1>1 DEF Commits
<1>6. CASE Keeps(i) /\ x <= lastLogIndex(i) /\ Same(h, lastLogTerm(i), T, x)
  <2>1. CASE c = commitIndex[i]
    BY <1>3, <1>5, <1>6, <2>1 DEF Keeps
  <2>2. CASE ~(c = commitIndex[i])
    <3>1. c <= x
      BY <2>2
    <3>2. c <= lastLogIndex(i) /\ \A k \in 1..c : k \in 0..x
      BY <1>2, <1>6, <3>1
    <3>3. \A k \in 1..c : h.log[lastLogTerm(i)][k] = committed[k]
      BY <1>4, <1>6, <3>2 DEF Same
    <3> QED BY <1>3, <1>6, <3>2, <3>3 DEF Keeps
  <2> QED BY <2>1, <2>2
<1>7. CASE /\ lastLogIndex(i)' = x /\ lastLogTerm(i)' = h.log[T][x].Term
           /\ \E k \in 1..x :
                k > lastLogIndex(i) \/ h.log[lastLogTerm(i)][k] # h.log[T][k]
  <2>1. PICK k \in 1..x : k > lastLogIndex(i) \/ h.log[lastLogTerm(i)][k] # h.log[T][k]
    BY <1>7
  <2>2. c <= x
    <3>1. CASE c = commitIndex[i]
      <4>1. ~(k <= c)
        <5> SUFFICES ASSUME k <= c PROVE FALSE
          OBVIOUS
        <5>1. k \in 1..c /\ ~(k > lastLogIndex(i))
          BY <1>2, <1>5, <3>1
        <5> QED BY <1>4, <1>5, <2>1, <3>1, <5>1
      <4> QED BY <4>1
    <3>2. CASE ~(c = commitIndex[i])
      BY <3>2
    <3> QED BY <3>1, <3>2
  <2>3. x \in 0..h.len[T] /\ \A q \in 1..c : q \in 0..x
    BY <1>2, <2>2
  <2>4. Same(h, h.log[T][x].Term, T, x)
    BY <1>1, <2>3, Origin
  <2>5. \A q \in 1..c : h.log[h.log[T][x].Term][q] = committed[q]
    BY <1>4, <2>3, <2>4 DEF Same
  <2> QED BY <1>3, <1>7, <2>2, <2>5
<1> QED BY <1>6, <1>7 DEF Accepted

\* The answer to an accepted request is true in the new history.
LEMMA ConfirmsSound ==
  ASSUME NEW g, NEW i \in Server, NEW T \in Nat, NEW x \in Nat, x <= g.acked[i][T],
         NEW r, Confirms(r, i, T, x)
  PROVE  Sound(g, r)'
<1>1. CASE r.type = "HeartbeatReply"
  BY <1>1, SoundVoteReply
<1>2. CASE /\ r.type = "AppendEntriesReply" /\ r.Success
           /\ r.from = i /\ r.term = T /\ r.PrevLogIndex + r.Count = x
  BY <1>2 DEF Sound
<1>3. CASE r.type = "InstallSnapshotReply" /\ r.from = i /\ r.term = T /\ r.LastIncludedIndex = x
  BY <1>3 DEF Sound
<1> QED BY <1>1, <1>2, <1>3 DEF Confirms

\* The invariant after an accepted request.
LEMMA AcceptStep ==
  ASSUME TypeOK, TypeOK', ElectionInv, NEW h, LogInv(h), NEW i \in Server,
         NEW T \in Nat, NEW x \in Nat,
         UNCHANGED <<elected, committed, votesCast, matchIndex>>,
         becomeFollower(i, T), T >= currentTerm[i],
         \E j \in Server : <<T, j>> \in elected, x <= h.len[T],
         Accepted(h, i, T, x), Stored(h, i)',
         \A j \in Server \ {i} :
           /\ logs'[j] = logs[j] /\ lastIncludedIndex'[j] = lastIncludedIndex[j]
           /\ lastIncludedTerm'[j] = lastIncludedTerm[j] /\ commitIndex'[j] = commitIndex[j]
           /\ lastApplied'[j] = lastApplied[j] /\ pendingSnapshot'[j] = pendingSnapshot[j],
         lastIncludedIndex'[i] <= commitIndex'[i], lastApplied'[i] <= commitIndex'[i],
         pendingSnapshot'[i] # None => pendingSnapshot'[i].Index <= commitIndex'[i],
         \/ commitIndex'[i] = commitIndex[i]
         \/ /\ commitIndex'[i] <= x /\ commitIndex'[i] <= Len(committed)
            /\ Known(h, commitIndex'[i], T),
         \A r \in rpcs' \ rpcs : Confirms(r, i, T, x)
  PROVE  \E g : LogInv(g)'
<1>1. /\ Lineage(h) /\ Terms /\ Complete(h) /\ Agreed(h) /\ h \in History
      /\ \A j \in Server : Stored(h, j) /\ Role(h, j) /\ Acked(h, j) /\ Commits(h, j)
  BY DEF LogInv, Lineage
<1>2. PICK g : g = Acknowledge(h, i, T, x)
  OBVIOUS
<1>3. /\ Extends(h, g) /\ g \in History /\ g.log = h.log /\ g.len = h.len
      /\ g.acked[i][T] = IF h.acked[i][T] < x THEN x ELSE h.acked[i][T]
      /\ \A t \in Nat : t # T => g.acked[i][t] = h.acked[i][t]
      /\ \A j \in Server : j # i => g.acked[j] = h.acked[j]
  <2>1. h \in History
    BY <1>1
  <2> QED BY <1>2, <2>1, AcknowledgeExtends
<1>4. \A j \in Server :
        /\ currentTerm[j] <= currentTerm'[j]
        /\ state'[j] # Follower => state'[j] = state[j] /\ currentTerm'[j] = currentTerm[j]
  BY StepDownRoles
<1>5. /\ currentTerm'[i] = T /\ state'[i] = Follower /\ currentTerm[i] \in Nat
  <2>1. currentTerm \in [Server -> Nat] /\ state \in [Server -> {Follower, Candidate, Leader}]
    BY DEF TypeOK
  <2>2. /\ currentTerm'[i] = IF T > currentTerm[i] THEN T ELSE currentTerm[i]
        /\ state'[i] = Follower
    BY <2>1 DEF becomeFollower
  <2>3. currentTerm[i] \in Nat
    BY <2>1
  <2> QED BY <2>2, <2>3
<1>6. ASSUME NEW j \in Server, j # i PROVE Stored(g, j)' /\ Keeps(j)
  <2>1. currentTerm[j] <= currentTerm'[j]
    BY <1>4
  <2> QED BY <1>1, <1>3, <1>6, <2>1, StoredStays
<1>7. Advances
  <2>1. Len(committed) \in Nat
    BY <1>1 DEF Agreed
  <2>2. \A j \in Server : state'[j] = Candidate => j # i /\ state[j] = Candidate
    BY <1>4, <1>5 DEF Candidate, Follower
  <2>3. \A j \in Server : j # i =>
          lastLogTerm(j)' = lastLogTerm(j) /\ lastLogIndex(j)' = lastLogIndex(j)
    BY <1>6 DEF Keeps
  <2> QED BY <1>4, <2>1, <2>2, <2>3 DEF Advances
<1>8. Lineage(g)'
  BY <1>1, <1>3 DEF Lineage, Same
<1>9. Agreed(g)'
  BY <1>1, <1>3, AgreedStays
<1>10. Complete(g)'
  <2> SUFFICES ASSUME NEW e \in elected, NEW t \in Nat, NEW n \in 1..g.len[t],
                      t < e[1], Created(g, n, t)
               PROVE  Contains(g, e[1], n, t) \/ Blocked(g, n, t)'
    BY DEF Complete
  <2>1. h.len[t] \in Nat /\ g.len[t] = h.len[t]
    BY <1>1, <1>3, HistoryTypes
  <2>2. n \in Nat /\ n <= h.len[t]
    BY <2>1
  <2> QED BY <1>1, <1>3, <1>7, <2>2, CompleteStays
<1>11. Terms'
  <2>1. \A j \in Server : currentTerm[j] \in Nat /\ currentTerm'[j] \in Nat
    BY DEF TypeOK
  <2>2. ASSUME NEW e \in elected PROVE e[1] >= 1 /\ e[1] <= currentTerm'[e[2]]
    <3>1. e[1] \in Nat /\ e[2] \in Server
      BY DEF TypeOK
    <3>2. e[1] >= 1 /\ e[1] <= currentTerm[e[2]]
      BY <1>1 DEF Terms
    <3> QED BY <1>4, <2>1, <3>1, <3>2
  <2>3. ASSUME NEW v \in votesCast PROVE v[1] <= currentTerm'[v[3]]
    <3>1. v[1] \in Nat /\ v[3] \in Server
      BY DEF TypeOK
    <3>2. v[1] <= currentTerm[v[3]]
      BY <1>1 DEF Terms
    <3> QED BY <1>4, <2>1, <3>1, <3>2
  <2> QED BY <2>2, <2>3 DEF Terms
<1>12. \A v \in votesCast' : Ballot(g, v)'
  BY <1>3, <1>7, BallotStays
<1>13. ASSUME NEW m \in rpcs' PROVE Sound(g, m)'
  <2>1. CASE m \in rpcs
    <3>1. m \in RPC /\ Sound(h, m)
      BY <2>1 DEF TypeOK, LogInv
    <3>2. committed \in Seq(Entry) /\ committed' \in Seq(Entry)
      BY <1>1 DEF Agreed
    <3> QED BY <1>3, <1>7, <3>1, <3>2, SoundStays
  <2>2. CASE m \notin rpcs
    <3>1. x <= g.acked[i][T]
      <4>1. h.acked[i][T] \in Nat
        BY <1>1, HistoryTypes
      <4> QED BY <1>3, <4>1
    <3>2. Confirms(m, i, T, x)
      BY <2>2
    <3> QED BY <3>1, <3>2, ConfirmsSound
  <2> QED BY <2>1, <2>2
<1>14. PICK y : y = g.acked[i][T]
  OBVIOUS
<1>15. /\ lastLogTerm(i)' \in Nat /\ lastLogIndex(i)' \in Nat
       /\ y \in Nat /\ y <= lastLogIndex(i)' /\ y <= h.len[T]
       /\ Same(h, lastLogTerm(i)', T, y)
  BY <1>1, <1>3, <1>14, AcceptedAgrees
<1>16. Acked(g, i)'
  <2> SUFFICES ASSUME NEW t \in Nat
               PROVE  /\ g.acked[i][t] <= g.len[t]
                      /\ g.acked[i][t] > 0 => t <= currentTerm'[i]
                      /\ t = currentTerm'[i] =>
                           /\ g.acked[i][t] <= lastLogIndex(i)'
                           /\ Same(g, lastLogTerm(i)', t, g.acked[i][t])
                      /\ \A n \in 1..g.acked[i][t] :
                           Created(g, n, t) => Holds(g, i, n, t)' \/ Blocked(g, n, t)'
    BY DEF Acked
  <2>1. CASE t = T
    <3>1. ASSUME NEW n \in 1..g.acked[i][t], Created(g, n, t)
          PROVE  Holds(g, i, n, t)'
      <4>1. n \in 0..y /\ n <= lastLogIndex(i)'
        BY <1>14, <1>15, <2>1
      <4>2. h.log[lastLogTerm(i)'][n] = h.log[T][n]
        BY <1>15, <4>1 DEF Same
      <4>3. g.log[T][n].Term = T
        BY <2>1, <3>1 DEF Created
      <4> QED BY <1>3, <2>1, <4>1, <4>2, <4>3 DEF Holds
    <3>2. Same(g, lastLogTerm(i)', t, g.acked[i][t])
      BY <1>3, <1>14, <1>15, <2>1 DEF Same
    <3>3. t <= currentTerm'[i]
      BY <1>5, <2>1
    <3>4. g.acked[i][t] <= g.len[t] /\ g.acked[i][t] <= lastLogIndex(i)'
      BY <1>3, <1>14, <1>15, <2>1
    <3> QED BY <3>1, <3>2, <3>3, <3>4
  <2>2. CASE t # T
    <3>1. g.acked[i][t] = h.acked[i][t] /\ g.len[t] = h.len[t] /\ h.acked[i][t] \in Nat
      BY <1>1, <1>3, <2>2, HistoryTypes
    <3>2. h.acked[i][t] <= h.len[t] /\ (h.acked[i][t] > 0 => t <= currentTerm[i])
      BY <1>1 DEF Acked
    <3>3. h.acked[i][t] > 0 => t < T
      BY <1>5, <2>2, <3>2
    <3>4. ASSUME NEW n \in 1..g.acked[i][t], Created(g, n, t)
          PROVE  Holds(g, i, n, t)' \/ Blocked(g, n, t)'
      <4>1. n \in Nat /\ n \in 1..h.acked[i][t] /\ t < T
        BY <3>1, <3>3
      <4>2. Created(h, n, t)
        BY <1>3, <3>4 DEF Created
      <4>3. Holds(h, i, n, t) \/ Blocked(h, n, t)
        BY <1>1, <4>1, <4>2 DEF Acked
      <4>4. \/ n <= lastLogIndex(i)' /\ h.log[lastLogTerm(i)'][n].Term = t
            \/ Blocked(h, n, t)
        BY <1>1, <4>1, <4>2, <4>3, AcceptedHolds
      <4>5. CASE n <= lastLogIndex(i)' /\ h.log[lastLogTerm(i)'][n].Term = t
        BY <1>3, <4>5 DEF Holds
      <4>6. CASE Blocked(h, n, t)
        BY <1>3, <1>7, <4>6, BlockedStays
      <4> QED BY <4>4, <4>5, <4>6
    <3>5. t # currentTerm'[i] /\ (g.acked[i][t] > 0 => t <= currentTerm'[i])
      BY <1>5, <2>2, <3>1, <3>3
    <3> QED BY <3>1, <3>2, <3>4, <3>5
  <2> QED BY <2>1, <2>2
<1>17. Commits(g, i)'
  <2>1. PICK c \in Nat : c = commitIndex'[i]
    BY DEF TypeOK
  <2>2. /\ c <= lastLogIndex(i)' /\ c <= Len(committed) /\ Known(h, c, T)
        /\ \A k \in 1..c : h.log[lastLogTerm(i)'][k] = committed[k]
    BY <2>1, AcceptedCommits
  <2>3. Known(g, c, T)
    <3>1. c <= c /\ T <= T
      OBVIOUS
    <3> QED BY <1>3, <2>2, <3>1, KnownStays
  <2> QED BY <1>3, <1>5, <2>1, <2>2, <2>3 DEF Commits
<1>18. Stored(g, i)'
  BY <1>3 DEF Stored
<1>19. Role(g, i)'
  BY <1>5 DEF Role, Follower, Candidate, Leader
<1>20. ASSUME NEW j \in Server, j # i
       PROVE  Stored(g, j)' /\ Role(g, j)' /\ Acked(g, j)' /\ Commits(g, j)'
  <2>1. Stored(g, j)' /\ Keeps(j)
    BY <1>6, <1>20
  <2>2. Acked(g, j)'
    BY <1>1, <1>3, <1>7, <1>20, <2>1, AckedStays
  <2>3. Commits(g, j)'
    <3>1. committed' \in Seq(Entry) /\ commitIndex[j] \in Nat
      BY <1>1 DEF Agreed, TypeOK
    <3>2. /\ commitIndex'[j] <= commitIndex[j] /\ lastIncludedIndex'[j] <= commitIndex'[j]
          /\ lastApplied'[j] <= commitIndex'[j]
          /\ pendingSnapshot'[j] # None => pendingSnapshot'[j].Index <= commitIndex'[j]
      BY <1>1, <1>20, <3>1 DEF Commits
    <3> QED BY <1>1, <1>3, <1>7, <2>1, <3>1, <3>2, CommitsStays
  <2>4. Role(g, j)'
    <3>1. CASE state'[j] = Follower
      BY <3>1 DEF Role, Follower, Candidate, Leader
    <3>2. CASE state'[j] # Follower
      <4>1. state'[j] = state[j] /\ currentTerm'[j] = currentTerm[j] /\ currentTerm[j] \in Nat
        BY <1>4, <3>2 DEF TypeOK
      <4>2. ASSUME NEW p \in Server, matchIndex[j][p] <= h.acked[p][currentTerm[j]]
            PROVE  matchIndex'[j][p] <= g.acked[p][currentTerm[j]]
        <5>1. matchIndex[j][p] \in Nat
          BY DEF TypeOK
        <5>2. /\ h.acked[p][currentTerm[j]] \in Nat /\ g.acked[p][currentTerm[j]] \in Nat
              /\ h.acked[p][currentTerm[j]] <= g.acked[p][currentTerm[j]]
          BY <1>1, <1>3, <4>1, HistoryTypes DEF Extends
        <5> QED BY <4>2, <5>1, <5>2
      <4> QED BY <1>1, <1>3, <2>1, <4>1, <4>2 DEF Role, Keeps, Same
    <3> QED BY <3>1, <3>2
  <2> QED BY <2>1, <2>2, <2>3, <2>4
<1>21. \A j \in Server : Stored(g, j)' /\ Role(g, j)' /\ Acked(g, j)' /\ Commits(g, j)'
  BY <1>16, <1>17, <1>18, <1>19, <1>20
<1>22. LogInv(g)'
  BY <1>8, <1>9, <1>10, <1>11, <1>12, <1>13, <1>21 DEF LogInv
<1> QED BY <1>22

\* What AppendEntries makes of the log: nothing changes if every entry is there,
\* and otherwise the log ends with the leader's entries from the first one on
\* that is missing or conflicts.
LEMMA MergedLog ==
  ASSUME PersistentTypes, NEW i \in Server, NEW prev \in Nat,
         containsIndex(i, prev), NEW entries \in Seq(Entry)
  PROVE  \/ /\ mergedLog(i, prev, entries) = logs[i]
            /\ \A j \in 1..Len(entries) :
                 prev + j <= lastLogIndex(i) /\ termAt(i, prev + j) = entries[j].Term
         \/ \E k \in 1..Len(entries) :
              /\ prev + k > lastLogIndex(i) \/ termAt(i, prev + k) # entries[k].Term
              /\ \A j \in 1..(k - 1) :
                   prev + j <= lastLogIndex(i) /\ termAt(i, prev + j) = entries[j].Term
              /\ mergedLog(i, prev, entries) \in Seq(Entry)
              /\ Len(mergedLog(i, prev, entries)) = prev - lastIncludedIndex[i] + 1 + Len(entries)
              /\ \A o \in 1..(prev - lastIncludedIndex[i] + k) :
                   mergedLog(i, prev, entries)[o] = logs[i][o]
              /\ \A j \in k..Len(entries) :
                   mergedLog(i, prev, entries)[prev - lastIncludedIndex[i] + 1 + j] = entries[j]
<1> DEFINE new == {k \in 1..Len(entries) :
                     \/ prev + k > lastLogIndex(i)
                     \/ termAt(i, prev + k) # entries[k].Term}
<1>1. /\ logs[i] \in Seq(Entry) /\ Len(logs[i]) \in Nat /\ Len(logs[i]) >= 1
      /\ lastIncludedIndex[i] \in Nat /\ lastLogIndex(i) \in Nat
  BY LogFacts
<1>2. PICK f \in Nat, z \in Nat, a \in Nat, n \in Nat :
        /\ f = lastIncludedIndex[i] /\ z = lastLogIndex(i) /\ a = Len(logs[i])
        /\ n = Len(entries)
  BY <1>1
<1>3. a >= 1 /\ z = f + a - 1 /\ f <= prev /\ prev <= z
  BY <1>1, <1>2 DEF lastLogIndex, containsIndex
<1>4. ASSUME NEW j \in 1..n, j \notin new
      PROVE  prev + j <= lastLogIndex(i) /\ termAt(i, prev + j) = entries[j].Term
  <2>1. ~(prev + j > lastLogIndex(i)) /\ termAt(i, prev + j) = entries[j].Term
    BY <1>2, <1>4
  <2>2. prev + j <= z
    BY <1>2, <2>1
  <2> QED BY <1>2, <2>1, <2>2
<1>5. CASE new = {}
  <2>1. mergedLog(i, prev, entries) = logs[i]
    BY <1>5 DEF mergedLog
  <2> QED BY <1>2, <1>4, <1>5, <2>1
<1>6. CASE new # {}
  <2>1. IsFiniteSet(new) /\ new \subseteq Int
    BY <1>2, IndexSetFinite
  <2>2. Min(new) \in new /\ \A j \in new : Min(new) <= j
    <3> HIDE DEF new
    <3> QED BY <1>6, <2>1, MinOfFinite
  <2>3. PICK k \in 1..n : k = Min(new)
    BY <1>2, <2>2
  <2>4. prev + k > lastLogIndex(i) \/ termAt(i, prev + k) # entries[k].Term
    BY <2>2, <2>3
  <2>5. ASSUME NEW j \in 1..(k - 1)
        PROVE  prev + j <= lastLogIndex(i) /\ termAt(i, prev + j) = entries[j].Term
    <3>1. j \in 1..n /\ ~(k <= j)
      BY <1>2, <2>3
    <3>2. j \notin new
      BY <2>2, <2>3, <3>1
    <3> QED BY <1>4, <3>1, <3>2
  <2>6. prev + k <= z + 1
    <3>1. CASE k = 1
      BY <1>3, <3>1
    <3>2. CASE k # 1
      <4>1. k - 1 \in 1..(k - 1)
        BY <3>2
      <4>2. prev + (k - 1) <= z
        BY <1>2, <2>5, <4>1
      <4> QED BY <4>2
    <3> QED BY <3>1, <3>2
  <2>7. PICK b \in Nat : b = prev + k - f
    BY <1>3
  <2>8. b >= 1 /\ b <= a
    BY <1>3, <2>6, <2>7
  <2>9. PICK L : L = mergedLog(i, prev, entries)
    OBVIOUS
  <2>10. PICK s, kept, added :
           /\ s \in Seq(Entry) /\ s = logs[i] /\ kept = SubSeq(s, 1, b) /\ added = SubSeq(entries, k, n)
    BY <1>1
  <2>11. L = kept \o added
    <3>1. toOffset(i, prev + k) = b
      BY <1>2, <2>7 DEF toOffset
    <3>2. L = SubSeq(logs[i], 1, toOffset(i, prev + k)) \o SubSeq(entries, k, Len(entries))
      BY <1>6, <2>3, <2>9 DEF mergedLog
    <3> QED BY <1>2, <2>10, <3>1, <3>2
  <2>12. /\ kept \in Seq(Entry) /\ Len(kept) = b
         /\ \A o \in 1..b : kept[o] = s[o]
    <3>1. b <= Len(s) /\ 1 <= b + 1 /\ b - 1 + 1 = b
      BY <1>2, <2>8, <2>10
    <3>2. /\ kept \in Seq(Entry) /\ Len(kept) = b
          /\ \A o \in 1..b : kept[o] = s[1 + o - 1]
      BY <2>10, <3>1, Piece
    <3>3. \A o \in 1..b : 1 + o - 1 = o
      OBVIOUS
    <3> QED BY <3>2, <3>3
  <2>13. /\ added \in Seq(Entry) /\ Len(added) = n - k + 1
         /\ \A o \in 1..(n - k + 1) : added[o] = entries[k + o - 1]
    <3>1. k \in Nat /\ k >= 1 /\ k <= n + 1 /\ n <= Len(entries)
      BY <1>2
    <3> QED BY <2>10, <3>1, Piece
  <2>14. /\ L \in Seq(Entry) /\ Len(L) = b + (n - k + 1)
         /\ \A o \in 1..b : L[o] = kept[o]
         /\ \A o \in 1..(n - k + 1) : L[b + o] = added[o]
    <3>1. /\ L \in Seq(Entry) /\ Len(L) = Len(kept) + Len(added)
          /\ \A o \in 1..Len(kept) : L[o] = kept[o]
          /\ \A o \in 1..Len(added) : L[Len(kept) + o] = added[o]
      <4>1. kept \in Seq(Entry) /\ added \in Seq(Entry)
        BY <2>12, <2>13
      <4> QED BY <2>11, <4>1, Joined
    <3> QED BY <2>12, <2>13, <3>1
  <2>15. Len(L) = prev - f + 1 + n
    BY <2>7, <2>14
  <2>16. \A o \in 1..(prev - f + k) : L[o] = logs[i][o]
    <3>1. prev - f + k = b
      BY <2>7
    <3> QED BY <2>10, <2>12, <2>14, <3>1
  <2>17. ASSUME NEW j \in k..n PROVE L[prev - f + 1 + j] = entries[j]
    <3>1. PICK o \in Nat : o = j - k + 1
      OBVIOUS
    <3>2. o \in 1..(n - k + 1) /\ b + o = prev - f + 1 + j /\ k + o - 1 = j
      BY <2>7, <3>1
    <3> QED BY <2>13, <2>14, <3>2
  <2> QED BY <1>2, <2>3, <2>4, <2>5, <2>9, <2>14, <2>15, <2>16, <2>17
<1> QED BY <1>5, <1>6

\* The log after an accepted AppendEntries.
LEMMA MergedStored ==
  ASSUME TypeOK, TypeOK', NEW h, Lineage(h), NEW i \in Server, Stored(h, i),
         NEW T \in Nat, NEW prev \in Nat, NEW entries \in Seq(Entry),
         containsIndex(i, prev), termAt(i, prev) = h.log[T][prev].Term,
         prev + Len(entries) <= h.len[T],
         \A j \in 1..Len(entries) : entries[j] = h.log[T][prev + j],
         logs'[i] = mergedLog(i, prev, entries),
         lastIncludedIndex'[i] = lastIncludedIndex[i],
         lastIncludedTerm'[i] = lastIncludedTerm[i],
         currentTerm'[i] = T, currentTerm[i] <= T
  PROVE  Stored(h, i)' /\ Accepted(h, i, T, prev + Len(entries))
<1>1. PersistentTypes /\ h \in History
  BY DEF TypeOK, PersistentTypes, Lineage
<1>2. /\ lastLogTerm(i) \in Nat /\ lastLogIndex(i) \in Nat /\ lastIncludedIndex[i] \in Nat
      /\ lastLogIndex(i) <= h.len[lastLogTerm(i)] /\ Len(logs[i]) \in Nat
      /\ \A s \in Nat : h.len[s] \in Nat
  BY <1>1, ServerLog, LogFacts, HistoryTypes
<1>3. PICK f \in Nat, z \in Nat, n \in Nat, x \in Nat, u \in Nat :
        /\ f = lastIncludedIndex[i] /\ z = lastLogIndex(i)
        /\ n = Len(entries) /\ x = prev + n /\ u = lastLogTerm(i)
  BY <1>2
<1>9. x = prev + n
  BY <1>3
<1>4. f <= prev /\ prev <= z /\ x <= h.len[T] /\ z <= h.len[u] /\ prev <= h.len[T]
  <2>1. h.len[T] \in Nat /\ h.len[u] \in Nat
    BY <1>2
  <2> QED BY <1>2, <1>3, <2>1 DEF containsIndex
\* Where the log of i has the leader's term it is the leader's log.
<1>5. ASSUME NEW q \in Nat, f <= q, q <= z, q <= x, termAt(i, q) = h.log[T][q].Term
      PROVE  Same(h, u, T, q)
  <2>1. termAt(i, q) = h.log[u][q].Term
    BY <1>3, <1>5 DEF Stored
  <2>2. q <= h.len[u] /\ q <= h.len[T]
    <3>1. h.len[T] \in Nat /\ h.len[u] \in Nat
      BY <1>2
    <3>2. PICK a \in Nat, b \in Nat : a = h.len[u] /\ b = h.len[T]
      BY <3>1
    <3>3. z <= a /\ x <= b
      BY <1>4, <3>2
    <3>4. q <= a /\ q <= b
      BY <1>5, <3>3
    <3> QED BY <3>2, <3>4
  <2> QED BY <1>5, <2>1, <2>2, SameTerm
<1>6. Same(h, u, T, prev)
  <2>1. prev <= x
    BY <1>3
  <2> QED BY <1>4, <1>5, <2>1
<1>7. CASE /\ logs'[i] = logs[i]
           /\ \A j \in 1..n : prev + j <= lastLogIndex(i) /\ termAt(i, prev + j) = entries[j].Term
  <2>1. Stored(h, i)' /\ Keeps(i)
    BY <1>1, <1>7, ExtendsItself, StoredStays
  <2>2. x <= z /\ Same(h, u, T, x)
    <3>1. CASE n = 0
      <4>1. x = prev
        BY <1>3, <3>1
      <4> QED BY <1>4, <1>6, <4>1
    <3>2. CASE n # 0
      <4>1. n \in 1..n
        BY <3>2
      <4>2. x <= z /\ termAt(i, x) = h.log[T][x].Term
        BY <1>3, <1>7, <4>1
      <4>3. f <= x /\ x <= x
        BY <1>3, <1>4
      <4> QED BY <1>5, <4>2, <4>3
    <3> QED BY <3>1, <3>2
  <2> QED BY <1>3, <2>1, <2>2 DEF Accepted
<1>8. CASE \E k \in 1..n :
              /\ prev + k > lastLogIndex(i) \/ termAt(i, prev + k) # entries[k].Term
              /\ \A j \in 1..(k - 1) :
                   prev + j <= lastLogIndex(i) /\ termAt(i, prev + j) = entries[j].Term
              /\ logs'[i] \in Seq(Entry) /\ Len(logs'[i]) = prev - f + 1 + n
              /\ \A o \in 1..(prev - f + k) : logs'[i][o] = logs[i][o]
              /\ \A j \in k..n : logs'[i][prev - f + 1 + j] = entries[j]
  <2>1. PICK k \in 1..n :
              /\ prev + k > lastLogIndex(i) \/ termAt(i, prev + k) # entries[k].Term
              /\ \A j \in 1..(k - 1) :
                   prev + j <= lastLogIndex(i) /\ termAt(i, prev + j) = entries[j].Term
              /\ logs'[i] \in Seq(Entry) /\ Len(logs'[i]) = prev - f + 1 + n
              /\ \A o \in 1..(prev - f + k) : logs'[i][o] = logs[i][o]
              /\ \A j \in k..n : logs'[i][prev - f + 1 + j] = entries[j]
    BY <1>8
  <2>2. lastLogIndex(i)' = x
    <3>1. lastLogIndex(i)' = f + Len(logs'[i]) - 1
      BY <1>3 DEF lastLogIndex
    <3>2. f + (prev - f + 1 + n) - 1 = x
      BY <1>9
    <3> QED BY <2>1, <3>1, <3>2
  <2>3. PICK v \in Nat : v = h.log[T][x].Term
    BY <1>1, HistoryTypes
  <2>4. /\ v <= T /\ x <= h.len[v] /\ Same(h, v, T, x)
    <3>1. x \in 0..h.len[T]
      BY <1>2, <1>4
    <3> QED BY <2>3, <3>1, Origin
  <2>5. lastLogTerm(i)' = v
    <3>1. n \in k..n /\ n \in 1..n
      OBVIOUS
    <3>2. logs'[i][prev - f + 1 + n] = h.log[T][x]
      BY <1>3, <2>1, <3>1
    <3> QED BY <2>1, <2>3, <3>2 DEF lastLogTerm
  <2>6. \E q \in 1..x : q > lastLogIndex(i) \/ h.log[u][q] # h.log[T][q]
    <3>1. PICK q \in Nat : q = prev + k
      OBVIOUS
    <3>2. q \in 1..x
      BY <1>3, <3>1
    <3>3. entries[k] = h.log[T][q]
      BY <1>3, <3>1
    <3>4. CASE q > z
      BY <1>3, <3>2, <3>4
    <3>5. CASE ~(q > z)
      <4>1. q \in f..z
        BY <1>4, <3>1, <3>5
      <4>2. termAt(i, q) = h.log[u][q].Term
        BY <1>3, <4>1 DEF Stored
      <4>3. termAt(i, q) # h.log[T][q].Term
        BY <1>3, <2>1, <3>1, <3>3, <3>5
      <4> QED BY <3>2, <4>2, <4>3
    <3> QED BY <3>4, <3>5
  <2>7. Accepted(h, i, T, x)
    BY <1>3, <2>2, <2>3, <2>5, <2>6 DEF Accepted
  \* What is kept agrees with the leader.
  <2>8. prev + k - 1 <= z /\ Same(h, u, T, prev + k - 1)
    <3>1. CASE k = 1
      BY <1>4, <1>6, <3>1
    <3>2. CASE k # 1
      <4>1. PICK j \in 1..(k - 1) : j = k - 1
        BY <3>2
      <4>2. PICK q \in Nat : q = prev + j
        BY <4>1
      <4>3. q <= z /\ termAt(i, q) = entries[j].Term /\ entries[j] = h.log[T][q]
        <5>1. j \in 1..n
          BY <4>1
        <5> QED BY <1>3, <2>1, <4>2, <5>1
      <4>4. f <= q /\ q <= x /\ q = prev + k - 1
        BY <1>3, <1>4, <4>1, <4>2
      <4>5. termAt(i, q) = h.log[T][q].Term
        BY <4>3
      <4>6. Same(h, u, T, q)
        BY <1>5, <4>3, <4>4, <4>5
      <4> QED BY <4>3, <4>4, <4>6
    <3> QED BY <3>1, <3>2
  <2>9. ASSUME NEW q \in f..x
        PROVE  /\ termAt(i, q)' = h.log[v][q].Term
               /\ q > f => entryAt(i, q)' = h.log[v][q]
    <3>1. PICK o \in Nat : o = q - f + 1
      OBVIOUS
    <3>2. termAt(i, q)' = logs'[i][o].Term /\ entryAt(i, q)' = logs'[i][o]
      BY <1>3, <3>1 DEF termAt, entryAt, toOffset
    <3>3. termAt(i, q) = logs[i][o].Term /\ entryAt(i, q) = logs[i][o]
      BY <1>3, <3>1 DEF termAt, entryAt, toOffset
    <3>4. h.log[v][q] = h.log[T][q]
      <4>1. q \in 0..x
        OBVIOUS
      <4> QED BY <2>4, <4>1 DEF Same
    <3>5. CASE q <= prev + k - 1
      <4>1. o \in 1..(prev - f + k) /\ q \in 0..(prev + k - 1) /\ q \in f..z
        <5>1. PICK m \in Nat : m = prev + k - 1
          OBVIOUS
        <5>2. m <= z /\ q <= m
          BY <2>8, <3>5, <5>1
        <5>3. f <= q /\ q <= z
          BY <5>2
        <5>4. q \in 0..m /\ q \in f..z
          BY <5>2, <5>3
        <5>5. o >= 1 /\ o <= prev - f + k
          BY <3>1, <3>5, <5>3
        <5> QED BY <5>1, <5>4, <5>5
      <4>2. logs'[i][o] = logs[i][o]
        BY <2>1, <4>1
      <4>3. h.log[u][q] = h.log[T][q]
        BY <2>8, <4>1 DEF Same
      <4>4. /\ termAt(i, q) = h.log[u][q].Term
            /\ q > f => entryAt(i, q) = h.log[u][q]
        BY <1>3, <4>1 DEF Stored
      <4> QED BY <3>2, <3>3, <3>4, <4>2, <4>3, <4>4
    <3>6. CASE ~(q <= prev + k - 1)
      <4>1. PICK j \in Nat : j = q - prev
        BY <3>6
      <4>2. j \in k..n /\ j \in 1..n /\ prev - f + 1 + j = o /\ prev + j = q
        BY <1>9, <3>1, <3>6, <4>1
      <4>3. logs'[i][o] = h.log[T][q]
        BY <1>3, <2>1, <4>2
      <4> QED BY <3>2, <3>4, <4>3
    <3> QED BY <3>5, <3>6
  <2>10. lastIncludedTerm'[i] = termAt(i, lastIncludedIndex[i])'
    <3>1. lastIncludedTerm[i] = termAt(i, lastIncludedIndex[i])
      BY DEF Stored
    <3>2. termAt(i, lastIncludedIndex[i]) = logs[i][f - f + 1].Term
      BY <1>3 DEF termAt, toOffset
    <3>3. termAt(i, lastIncludedIndex[i])' = logs'[i][f - f + 1].Term
      BY <1>3 DEF termAt, toOffset
    <3>4. f - f + 1 \in 1..(prev - f + k)
      BY <1>4
    <3> QED BY <2>1, <3>1, <3>2, <3>3, <3>4
  <2>11. Stored(h, i)'
    BY <1>3, <2>2, <2>4, <2>5, <2>9, <2>10 DEF Stored
  <2> QED BY <1>3, <2>7, <2>11
<1> QED
  <2>1. \/ /\ logs'[i] = logs[i]
           /\ \A j \in 1..n : prev + j <= lastLogIndex(i) /\ termAt(i, prev + j) = entries[j].Term
        \/ \E k \in 1..n :
              /\ prev + k > lastLogIndex(i) \/ termAt(i, prev + k) # entries[k].Term
              /\ \A j \in 1..(k - 1) :
                   prev + j <= lastLogIndex(i) /\ termAt(i, prev + j) = entries[j].Term
              /\ logs'[i] \in Seq(Entry) /\ Len(logs'[i]) = prev - f + 1 + n
              /\ \A o \in 1..(prev - f + k) : logs'[i][o] = logs[i][o]
              /\ \A j \in k..n : logs'[i][prev - f + 1 + j] = entries[j]
    <3> DEFINE M == mergedLog(i, prev, entries)
    <3>1. \/ /\ M = logs[i]
             /\ \A j \in 1..Len(entries) :
                  prev + j <= lastLogIndex(i) /\ termAt(i, prev + j) = entries[j].Term
          \/ \E k \in 1..Len(entries) :
               /\ prev + k > lastLogIndex(i) \/ termAt(i, prev + k) # entries[k].Term
               /\ \A j \in 1..(k - 1) :
                    prev + j <= lastLogIndex(i) /\ termAt(i, prev + j) = entries[j].Term
               /\ M \in Seq(Entry)
               /\ Len(M) = prev - lastIncludedIndex[i] + 1 + Len(entries)
               /\ \A o \in 1..(prev - lastIncludedIndex[i] + k) : M[o] = logs[i][o]
               /\ \A j \in k..Len(entries) :
                    M[prev - lastIncludedIndex[i] + 1 + j] = entries[j]
      BY <1>1, MergedLog
    <3>2. M = logs'[i]
      OBVIOUS
    <3>3. n = Len(entries) /\ f = lastIncludedIndex[i]
      BY <1>3
    <3> HIDE DEF M
    <3> QED BY <3>1, <3>2, <3>3
  <2> QED BY <1>7, <1>8, <2>1

\* An accepted AppendEntries or Heartbeat.
LEMMA LogAppendEntries ==
  ASSUME TypeOK, TypeOK', ElectionInv, NEW h, LogInv(h), NEW m \in rpcs, AppendEntries(m)
  PROVE  \E g : LogInv(g)'
<1>1. m \in AppendEntriesArgs /\ m.type \in {"AppendEntries", "Heartbeat"}
  BY RPCTypes DEF TypeOK, AppendEntries
<1>2. PICK i \in Server : i = m.to
  BY <1>1 DEF AppendEntriesArgs
<1>3. CASE \/ dead[i] \/ m.Term < currentTerm[i]
           \/ ~PrevLogCheck(i, m).Success
  <2>1. Calm(h)
    BY <1>2, <1>3, CalmAppendEntries
  <2> QED BY <2>1, CalmStep
<1>4. CASE ~dead[i] /\ ~(m.Term < currentTerm[i]) /\ PrevLogCheck(i, m).Success
  <2>1. PICK T \in Nat, prev \in Nat, entries \in Seq(Entry), lc \in Nat :
          T = m.Term /\ prev = m.PrevLogIndex /\ entries = m.Entries /\ lc = m.LeaderCommit
    BY <1>1 DEF AppendEntriesArgs
  <2>2. PICK n \in Nat, x \in Nat : n = Len(entries) /\ x = prev + n
    OBVIOUS
  <2>3. currentTerm[i] \in Nat /\ commitIndex[i] \in Nat
    BY DEF TypeOK
  <2>4. T >= currentTerm[i] /\ currentTerm[i] <= T
    BY <1>4, <2>1, <2>3
  <2>5. PICK result : result = PrevLogCheck(i, m)
    OBVIOUS
  <2>6. PICK c : c = Max({commitIndex[i], Min({lc, x})})
    OBVIOUS
  <2>7. /\ becomeFollower(i, T)
        /\ logs' = [logs EXCEPT ![i] = mergedLog(i, prev, entries)]
        /\ commitIndex' = [commitIndex EXCEPT ![i] = c]
        /\ UNCHANGED <<lastIncludedIndex, lastIncludedTerm>>
        /\ Answer(m, AppendReply(m, T, result, FALSE))
    <3>1. ~(dead[i] \/ m.Term < currentTerm[i]) /\ result.Success
      BY <1>4, <2>5
    <3> QED BY <1>2, <2>1, <2>2, <2>5, <2>6, <3>1 DEF AppendEntries, followerCommit
  <2>8. UNCHANGED <<lastApplied, matchIndex, pendingSnapshot, votesCast, elected, committed>>
    BY DEF AppendEntries, leadership
  <2>9. /\ Lineage(h) /\ h \in History /\ Stored(h, i) /\ Commits(h, i) /\ Sound(h, m)
    BY DEF LogInv, Lineage
  <2>10. /\ \E j \in Server : <<T, j>> \in elected
         /\ x <= h.len[T] /\ m.PrevLogTerm = h.log[T][prev].Term
         /\ \A k \in 1..n : entries[k] = h.log[T][prev + k]
         /\ lc <= Len(committed) /\ Known(h, lc, T)
    BY <1>1, <2>1, <2>2, <2>9 DEF Sound
  <2>11. containsIndex(i, prev) /\ termAt(i, prev) = h.log[T][prev].Term
    <3>1. PersistentTypes
      BY DEF TypeOK, PersistentTypes
    <3>2. containsIndex(i, prev)
      BY <1>4, <2>1, <3>1, PrevLogCheckType
    <3>3. termAt(i, prev) = m.PrevLogTerm
      BY <1>4, <2>1 DEF PrevLogCheck
    <3> QED BY <2>10, <3>2, <3>3
  <2>12. /\ logs'[i] = mergedLog(i, prev, entries) /\ commitIndex'[i] = c
         /\ \A j \in Server \ {i} : logs'[j] = logs[j] /\ commitIndex'[j] = commitIndex[j]
    BY <2>7 DEF TypeOK
  <2>13. currentTerm'[i] = T
    <3>1. currentTerm'[i] = IF T > currentTerm[i] THEN T ELSE currentTerm[i]
      BY <2>7 DEF becomeFollower, TypeOK
    <3> QED BY <2>3, <2>4, <3>1
  <2>14. Stored(h, i)' /\ Accepted(h, i, T, x)
    BY <2>2, <2>4, <2>7, <2>9, <2>10, <2>11, <2>12, <2>13, MergedStored
  <2>15. /\ c \in Nat /\ commitIndex[i] <= c
         /\ \/ c = commitIndex[i]
            \/ c <= x /\ c <= lc
    <3>1. PICK d \in Nat : d = Min({lc, x}) /\ d <= lc /\ d <= x
      <4>1. lc \in Int /\ x \in Int
        OBVIOUS
      <4>2. \A y \in {lc, x} : Min({lc, x}) <= y
        <5>1. {lc, x} \subseteq Int /\ {lc, x} # {}
          OBVIOUS
        <5>2. IsFiniteSet({lc, x})
          <6>1. {lc, x} \subseteq 0..(lc + x) /\ lc + x \in Int /\ 0 \in Int
            OBVIOUS
          <6> QED BY <6>1, IndexSetFinite
        <5> QED BY <5>1, <5>2, MinOfFinite
      <4>3. Min({lc, x}) \in {lc, x}
        BY <4>1, MinOfTwo
      <4> QED BY <4>2, <4>3
    <3>2. commitIndex[i] \in Int /\ d \in Int
      BY <2>3
    <3>3. c \in {commitIndex[i], d} /\ c >= commitIndex[i]
      BY <2>6, <3>1, <3>2, MaxOfTwo
    <3> QED BY <2>3, <3>1, <3>3
  <2>16. \/ c = commitIndex[i]
         \/ c <= x /\ c <= Len(committed) /\ Known(h, c, T)
    <3>1. CASE c <= x /\ c <= lc
      <4>1. c <= Len(committed)
        <5>1. Len(committed) \in Nat
          BY DEF LogInv, Agreed
        <5> QED BY <2>10, <2>15, <3>1, <5>1
      <4>2. Known(h, c, T)
        <5>1. T <= T
          OBVIOUS
        <5> QED BY <2>9, <2>10, <2>15, <3>1, <5>1, ExtendsItself, KnownStays
      <4> QED BY <3>1, <4>1, <4>2
    <3> QED BY <2>15, <3>1
  <2>17. /\ lastIncludedIndex'[i] <= c /\ lastApplied'[i] <= c
         /\ pendingSnapshot'[i] # None => pendingSnapshot'[i].Index <= c
    <3>1. /\ lastIncludedIndex[i] <= commitIndex[i] /\ lastApplied[i] <= commitIndex[i]
          /\ pendingSnapshot[i] # None => pendingSnapshot[i].Index <= commitIndex[i]
      BY <2>9 DEF Commits
    <3>2. /\ lastIncludedIndex[i] \in Nat /\ lastApplied[i] \in Nat
          /\ pendingSnapshot[i] # None => pendingSnapshot[i].Index \in Nat
      BY DEF TypeOK
    <3>3. /\ lastIncludedIndex[i] <= c /\ lastApplied[i] <= c
          /\ pendingSnapshot[i] # None => pendingSnapshot[i].Index <= c
      BY <2>3, <2>15, <3>1, <3>2
    <3> QED BY <2>7, <2>8, <3>3
  <2>18. \A r \in rpcs' \ rpcs : Confirms(r, i, T, x)
    <3>1. PICK r : r = AppendReply(m, T, result, FALSE)
      OBVIOUS
    <3>2. CASE m.type = "Heartbeat"
      <4>1. r.type = "HeartbeatReply"
        BY <3>1, <3>2 DEF AppendReply
      <4> QED BY <2>7, <3>1, <4>1, AnswerAdds DEF Confirms
    <3>3. CASE m.type # "Heartbeat"
      <4>0. result.Success
        BY <1>4, <2>5
      <4>1. /\ r.type = "AppendEntriesReply" /\ r.from = i /\ r.term = T
            /\ r.PrevLogIndex = prev /\ r.Count = n /\ r.Success
        BY <1>2, <2>1, <2>2, <3>1, <3>3, <4>0 DEF AppendReply
      <4>2. r.PrevLogIndex + r.Count = x
        BY <2>2, <4>1
      <4> QED BY <2>7, <3>1, <4>1, <4>2, AnswerAdds DEF Confirms
    <3> QED BY <3>2, <3>3
  <2> QED BY <2>4, <2>7, <2>8, <2>10, <2>12, <2>14, <2>16, <2>17, <2>18, AcceptStep
<1> QED BY <1>3, <1>4

\* An accepted InstallSnapshot: the leader's snapshot is of committed entries,
\* so what the server already committed agrees with it.
LEMMA SnapshotAccepted ==
  ASSUME TypeOK, TypeOK', NEW h, LogInv(h), NEW i \in Server,
         NEW T \in Nat, NEW x \in Nat, \E j \in Server : <<T, j>> \in elected,
         x <= h.len[T], x <= Len(committed), Known(h, x, T),
         currentTerm'[i] = T, currentTerm[i] <= T,
         \/ /\ x > commitIndex[i]
            /\ logs'[i] = compactedLog(i, x, h.log[T][x].Term)
            /\ lastIncludedIndex'[i] = x /\ lastIncludedTerm'[i] = h.log[T][x].Term
         \/ /\ ~(x > commitIndex[i])
            /\ logs'[i] = logs[i] /\ lastIncludedIndex'[i] = lastIncludedIndex[i]
            /\ lastIncludedTerm'[i] = lastIncludedTerm[i]
  PROVE  Stored(h, i)' /\ Accepted(h, i, T, x)
<1>1. /\ Lineage(h) /\ Complete(h) /\ Agreed(h) /\ h \in History
      /\ Stored(h, i) /\ Commits(h, i) /\ PersistentTypes
  BY DEF LogInv, Lineage, TypeOK, PersistentTypes
<1>2. /\ lastLogTerm(i) \in Nat /\ lastLogIndex(i) \in Nat /\ lastIncludedIndex[i] \in Nat
      /\ lastLogIndex(i) <= h.len[lastLogTerm(i)]
      /\ \A s \in Nat : h.len[s] \in Nat
  BY <1>1, ServerLog, HistoryTypes
<1>3. commitIndex[i] \in Nat
  BY DEF TypeOK
<1>4. /\ lastIncludedIndex[i] <= commitIndex[i] /\ commitIndex[i] <= lastLogIndex(i)
      /\ \A k \in 1..commitIndex[i] : h.log[lastLogTerm(i)][k] = committed[k]
  BY <1>1 DEF Commits
<1>5. PICK u \in Nat, z \in Nat : u = lastLogTerm(i) /\ z = lastLogIndex(i)
  BY <1>2
<1>6. PICK term \in Nat : term = h.log[T][x].Term
  BY <1>1, HistoryTypes
<1>7. CASE ~(x > commitIndex[i])
  <2>1. Stored(h, i)' /\ Keeps(i)
    BY <1>1, <1>7, ExtendsItself, StoredStays
  <2>2. \A k \in 1..x : h.log[T][k] = committed[k]
    <3>1. T <= T
      OBVIOUS
    <3>2. Lineage(h) /\ Complete(h) /\ Agreed(h)
      BY <1>1
    <3> QED BY <3>1, <3>2, KnownIn
  <2>3. ASSUME NEW k \in 0..x PROVE h.log[u][k] = h.log[T][k]
    <3>1. CASE k = 0
      BY <1>1, <3>1 DEF Lineage
    <3>2. CASE k # 0
      <4>1. k \in 1..x /\ k \in 1..commitIndex[i]
        BY <1>3, <1>7, <3>2
      <4> QED BY <1>4, <1>5, <2>2, <4>1
    <3> QED BY <3>1, <3>2
  <2>4. x <= z
    BY <1>3, <1>4, <1>5, <1>7
  <2>5. Same(h, u, T, x)
    BY <2>3 DEF Same
  <2> QED BY <1>5, <2>1, <2>4, <2>5 DEF Accepted
<1>8. CASE x > commitIndex[i] /\ containsIndex(i, x) /\ termAt(i, x) = term
  <2>1. /\ logs'[i] = compactedLog(i, x, termAt(i, x))
        /\ lastIncludedIndex'[i] = x /\ lastIncludedTerm'[i] = termAt(i, x)
    BY <1>6, <1>8
  <2>2. Stored(h, i)' /\ Keeps(i)
    BY <1>1, <1>8, <2>1, StoredCompacted
  <2>3. x \in lastIncludedIndex[i]..lastLogIndex(i) /\ x <= z /\ x <= h.len[u]
    <3>1. h.len[u] \in Nat /\ z <= h.len[u]
      BY <1>2, <1>5
    <3> QED BY <1>2, <1>5, <1>8, <3>1 DEF containsIndex
  <2>4. termAt(i, x) = h.log[u][x].Term
    BY <1>1, <1>5, <2>3 DEF Stored
  <2>5. Same(h, u, T, x)
    BY <1>1, <1>6, <1>8, <2>3, <2>4, SameTerm
  <2> QED BY <1>5, <2>2, <2>3, <2>5 DEF Accepted
<1>9. CASE x > commitIndex[i] /\ ~(containsIndex(i, x) /\ termAt(i, x) = term)
  <2>1. /\ logs'[i] = <<[Term |-> term, Command |-> None]>>
        /\ lastIncludedIndex'[i] = x /\ lastIncludedTerm'[i] = term
    <3>1. PICK D : D = <<[Term |-> term, Command |-> None]>>
      OBVIOUS
    <3>2. logs'[i] = D \o <<>>
      BY <1>6, <1>9, <3>1 DEF compactedLog
    <3>3. D \in Seq(Entry)
      BY <3>1 DEF Entry
    <3>4. D \o <<>> = D
      BY <3>3, ConcatEmptySeq
    <3> QED BY <1>6, <1>9, <3>1, <3>2, <3>4
  <2>2. lastLogIndex(i)' = x /\ lastLogTerm(i)' = term
    <3>1. Len(logs'[i]) = 1 /\ logs'[i][1].Term = term
      BY <2>1
    <3>2. x + 1 - 1 = x
      OBVIOUS
    <3> QED BY <2>1, <3>1, <3>2 DEF lastLogIndex, lastLogTerm
  <2>3. /\ term <= T /\ x <= h.len[term] /\ h.log[term][x].Term = term
    <3>1. x \in 0..h.len[T]
      BY <1>2
    <3> QED BY <1>1, <1>6, <3>1, Origin
  <2>4. \A k : k = x => termAt(i, k)' = term
    <3>1. x - x + 1 = 1
      OBVIOUS
    <3>2. logs'[i][1].Term = term
      BY <2>1
    <3> QED BY <2>1, <3>1, <3>2 DEF termAt, toOffset
  <2>5. \A k \in x..x : k = x /\ ~(k > x)
    OBVIOUS
  <2>6. lastIncludedTerm'[i] = termAt(i, lastIncludedIndex[i])'
    <3>1. x - x + 1 = 1
      OBVIOUS
    <3>2. logs'[i][1].Term = term
      BY <2>1
    <3> QED BY <2>1, <3>1, <3>2 DEF termAt, toOffset
  <2>7. Stored(h, i)'
    BY <2>1, <2>2, <2>3, <2>4, <2>5, <2>6 DEF Stored
  <2>8. \E k \in 1..x : k > lastLogIndex(i) \/ h.log[lastLogTerm(i)][k] # h.log[T][k]
    <3>1. x \in 1..x
      BY <1>3, <1>9
    <3>2. CASE x > z
      BY <1>5, <3>1, <3>2
    <3>3. CASE ~(x > z)
      <4>1. containsIndex(i, x) /\ x \in lastIncludedIndex[i]..lastLogIndex(i)
        BY <1>2, <1>3, <1>4, <1>5, <1>9, <3>3 DEF containsIndex
      <4>2. termAt(i, x) = h.log[u][x].Term
        BY <1>1, <1>5, <4>1 DEF Stored
      <4>3. h.log[u][x] # h.log[T][x]
        BY <1>6, <1>9, <4>1, <4>2
      <4> QED BY <1>5, <3>1, <4>3
    <3> QED BY <3>2, <3>3
  <2> QED BY <1>6, <2>2, <2>7, <2>8 DEF Accepted
<1> QED BY <1>7, <1>8, <1>9

\* The invariant after InstallSnapshot.
LEMMA LogInstallSnapshot ==
  ASSUME TypeOK, TypeOK', ElectionInv, NEW h, LogInv(h), NEW m \in rpcs, InstallSnapshot(m)
  PROVE  \E g : LogInv(g)'
<1>1. m \in InstallSnapshotArgs /\ m.type = "InstallSnapshot"
  BY RPCTypes DEF TypeOK, InstallSnapshot
<1>2. PICK i \in Server : i = m.to
  BY <1>1 DEF InstallSnapshotArgs
<1>3. CASE dead[i] \/ m.Term < currentTerm[i]
  <2>1. Calm(h)
    BY <1>2, <1>3, CalmInstallSnapshot
  <2> QED BY <2>1, CalmStep
<1>4. CASE ~dead[i] /\ ~(m.Term < currentTerm[i])
  <2>1. PICK T \in Nat, x \in Nat, term \in Nat :
          T = m.Term /\ x = m.LastIncludedIndex /\ term = m.LastIncludedTerm
    BY <1>1 DEF InstallSnapshotArgs
  <2>2. currentTerm[i] \in Nat /\ commitIndex[i] \in Nat
    BY DEF TypeOK
  <2>3. T >= currentTerm[i] /\ currentTerm[i] <= T
    BY <1>4, <2>1, <2>2
  <2>4. UNCHANGED <<matchIndex, votesCast, elected, committed>>
    BY DEF InstallSnapshot, leadership
  <2>5. /\ becomeFollower(i, T)
        /\ IF x > commitIndex[i]
           THEN /\ logs' = [logs EXCEPT ![i] = compactedLog(i, x, term)]
                /\ lastIncludedIndex' = [lastIncludedIndex EXCEPT ![i] = x]
                /\ lastIncludedTerm' = [lastIncludedTerm EXCEPT ![i] = term]
                /\ commitIndex' = [commitIndex EXCEPT ![i] = x]
                /\ lastApplied' = [lastApplied EXCEPT ![i] = x]
                /\ pendingSnapshot' = [pendingSnapshot EXCEPT ![i] =
                                         [Index |-> x, Data |-> m.Data]]
           ELSE UNCHANGED <<logs, lastIncludedIndex, lastIncludedTerm,
                            commitIndex, lastApplied, pendingSnapshot>>
        /\ Answer(m, SnapshotReply(m, T, FALSE))
    BY <1>2, <1>4, <2>1 DEF InstallSnapshot, isNewer
  <2>6. /\ Lineage(h) /\ h \in History /\ Stored(h, i) /\ Commits(h, i) /\ Sound(h, m)
    BY DEF LogInv, Lineage
  <2>7. /\ \E j \in Server : <<T, j>> \in elected
        /\ x <= h.len[T] /\ term = h.log[T][x].Term
        /\ x <= Len(committed) /\ Known(h, x, T)
    BY <1>1, <2>1, <2>6 DEF Sound
  <2>8. currentTerm'[i] = T
    <3>1. currentTerm'[i] = IF T > currentTerm[i] THEN T ELSE currentTerm[i]
      BY <2>5 DEF becomeFollower, TypeOK
    <3> QED BY <2>2, <2>3, <3>1
  <2>9. \A r \in rpcs' \ rpcs : Confirms(r, i, T, x)
    <3>1. PICK r : r = SnapshotReply(m, T, FALSE)
      OBVIOUS
    <3>2. r.type = "InstallSnapshotReply" /\ r.from = i /\ r.term = T /\ r.LastIncludedIndex = x
      BY <1>2, <2>1, <3>1 DEF SnapshotReply
    <3> QED BY <2>5, <3>1, <3>2, AnswerAdds DEF Confirms
  <2>10. CASE x > commitIndex[i]
    <3>1. /\ logs'[i] = compactedLog(i, x, term) /\ lastIncludedIndex'[i] = x
          /\ lastIncludedTerm'[i] = term /\ commitIndex'[i] = x /\ lastApplied'[i] = x
          /\ pendingSnapshot'[i] = [Index |-> x, Data |-> m.Data]
          /\ \A j \in Server \ {i} :
               /\ logs'[j] = logs[j] /\ lastIncludedIndex'[j] = lastIncludedIndex[j]
               /\ lastIncludedTerm'[j] = lastIncludedTerm[j] /\ commitIndex'[j] = commitIndex[j]
               /\ lastApplied'[j] = lastApplied[j] /\ pendingSnapshot'[j] = pendingSnapshot[j]
      BY <2>5, <2>10 DEF TypeOK
    <3>2. Stored(h, i)' /\ Accepted(h, i, T, x)
      BY <2>3, <2>7, <2>8, <2>10, <3>1, SnapshotAccepted
    <3>3. x <= x /\ pendingSnapshot'[i].Index = x
      BY <3>1
    <3> QED BY <2>3, <2>4, <2>5, <2>7, <2>9, <3>1, <3>2, <3>3, AcceptStep
  <2>11. CASE ~(x > commitIndex[i])
    <3>1. UNCHANGED <<logs, lastIncludedIndex, lastIncludedTerm, commitIndex,
                      lastApplied, pendingSnapshot>>
      BY <2>5, <2>11
    <3>2. Stored(h, i)' /\ Accepted(h, i, T, x)
      BY <2>3, <2>7, <2>8, <2>11, <3>1, SnapshotAccepted
    <3>3. /\ lastIncludedIndex'[i] <= commitIndex'[i] /\ lastApplied'[i] <= commitIndex'[i]
          /\ pendingSnapshot'[i] # None => pendingSnapshot'[i].Index <= commitIndex'[i]
      BY <2>6, <3>1 DEF Commits
    <3> QED BY <2>3, <2>4, <2>5, <2>7, <2>9, <3>1, <3>2, <3>3, AcceptStep
  <2> QED BY <2>10, <2>11
<1> QED BY <1>3, <1>4

(***************************************************************************)
(* A leader commits.                                                       *)
(***************************************************************************)
\* What was committed stays so in a longer history.
LEMMA AgreedExtends ==
  ASSUME NEW h, NEW g, Extends(h, g), Agreed(h)
  PROVE  Agreed(g)
<1> SUFFICES ASSUME Len(committed) > 0
             PROVE  \E t \in Nat, n \in Nat :
                      /\ Chosen(g, n, t) /\ Len(committed) <= n
                      /\ \A k \in 1..Len(committed) : committed[k] = g.log[t][k]
  BY DEF Agreed
<1>1. PICK t \in Nat, n \in Nat :
        /\ Chosen(h, n, t) /\ Len(committed) <= n
        /\ \A k \in 1..Len(committed) : committed[k] = h.log[t][k]
  BY DEF Agreed
<1>2. Chosen(g, n, t)
  BY <1>1, ChosenStays
<1>3. Len(committed) \in Nat /\ h.len[t] \in Nat /\ n <= h.len[t]
  <2>1. Len(committed) \in Nat
    BY DEF Agreed
  <2>2. h.len[t] \in Nat
    BY HistoryTypes DEF Extends
  <2>3. n <= h.len[t]
    BY <1>1, <2>2 DEF Chosen, Created
  <2> QED BY <2>1, <2>2, <2>3
<1>4. \A k \in 1..Len(committed) : k \in 0..h.len[t]
  BY <1>1, <1>3
<1>5. \A k \in 1..Len(committed) : committed[k] = g.log[t][k]
  BY <1>1, <1>4 DEF Extends
<1> QED BY <1>1, <1>2, <1>5

\* Log L of server i is the log of leader t from its snapshot on.
Carries(g, i, t, L) ==
    /\ L \in Seq(Entry) /\ Len(L) = g.len[t] - lastIncludedIndex[i] + 1
    /\ \A k \in (lastIncludedIndex[i] + 1)..g.len[t] :
         L[k - lastIncludedIndex[i] + 1] = g.log[t][k]

\* The match indices of leader t were all acknowledged.
Backed(g, t, match) ==
    match \in [Server -> Nat] /\ \A p \in Server : match[p] <= g.acked[p][t]

\* The index advanceCommitIndex finds is the old one, or that of an entry of the
\* leader's own term that a majority acknowledged.
LEMMA AdvanceChosen ==
  ASSUME TypeOK, NEW g \in History, NEW i \in Server, NEW t \in Nat, t = currentTerm[i],
         lastIncludedIndex[i] <= commitIndex[i],
         NEW L, Carries(g, i, t, L), NEW match, Backed(g, t, match),
         NEW c, c = advanceCommitIndex(i, L, match)
  PROVE  \/ c = commitIndex[i]
         \/ c \in Nat /\ c > commitIndex[i] /\ Chosen(g, c, t)
<1>1. /\ lastIncludedIndex[i] \in Nat /\ commitIndex[i] \in Nat /\ g.len[t] \in Nat
      /\ Len(L) \in Nat
  BY HistoryTypes DEF TypeOK, Carries
<1>2. PICK f \in Nat, d \in Nat, z \in Nat :
        f = lastIncludedIndex[i] /\ d = commitIndex[i] /\ z = g.len[t]
  BY <1>1
<1>3. f <= d /\ Len(L) = z - f + 1
  BY <1>2 DEF Carries
<1>4. PICK base \in Int : base = f - 1
  OBVIOUS
<1> DEFINE S == {n \in (d + 1)..(base + Len(L)) :
                   /\ n > base
                   /\ L[n - base].Term = currentTerm[i]
                   /\ IsMajority(Cardinality({p \in Server : match[p] >= n}))}
<1>5. c = IF S = {} THEN commitIndex[i] ELSE Max(S)
  BY <1>2, <1>4 DEF advanceCommitIndex
<1>6. S \subseteq (d + 1)..z
  BY <1>3, <1>4
<1>7. CASE S # {}
  <2>1. Max(S) \in S
    <3> HIDE DEF S
    <3>1. IsFiniteSet(S) /\ S \subseteq Int
      <4>1. d + 1 \in Int /\ z \in Int
        OBVIOUS
      <4> QED BY <1>6, <4>1, IndexSetFinite
    <3> QED BY <1>7, <3>1, MaxOfFinite
  <2>2. c \in S
    BY <1>5, <1>7, <2>1
  <2>3. PICK n \in Nat : n = c
    BY <1>6, <2>2
  <2>4. n \in (d + 1)..z /\ n \in (f + 1)..z /\ n \in 1..z
    <3>1. n \in (d + 1)..z
      <4> HIDE DEF S
      <4> QED BY <1>6, <2>2, <2>3
    <3> HIDE DEF S
    <3> QED BY <1>3, <3>1
  <2>5. L[n - f + 1].Term = t
    <3>1. n - base = n - f + 1
      BY <1>4
    <3> QED BY <2>2, <2>3, <3>1
  <2>6. g.log[t][n].Term = t
    BY <1>2, <2>4, <2>5 DEF Carries
  <2>7. Created(g, n, t)
    BY <1>2, <2>4, <2>6 DEF Created
  <2>8. PICK Q : Q = {p \in Server : match[p] >= n}
    OBVIOUS
  <2>9. Q \in Majorities
    BY <2>2, <2>3, <2>8 DEF Majorities
  <2>10. ASSUME NEW q \in Q PROVE g.acked[q][t] >= n
    <3>1. q \in Server /\ match[q] >= n /\ match[q] \in Nat /\ match[q] <= g.acked[q][t]
      BY <2>8 DEF Backed
    <3>2. g.acked[q][t] \in Nat
      BY <3>1, HistoryTypes
    <3> QED BY <3>1, <3>2
  <2>11. Chosen(g, n, t)
    BY <2>7, <2>9, <2>10 DEF Chosen
  <2>12. n > d
    BY <2>4
  <2> QED BY <1>2, <2>3, <2>11, <2>12
<1> QED BY <1>5, <1>7

\* What the leader commits is recorded, and agrees with what was committed.
LEMMA CommitStep ==
  ASSUME TypeOK, NEW g, Lineage(g), Complete(g), Agreed(g),
         NEW i \in Server, NEW t \in Nat, t = currentTerm[i],
         lastIncludedIndex[i] <= commitIndex[i], commitIndex[i] <= Len(committed),
         commitIndex[i] <= g.len[t],
         Known(g, commitIndex[i], t),
         \A k \in 1..commitIndex[i] : g.log[t][k] = committed[k],
         NEW L, Carries(g, i, t, L), NEW match, Backed(g, t, match),
         NEW c, c = commitIndex[i] \/ c = advanceCommitIndex(i, L, match),
         RecordCommit(i, L, c)
  PROVE  /\ c \in Nat /\ c >= commitIndex[i] /\ c <= g.len[t] /\ c <= Len(committed')
         /\ Known(g, c, t)
         /\ \A k \in 1..c : g.log[t][k] = committed'[k]
         /\ Len(committed) <= Len(committed')
         /\ \A k \in 1..Len(committed) : committed'[k] = committed[k]
         /\ Agreed(g)'
<1>1. /\ lastIncludedIndex[i] \in Nat /\ commitIndex[i] \in Nat /\ g.len[t] \in Nat
      /\ Len(L) \in Nat /\ g \in History /\ committed \in Seq(Entry) /\ Len(committed) \in Nat
  BY HistoryTypes DEF TypeOK, Lineage, Agreed, Carries
<1>2. PICK f \in Nat, d \in Nat, z \in Nat, C \in Nat :
        f = lastIncludedIndex[i] /\ d = commitIndex[i] /\ z = g.len[t] /\ C = Len(committed)
  BY <1>1
<1>3. f <= d /\ d <= C /\ d <= z /\ Len(L) = z - f + 1
  BY <1>2 DEF Carries
<1>4. ASSUME NEW k \in (f + 1)..z PROVE L[k - f + 1] = g.log[t][k]
  BY <1>2 DEF Carries
<1>5. \/ c = d
      \/ c \in Nat /\ c > d /\ Chosen(g, c, t)
  <2>1. CASE c = commitIndex[i]
    BY <1>2, <2>1
  <2>2. CASE c = advanceCommitIndex(i, L, match)
    <3>1. \/ c = commitIndex[i]
          \/ c \in Nat /\ c > commitIndex[i] /\ Chosen(g, c, t)
      BY <1>1, <2>2, AdvanceChosen
    <3> QED BY <1>2, <3>1
  <2> QED BY <2>1, <2>2
<1>6. CASE c = d
  <2>1. committed' = committed
    BY <1>2, <1>3, <1>6 DEF RecordCommit
  <2>2. Agreed(g)'
    BY <2>1 DEF Agreed
  <2>3. d >= d /\ C <= C
    OBVIOUS
  <2> QED BY <1>2, <1>3, <1>6, <2>1, <2>2, <2>3
<1>7. CASE c \in Nat /\ c > d /\ Chosen(g, c, t)
  <2>1. c \in 1..z /\ c <= z /\ c >= d
    BY <1>2, <1>7 DEF Chosen, Created
  <2>2. Known(g, c, t)
    <3>1. t \in 0..t /\ c <= c
      BY <2>1
    <3> QED BY <1>7, <3>1 DEF Known
  \* The leader has everything that was committed before, up to c.
  <2>3. ASSUME NEW k \in 1..C, k <= c PROVE committed[k] = g.log[t][k]
    <3>1. PICK u \in Nat, n \in Nat :
            /\ Chosen(g, n, u) /\ Len(committed) <= n
            /\ \A j \in 1..Len(committed) : committed[j] = g.log[u][j]
      BY <1>2 DEF Agreed
    <3>2. k \in Nat /\ k <= n /\ k \in 1..Len(committed)
      BY <1>2, <3>1
    <3>3. Chosen(g, n, u) /\ Chosen(g, c, t) /\ c \in Nat /\ k <= c
      BY <1>7, <2>3, <3>1
    <3>4. g.log[u][k] = g.log[t][k]
      BY <3>2, <3>3, ChosenAgree
    <3> QED BY <3>1, <3>2, <3>4
  <2>4. CASE c <= C
    <3>1. committed' = committed
      BY <1>2, <2>4 DEF RecordCommit
    <3>2. Agreed(g)'
      BY <3>1 DEF Agreed
    <3>3. ASSUME NEW k \in 1..c PROVE g.log[t][k] = committed'[k]
      <4>1. k \in 1..C /\ k <= c
        BY <2>1, <2>4
      <4> QED BY <2>3, <3>1, <4>1
    <3>4. C <= C
      OBVIOUS
    <3> QED BY <1>2, <1>7, <2>1, <2>2, <2>4, <3>1, <3>2, <3>3, <3>4
  <2>5. CASE ~(c <= C)
    <3>1. PICK a \in Nat, b \in Nat : a = C + 2 - f /\ b = c + 1 - f
      <4>1. f <= C /\ c \in Nat /\ f <= c
        BY <1>3, <2>1
      <4>2. C + 2 - f \in Nat /\ c + 1 - f \in Nat
        BY <4>1
      <4> QED BY <4>2
    <3>2. a >= 1 /\ a <= b + 1 /\ b <= Len(L) /\ b - a + 1 = c - C
      BY <1>3, <1>7, <2>1, <2>5, <3>1
    <3>3. PICK s, P : s \in Seq(Entry) /\ s = committed /\ P = SubSeq(L, a, b)
      BY <1>1
    <3>4. committed' = s \o P
      BY <1>2, <2>5, <3>1, <3>3 DEF RecordCommit
    <3>5. /\ P \in Seq(Entry) /\ Len(P) = c - C
          /\ \A k \in 1..(c - C) : P[k] = L[a + k - 1]
      BY <3>2, <3>3, Piece DEF Carries
    <3>6. /\ committed' \in Seq(Entry) /\ Len(committed') = C + (c - C)
          /\ \A k \in 1..C : committed'[k] = s[k]
          /\ \A k \in 1..(c - C) : committed'[C + k] = P[k]
      <4>1. /\ s \o P \in Seq(Entry) /\ Len(s \o P) = Len(s) + Len(P)
            /\ \A k \in 1..Len(s) : (s \o P)[k] = s[k]
            /\ \A k \in 1..Len(P) : (s \o P)[Len(s) + k] = P[k]
        BY <3>3, <3>5, Joined
      <4>2. Len(s) = C
        BY <1>2, <3>3
      <4> QED BY <3>4, <3>5, <4>1, <4>2
    <3>7. Len(committed') = c /\ C <= c
      BY <1>7, <2>5, <3>6
    <3>8. ASSUME NEW k \in 1..c PROVE g.log[t][k] = committed'[k]
      <4>1. CASE k <= C
        <5>1. k \in 1..C /\ k <= c
          BY <1>7, <4>1
        <5> QED BY <2>3, <3>3, <3>6, <5>1
      <4>2. CASE ~(k <= C)
        <5>1. PICK j \in Nat : j = k - C
          BY <1>7, <4>2
        <5>2. j \in 1..(c - C) /\ C + j = k /\ a + j - 1 = k - f + 1 /\ k \in (f + 1)..z
          BY <1>3, <1>7, <2>1, <3>1, <4>2, <5>1
        <5>3. committed'[k] = L[k - f + 1]
          BY <3>5, <3>6, <5>2
        <5> QED BY <1>4, <5>2, <5>3
      <4> QED BY <4>1, <4>2
    <3>9. Agreed(g)'
      <4>1. Len(committed') <= c
        BY <1>7, <3>7
      <4>2. \A k \in 1..Len(committed') : committed'[k] = g.log[t][k]
        BY <3>7, <3>8
      <4>3. \E u \in Nat, n \in Nat :
              /\ Chosen(g, n, u) /\ Len(committed') <= n
              /\ \A k \in 1..Len(committed') : committed'[k] = g.log[u][k]
        BY <1>7, <4>1, <4>2
      <4> QED BY <3>6, <4>3 DEF Agreed
    <3>10. c <= c
      BY <1>7
    <3> QED BY <1>2, <1>7, <2>1, <2>2, <3>3, <3>6, <3>7, <3>8, <3>9, <3>10
  <2> QED BY <2>4, <2>5
<1> QED BY <1>5, <1>6, <1>7

\* Only leader i moves, and only the history of its term changes.
LeaderMoves(h, g, i, t) ==
    /\ UNCHANGED <<elected, votesCast, currentTerm, state, lastIncludedIndex,
                   lastApplied, pendingSnapshot>>
    /\ UNCHANGED lastIncludedTerm
    /\ rpcs' \subseteq rpcs
    /\ \A s \in Nat : s # t => g.len[s] = h.len[s]
    /\ \A j \in Server \ {i} :
         /\ logs'[j] = logs[j] /\ commitIndex'[j] = commitIndex[j]
         /\ matchIndex'[j] = matchIndex[j] /\ g.acked[j] = h.acked[j]

\* The invariant after a step of leader i that extends its own log or commits.
LEMMA LeaderStep ==
  ASSUME TypeOK, TypeOK', ElectionInv, NEW h, LogInv(h), NEW i \in Server, state[i] = Leader,
         NEW t \in Nat, t = currentTerm[i],
         NEW g, Extends(h, g), Lineage(g), Complete(g),
         LeaderMoves(h, g, i, t), Stored(g, i)', Acked(g, i)', lastLogIndex(i)' = g.len[t],
         Same(g, lastLogTerm(i)', t, g.len[t]), Backed(g, t, matchIndex'[i]),
         \/ commitIndex'[i] = commitIndex[i]
         \/ commitIndex'[i] = advanceCommitIndex(i, logs'[i], matchIndex'[i]),
         RecordCommit(i, logs'[i], commitIndex'[i])
  PROVE  LogInv(g)'
<1>1. /\ Lineage(h) /\ Terms /\ Complete(h) /\ Agreed(h) /\ h \in History /\ g \in History
      /\ \A j \in Server : Stored(h, j) /\ Role(h, j) /\ Acked(h, j) /\ Commits(h, j)
  BY DEF LogInv, Lineage, Extends
<1>2. /\ lastIncludedIndex[i] \in Nat /\ commitIndex[i] \in Nat /\ commitIndex'[i] \in Nat
      /\ logs'[i] \in Seq(Entry) /\ Len(logs'[i]) \in Nat
      /\ \A j \in Server : currentTerm[j] \in Nat
  <2> USE DEF TypeOK, Log
  <2>1. lastIncludedIndex[i] \in Nat /\ commitIndex[i] \in Nat /\ commitIndex'[i] \in Nat
    OBVIOUS
  <2>2. logs'[i] \in Seq(Entry)
    OBVIOUS
  <2>3. \A j \in Server : currentTerm[j] \in Nat
    OBVIOUS
  <2>4. Len(logs'[i]) \in Nat
    BY <2>2
  <2> QED BY <2>1, <2>2, <2>3, <2>4
<1>3. /\ g.len[t] \in Nat /\ h.len[t] \in Nat /\ h.len[t] <= g.len[t]
  BY <1>1, HistoryTypes DEF Extends
<1> USE DEF LeaderMoves
<1>4. Carries(g, i, t, logs'[i])
  <2>1. PICK f \in Nat, z \in Nat, n \in Nat :
          f = lastIncludedIndex[i] /\ z = g.len[t] /\ n = Len(logs'[i])
    BY <1>2, <1>3
  <2>2. lastLogIndex(i)' = f + n - 1
    BY <2>1 DEF lastLogIndex
  <2>3. n = z - f + 1
    BY <2>1, <2>2
  <2>4. ASSUME NEW k \in (f + 1)..z PROVE logs'[i][k - f + 1] = g.log[t][k]
    <3>1. k \in f..z /\ k > f /\ k \in 0..z
      OBVIOUS
    <3>2. entryAt(i, k)' = g.log[lastLogTerm(i)'][k]
      BY <2>1, <3>1 DEF Stored
    <3>3. entryAt(i, k)' = logs'[i][k - f + 1]
      BY <2>1 DEF entryAt, toOffset
    <3>4. g.log[lastLogTerm(i)'][k] = g.log[t][k]
      BY <2>1, <3>1 DEF Same
    <3> QED BY <3>2, <3>3, <3>4
  <2> QED BY <1>2, <2>1, <2>3, <2>4 DEF Carries
<1>5. /\ lastIncludedIndex[i] <= commitIndex[i] /\ commitIndex[i] <= Len(committed)
      /\ commitIndex[i] <= g.len[t] /\ Known(g, commitIndex[i], t)
      /\ \A k \in 1..commitIndex[i] : g.log[t][k] = committed[k]
  <2>1. PICK u \in Nat, z \in Nat, c \in Nat :
          u = lastLogTerm(i) /\ z = lastLogIndex(i) /\ c = commitIndex[i]
    BY <1>1, <1>2, ServerLog
  <2>2. /\ lastIncludedIndex[i] <= c /\ c <= Len(committed) /\ c <= z
        /\ Known(h, c, t) /\ \A k \in 1..c : h.log[u][k] = committed[k]
    BY <1>1, <2>1 DEF Commits
  <2>3. z = h.len[t] /\ Same(h, u, t, z)
    BY <1>1, <2>1 DEF Role
  <2>4. Known(g, c, t)
    <3>1. c <= c /\ t <= t
      OBVIOUS
    <3> QED BY <2>2, <3>1, KnownStays
  <2>5. ASSUME NEW k \in 1..c PROVE g.log[t][k] = committed[k]
    <3>1. k \in 0..z
      BY <2>2
    <3>2. h.log[u][k] = h.log[t][k]
      BY <2>3, <3>1 DEF Same
    <3>3. g.log[t][k] = h.log[t][k]
      BY <2>3, <3>1 DEF Extends
    <3> QED BY <2>2, <3>2, <3>3
  <2>6. c <= g.len[t]
    BY <1>3, <2>2, <2>3
  <2> QED BY <2>1, <2>2, <2>4, <2>5, <2>6
<1>6. Agreed(g)
  BY <1>1, AgreedExtends
<1>7. /\ commitIndex'[i] >= commitIndex[i] /\ commitIndex'[i] <= g.len[t]
      /\ commitIndex'[i] <= Len(committed') /\ Known(g, commitIndex'[i], t)
      /\ \A k \in 1..commitIndex'[i] : g.log[t][k] = committed'[k]
      /\ Len(committed) <= Len(committed')
      /\ \A k \in 1..Len(committed) : committed'[k] = committed[k]
      /\ Agreed(g)'
  <2>1. PICK L, match, c : L = logs'[i] /\ match = matchIndex'[i] /\ c = commitIndex'[i]
    OBVIOUS
  <2>2. c = commitIndex[i] \/ c = advanceCommitIndex(i, L, match)
    BY <2>1
  <2>3. RecordCommit(i, L, c) /\ Carries(g, i, t, L) /\ Backed(g, t, match)
    BY <1>4, <2>1
  <2>4. /\ c \in Nat /\ c >= commitIndex[i] /\ c <= g.len[t] /\ c <= Len(committed')
        /\ Known(g, c, t)
        /\ \A k \in 1..c : g.log[t][k] = committed'[k]
        /\ Len(committed) <= Len(committed')
        /\ \A k \in 1..Len(committed) : committed'[k] = committed[k]
        /\ Agreed(g)'
    BY <1>5, <1>6, <2>2, <2>3, CommitStep
  <2> QED BY <2>1, <2>4
<1>8. ASSUME NEW j \in Server, j # i PROVE Stored(g, j)' /\ Keeps(j)
  <2>1. currentTerm[j] <= currentTerm'[j]
    BY <1>2
  <2> QED BY <1>1, <1>8, <2>1, StoredStays
<1>9. Advances
  <2>1. \A j \in Server : state'[j] = Candidate => j # i /\ state[j] = Candidate
    BY DEF Candidate, Leader
  <2>2. \A j \in Server : j # i =>
          lastLogTerm(j)' = lastLogTerm(j) /\ lastLogIndex(j)' = lastLogIndex(j)
    BY <1>8 DEF Keeps
  <2>3. \A j \in Server : currentTerm[j] <= currentTerm'[j]
    BY <1>2
  <2> QED BY <1>7, <2>1, <2>2, <2>3 DEF Advances
<1>10. Lineage(g)' /\ Terms'
  BY <1>1 DEF Lineage, Terms
<1>11. Complete(g)'
  BY DEF Complete, Blocked
<1>12. \A v \in votesCast' : Ballot(g, v)'
  BY <1>9, BallotStays
<1>13. ASSUME NEW m \in rpcs' PROVE Sound(g, m)'
  <2>1. m \in rpcs
    OBVIOUS
  <2>2. m \in RPC /\ Sound(h, m)
    BY <2>1 DEF TypeOK, LogInv
  <2>3. committed \in Seq(Entry) /\ committed' \in Seq(Entry)
    BY <1>1, <1>7 DEF Agreed
  <2> QED BY <1>9, <2>2, <2>3, SoundStays
<1>14. Commits(g, i)'
  <2>1. /\ lastIncludedIndex[i] <= commitIndex[i] /\ lastApplied[i] <= commitIndex[i]
        /\ pendingSnapshot[i] # None => pendingSnapshot[i].Index <= commitIndex[i]
    BY <1>1 DEF Commits
  <2>2. /\ lastApplied[i] \in Nat
        /\ pendingSnapshot[i] # None => pendingSnapshot[i].Index \in Nat
    BY DEF TypeOK
  <2>3. /\ lastIncludedIndex[i] <= commitIndex'[i] /\ lastApplied[i] <= commitIndex'[i]
        /\ pendingSnapshot[i] # None => pendingSnapshot[i].Index <= commitIndex'[i]
    BY <1>2, <1>7, <2>1, <2>2
  <2>4. ASSUME NEW k \in 1..commitIndex'[i] PROVE g.log[lastLogTerm(i)'][k] = committed'[k]
    <3>1. k \in 0..g.len[t]
      BY <1>2, <1>3, <1>7
    <3> QED BY <1>7, <3>1 DEF Same
  <2> QED BY <1>7, <2>3, <2>4 DEF Commits
<1>15. Role(g, i)'
  <2>1. currentTerm[i] >= 1
    BY <1>1 DEF Role, Leader, Follower
  <2>2. Leader # Candidate
    BY DEF Leader, Candidate
  <2> QED BY <2>1, <2>2 DEF Role, Backed
<1>16. ASSUME NEW j \in Server, j # i
       PROVE  Role(g, j)' /\ Acked(g, j)' /\ Commits(g, j)'
  <2>1. Stored(g, j)' /\ Keeps(j)
    BY <1>8, <1>16
  <2>2. Acked(g, j)'
    BY <1>1, <1>9, <1>16, <2>1, AckedStays
  <2>3. Commits(g, j)'
    <3>1. committed' \in Seq(Entry) /\ commitIndex[j] \in Nat
      BY <1>7 DEF Agreed, TypeOK
    <3>2. /\ commitIndex'[j] <= commitIndex[j] /\ lastIncludedIndex'[j] <= commitIndex'[j]
          /\ lastApplied'[j] <= commitIndex'[j]
          /\ pendingSnapshot'[j] # None => pendingSnapshot'[j].Index <= commitIndex'[j]
      BY <1>1, <1>16, <3>1 DEF Commits
    <3> QED BY <1>1, <1>9, <2>1, <3>1, <3>2, CommitsStays
  <2>4. ASSUME state[j] = Leader
        PROVE  /\ lastLogIndex(j)' = g.len[currentTerm[j]]
               /\ Same(g, lastLogTerm(j)', currentTerm[j], lastLogIndex(j)')
               /\ \A p \in Server : matchIndex'[j][p] <= g.acked[p][currentTerm[j]]
    <3>1. currentTerm[j] # t
      <4> SUFFICES ASSUME currentTerm[j] = t PROVE FALSE
        OBVIOUS
      <4>1. <<t, j>> \in elected /\ <<t, i>> \in elected
        BY <2>4 DEF ElectionInv, LeadersElected
      <4>2. ElectionSafety
        BY MajoritiesAgree
      <4> QED BY <1>16, <4>1, <4>2 DEF ElectionSafety
    <3>2. PICK s \in Nat, u \in Nat, z \in Nat :
            s = currentTerm[j] /\ u = lastLogTerm(j) /\ z = lastLogIndex(j)
      BY <1>1, ServerLog
    <3>3. g.len[s] = h.len[s] /\ z = h.len[s] /\ Same(h, u, s, z) /\ z <= h.len[u]
      <4>1. z = h.len[s] /\ Same(h, u, s, z)
        BY <1>1, <2>4, <3>2 DEF Role
      <4>2. z <= h.len[u]
        BY <1>1, <3>2, ServerLog
      <4> QED BY <3>1, <3>2, <4>1, <4>2
    <3>4. Same(g, u, s, z)
      <4>1. z <= h.len[s]
        BY <3>3
      <4> QED BY <3>3, <4>1, SameStays
    <3>5. ASSUME NEW p \in Server PROVE matchIndex'[j][p] <= g.acked[p][s]
      <4>1. matchIndex[j][p] <= h.acked[p][s] /\ matchIndex'[j][p] = matchIndex[j][p]
        BY <1>1, <1>16, <2>4, <3>2 DEF Role
      <4>2. /\ h.acked[p][s] \in Nat /\ g.acked[p][s] \in Nat /\ h.acked[p][s] <= g.acked[p][s]
        BY <1>1, HistoryTypes DEF Extends
      <4>3. matchIndex[j][p] \in Nat
        BY DEF TypeOK
      <4> QED BY <4>1, <4>2, <4>3
    <3> QED BY <2>1, <3>2, <3>3, <3>4, <3>5 DEF Keeps
  <2>5. Role(g, j)'
    BY <1>1, <2>4 DEF Role
  <2> QED BY <2>2, <2>3, <2>5
<1>17. \A j \in Server : Stored(g, j)' /\ Role(g, j)' /\ Acked(g, j)' /\ Commits(g, j)'
  BY <1>8, <1>14, <1>15, <1>16
<1> QED BY <1>7, <1>10, <1>11, <1>12, <1>13, <1>17 DEF LogInv

\* A confirmed AppendEntries: the leader raises the match index and commits.
LEMMA LogAppendEntriesReply ==
  ASSUME TypeOK, TypeOK', ElectionInv, NEW h, LogInv(h), NEW m \in rpcs, AppendEntriesReply(m)
  PROVE  LogInv(h)'
<1>1. CASE ~(~m.Stopped /\ Expected(m.to, m) /\ m.Success)
  BY <1>1, CalmAppendEntriesReply, CalmStep
<1>2. CASE ~m.Stopped /\ Expected(m.to, m) /\ m.Success
  <2>1. m \in AppendEntriesReplies /\ m.type = "AppendEntriesReply"
    BY RPCTypes DEF TypeOK, AppendEntriesReply
  <2>2. PICK i \in Server, p \in Server, x \in Nat :
          i = m.to /\ p = m.from /\ x = m.PrevLogIndex + m.Count
    BY <2>1 DEF AppendEntriesReplies
  <2>3. m.Term \in Nat /\ m.term \in Nat /\ currentTerm[i] \in Nat
    BY <2>1 DEF AppendEntriesReplies, TypeOK
  <2>4. m.Term <= currentTerm[i] /\ state[i] = Leader /\ currentTerm[i] = m.term
    BY <1>2, <2>2 DEF Expected
  <2>5. ~(m.Term > currentTerm[i])
    BY <2>3, <2>4
  <2>6. /\ matchIndex' = [matchIndex EXCEPT ![i][p] = Max({matchIndex[i][p], x})]
        /\ commitIndex' = [commitIndex EXCEPT ![i] =
              IF x > matchIndex[i][p]
              THEN advanceCommitIndex(i, logs[i], matchIndex'[i]) ELSE commitIndex[i]]
        /\ RecordCommit(i, logs[i], commitIndex'[i])
        /\ UNCHANGED <<persistent, state>>
    BY <1>2, <2>2, <2>5 DEF AppendEntriesReply
  <2>7. /\ UNCHANGED <<lastApplied, pendingSnapshot, votesCast, elected>>
        /\ rpcs' \subseteq rpcs
    BY DEF AppendEntriesReply
  <2>8. UNCHANGED <<currentTerm, logs, lastIncludedIndex, lastIncludedTerm>>
    BY <2>6 DEF persistent
  <2>9. /\ Lineage(h) /\ Complete(h) /\ h \in History /\ Stored(h, i) /\ Role(h, i)
        /\ Acked(h, i) /\ Sound(h, m)
    BY DEF LogInv, Lineage
  <2>10. PICK t \in Nat : t = currentTerm[i]
    BY <2>3
  <2>11. x <= h.acked[p][t]
    BY <1>2, <2>1, <2>2, <2>4, <2>9, <2>10 DEF Sound
  <2>12. Backed(h, t, matchIndex'[i])
    <3>1. matchIndex \in [Server -> [Server -> Nat]] /\ matchIndex' \in [Server -> [Server -> Nat]]
      BY DEF TypeOK
    <3>2. \A q \in Server : matchIndex[i][q] <= h.acked[q][t]
      BY <2>4, <2>9, <2>10 DEF Role
    <3>3. Max({matchIndex[i][p], x}) \in {matchIndex[i][p], x}
      <4>1. matchIndex[i][p] \in Int /\ x \in Int
        BY <3>1
      <4> QED BY <4>1, MaxOfTwo
    <3>4. ASSUME NEW q \in Server PROVE matchIndex'[i][q] <= h.acked[q][t]
      <4>1. CASE q = p
        <5>1. matchIndex'[i][q] = Max({matchIndex[i][p], x})
          BY <2>6, <3>1, <4>1
        <5> QED BY <2>11, <3>2, <3>3, <4>1, <5>1
      <4>2. CASE q # p
        <5>1. matchIndex'[i][q] = matchIndex[i][q]
          BY <2>6, <3>1, <4>2
        <5> QED BY <3>2, <5>1
      <4> QED BY <4>1, <4>2
    <3> QED BY <3>1, <3>4 DEF Backed
  <2>13. Extends(h, h)
    BY <2>9, ExtendsItself
  <2>14. Stored(h, i)' /\ Keeps(i) /\ Acked(h, i)'
    <3>1. currentTerm[i] <= currentTerm'[i]
      BY <2>3, <2>8
    <3>2. Stored(h, i)' /\ Keeps(i)
      BY <2>8, <2>9, <2>13, <3>1, StoredStays
    <3>3. Acked(h, i)'
      BY <2>8, <2>9 DEF Acked, Blocked, Holds, lastLogIndex, lastLogTerm
    <3> QED BY <3>2, <3>3
  <2>15. lastLogIndex(i)' = h.len[t] /\ Same(h, lastLogTerm(i)', t, h.len[t])
    BY <2>4, <2>9, <2>10, <2>14 DEF Role, Keeps
  <2>16. /\ \A j \in Server \ {i} : commitIndex'[j] = commitIndex[j] /\ matchIndex'[j] = matchIndex[j]
         /\ \/ commitIndex'[i] = commitIndex[i]
            \/ commitIndex'[i] = advanceCommitIndex(i, logs'[i], matchIndex'[i])
         /\ RecordCommit(i, logs'[i], commitIndex'[i])
    <3>1. commitIndex \in [Server -> Nat] /\ matchIndex \in [Server -> [Server -> Nat]]
      BY DEF TypeOK
    <3> QED BY <2>6, <2>8, <3>1
  <2>17. LeaderMoves(h, h, i, t)
    BY <2>6, <2>7, <2>8, <2>16 DEF LeaderMoves
  <2> QED BY <2>4, <2>9, <2>10, <2>12, <2>13, <2>14, <2>15, <2>16, <2>17, LeaderStep
<1> QED BY <1>1, <1>2

(***************************************************************************)
(* A leader's log grows.                                                   *)
(***************************************************************************)
\* Server i leads term t, with this log up to n.
Leads(h, i, t, lead, n) ==
    [log |-> [h.log EXCEPT ![t] = lead], len |-> [h.len EXCEPT ![t] = n],
     acked |-> [h.acked EXCEPT ![i] = [h.acked[i] EXCEPT ![t] = n]]]

\* The log of the leader i of term t has grown, and nothing else.
Grown(h, g, i, t) ==
    /\ Extends(h, g) /\ g.acked[i][t] = g.len[t]
    /\ \A s \in Nat : s # t =>
         g.log[s] = h.log[s] /\ g.len[s] = h.len[s] /\ g.acked[i][s] = h.acked[i][s]
    /\ \A j \in Server : j # i => g.acked[j] = h.acked[j]

\* The history of a longer log extends that of the shorter.
LEMMA LeadsExtends ==
  ASSUME TypeOK, NEW h \in History, NEW i \in Server, NEW t \in Nat, currentTerm[i] <= t,
         NEW lead \in [Nat -> Entry], NEW n \in Nat, h.len[t] <= n, h.acked[i][t] <= n,
         \A k \in 0..h.len[t] : lead[k] = h.log[t][k]
  PROVE  LET g == Leads(h, i, t, lead, n) IN
         Grown(h, g, i, t) /\ g.log[t] = lead /\ g.len[t] = n
<1>1. /\ h.log \in [Nat -> [Nat -> Entry]] /\ h.len \in [Nat -> Nat]
      /\ h.acked \in [Server -> [Nat -> Nat]] /\ h.acked[i] \in [Nat -> Nat]
  BY DEF History
<1>2. PICK lg \in [Nat -> [Nat -> Entry]] : lg = [h.log EXCEPT ![t] = lead]
  BY <1>1
<1>3. PICK ln \in [Nat -> Nat] : ln = [h.len EXCEPT ![t] = n]
  BY <1>1
<1>4. PICK row \in [Nat -> Nat] : row = [h.acked[i] EXCEPT ![t] = n]
  BY <1>1
<1>5. PICK ak \in [Server -> [Nat -> Nat]] : ak = [h.acked EXCEPT ![i] = row]
  BY <1>1
<1>6. PICK g : g = [log |-> lg, len |-> ln, acked |-> ak]
  OBVIOUS
<1>7. g = Leads(h, i, t, lead, n)
  BY <1>2, <1>3, <1>4, <1>5, <1>6 DEF Leads
<1>8. g \in History /\ g.log = lg /\ g.len = ln /\ g.acked = ak
  BY <1>6 DEF History
<1>9. lg[t] = lead /\ \A s \in Nat : s # t => lg[s] = h.log[s]
  BY <1>1, <1>2
<1>10. ln[t] = n /\ \A s \in Nat : s # t => ln[s] = h.len[s]
  BY <1>1, <1>3
<1>11. row[t] = n /\ \A s \in Nat : s # t => row[s] = h.acked[i][s]
  <2>1. PICK old \in [Nat -> Nat] : old = h.acked[i]
    BY <1>1
  <2>2. row = [old EXCEPT ![t] = n]
    BY <1>4, <2>1
  <2>3. row[t] = n /\ \A s \in Nat : s # t => row[s] = old[s]
    BY <2>2
  <2> QED BY <2>1, <2>3
<1>12. ak[i] = row /\ \A j \in Server : j # i => ak[j] = h.acked[j]
  BY <1>1, <1>5
<1>13. ASSUME NEW s \in Nat
       PROVE  h.len[s] <= g.len[s] /\ \A k \in 0..h.len[s] : g.log[s][k] = h.log[s][k]
  <2>1. CASE s = t
    <3>1. g.len[s] = n /\ g.log[s] = lead
      BY <1>8, <1>9, <1>10, <2>1
    <3>2. h.len[s] <= n
      BY <2>1
    <3>3. \A k \in 0..h.len[s] : lead[k] = h.log[s][k]
      BY <2>1
    <3> QED BY <3>1, <3>2, <3>3
  <2>2. CASE s # t
    <3>1. PICK z \in Nat : z = h.len[s]
      BY <1>1
    <3>2. z <= z
      OBVIOUS
    <3>3. g.len[s] = h.len[s] /\ g.log[s] = h.log[s]
      BY <1>8, <1>9, <1>10, <2>2
    <3> QED BY <3>1, <3>2, <3>3
  <2> QED BY <2>1, <2>2
<1>14. ASSUME NEW q \in Server, NEW s \in Nat
       PROVE  /\ h.acked[q][s] <= g.acked[q][s]
              /\ currentTerm[q] > s => g.acked[q][s] = h.acked[q][s]
  <2>1. currentTerm[q] \in Nat
    BY DEF TypeOK
  <2>2. PICK z \in Nat : z = h.acked[q][s]
    BY HistoryTypes
  <2>3. CASE q = i /\ s = t
    <3>1. g.acked[q][s] = n
      BY <1>8, <1>11, <1>12, <2>3
    <3>2. ~(currentTerm[q] > s)
      BY <2>1, <2>3
    <3>3. h.acked[q][s] <= n
      BY <2>3
    <3> QED BY <3>1, <3>2, <3>3
  <2>4. CASE ~(q = i /\ s = t)
    <3>1. g.acked[q][s] = h.acked[q][s]
      BY <1>8, <1>11, <1>12, <2>4
    <3>2. z <= z
      OBVIOUS
    <3> QED BY <2>2, <3>1, <3>2
  <2> QED BY <2>3, <2>4
<1>15. Extends(h, g)
  BY <1>8, <1>13, <1>14 DEF Extends
<1> QED BY <1>7, <1>8, <1>9, <1>10, <1>11, <1>12, <1>15 DEF Grown

\* It is made of pieces of its predecessors' logs if the new log is.
LEMMA LeadsLineage ==
  ASSUME NEW h, NEW g, Lineage(h), Extends(h, g), elected \subseteq elected',
         NEW t \in Nat, \A s \in Nat : s # t => g.log[s] = h.log[s] /\ g.len[s] = h.len[s],
         \E j \in Server : <<t, j>> \in elected',
         g.log[t][0] = [Term |-> 0, Command |-> None],
         \A k \in 1..g.len[t] :
           LET u == g.log[t][k].Term IN u \in 1..t /\ k <= g.len[u] /\ Same(g, u, t, k),
         \A k \in 0..g.len[t] : \A j \in 0..k : g.log[t][j].Term <= g.log[t][k].Term
  PROVE  Lineage(g)'
<1>1. g \in History /\ h \in History
  BY DEF Extends
<1>2. \A s \in Nat : g.log[s][0] = [Term |-> 0, Command |-> None]
  BY DEF Lineage
<1>3. \A s \in Nat : g.len[s] > 0 => \E j \in Server : <<s, j>> \in elected'
  BY DEF Lineage
<1>4. ASSUME NEW s \in Nat, NEW k \in 1..g.len[s], NEW u, u = g.log[s][k].Term
      PROVE  u \in 1..s /\ k <= g.len[u] /\ Same(g, u, s, k)
  <2>1. CASE s = t
    BY <1>4, <2>1
  <2>2. CASE s # t
    <3>1. g.log[s] = h.log[s] /\ g.len[s] = h.len[s]
      BY <2>2
    <3>2. u \in 1..s /\ k <= h.len[u] /\ Same(h, u, s, k)
      BY <1>4, <3>1 DEF Lineage
    <3>3. h.len[s] \in Nat /\ h.len[u] \in Nat /\ g.len[u] \in Nat /\ h.len[u] <= g.len[u]
      BY <1>1, <3>2, HistoryTypes DEF Extends
    <3>4. k <= h.len[s] /\ k \in Nat /\ u \in Nat
      BY <3>1, <3>2, <3>3
    <3>5. Same(g, u, s, k)
      BY <3>2, <3>4, SameStays
    <3> QED BY <3>2, <3>3, <3>4, <3>5
  <2> QED BY <2>1, <2>2
<1>5. ASSUME NEW s \in Nat, NEW k \in 0..g.len[s], NEW j \in 0..k
      PROVE  g.log[s][j].Term <= g.log[s][k].Term
  <2>1. CASE s = t
    BY <2>1
  <2>2. CASE s # t
    <3>1. g.log[s] = h.log[s] /\ g.len[s] = h.len[s]
      BY <2>2
    <3> QED BY <3>1 DEF Lineage
  <2> QED BY <2>1, <2>2
<1> QED BY <1>1, <1>2, <1>3, <1>4, <1>5 DEF Lineage, Same

\* In a longer history an entry stays blocked.
LEMMA BlockedExtends ==
  ASSUME NEW h, NEW g, Extends(h, g), NEW n, NEW t \in Nat, Blocked(h, n, t)
  PROVE  Blocked(g, n, t)
<1>1. PICK Q \in Majorities : \A q \in Q : currentTerm[q] > t /\ h.acked[q][t] < n
  BY DEF Blocked
<1>2. \A q \in Q : q \in Server
  BY DEF Majorities
<1>3. \A q \in Q : currentTerm[q] > t /\ g.acked[q][t] < n
  BY <1>1, <1>2 DEF Extends
<1> QED BY <1>1, <1>3 DEF Blocked

\* A later leader still has an old entry, or it is still blocked.
LEMMA CompleteExtends ==
  ASSUME NEW h, NEW g, Extends(h, g), Complete(h), NEW e \in elected, e[1] \in Nat,
         NEW t \in Nat, t < e[1], NEW n \in Nat, n <= h.len[t], Created(g, n, t)
  PROVE  Contains(g, e[1], n, t) \/ Blocked(g, n, t)
<1>1. Created(h, n, t)
  BY CreatedStays
<1>2. n \in 1..h.len[t]
  BY <1>1 DEF Created
<1>3. Contains(h, e[1], n, t) \/ Blocked(h, n, t)
  BY <1>1, <1>2 DEF Complete
<1>4. CASE Contains(h, e[1], n, t)
  <2>1. n <= h.len[e[1]] /\ h.log[e[1]][n].Term = t
    BY <1>4 DEF Contains
  <2>2. h.len[e[1]] \in Nat /\ g.len[e[1]] \in Nat /\ h.len[e[1]] <= g.len[e[1]]
    BY HistoryTypes DEF Extends
  <2>3. n \in 0..h.len[e[1]] /\ n <= g.len[e[1]]
    BY <2>1, <2>2
  <2>4. g.log[e[1]][n] = h.log[e[1]][n]
    BY <2>3 DEF Extends
  <2> QED BY <2>1, <2>3, <2>4 DEF Contains
<1>5. CASE Blocked(h, n, t)
  BY <1>5, BlockedExtends
<1> QED BY <1>3, <1>4, <1>5

\* Whoever voted in a later election has left the term.
LEMMA VotersLeft ==
  ASSUME TypeOK, ElectionInv, NEW e \in elected, NEW h \in History, NEW t \in Nat, t < e[1],
         NEW n \in Nat, \A q \in Server : h.acked[q][t] < n
  PROVE  Blocked(h, n, t)
<1>1. PICK Q : Q = Voters(e[1], e[2])
  OBVIOUS
<1>2. Q \in Majorities
  BY <1>1 DEF ElectionInv, ElectedByMajority, Voters, Majorities
<1>3. e[1] \in Nat
  BY DEF TypeOK
<1>4. ASSUME NEW q \in Q PROVE currentTerm[q] > t /\ h.acked[q][t] < n
  <2>1. q \in Server /\ <<e[1], q, e[2]>> \in votesCast
    BY <1>1 DEF Voters
  <2>2. e[1] <= currentTerm[q]
    BY <2>1 DEF ElectionInv, VotesBind
  <2>3. currentTerm[q] \in Nat
    BY <2>1 DEF TypeOK
  <2> QED BY <1>3, <2>1, <2>2, <2>3
<1> QED BY <1>2, <1>4 DEF Blocked

\* Start: the leader's new entry, seen by its own log.
LEMMA AppendedLog ==
  ASSUME TypeOK, TypeOK', NEW h, Lineage(h), NEW i \in Server, Stored(h, i),
         NEW t \in Nat, t = currentTerm[i], NEW N \in Nat, N = lastLogIndex(i),
         Same(h, lastLogTerm(i), t, N), N <= h.len[t],
         NEW E \in Entry, E.Term = t, logs'[i] = Append(logs[i], E),
         UNCHANGED <<currentTerm, lastIncludedIndex, lastIncludedTerm>>,
         NEW g, Extends(h, g), g.len[t] = N + 1, g.log[t][N + 1] = E
  PROVE  Stored(g, i)' /\ lastLogTerm(i)' = t /\ lastLogIndex(i)' = N + 1
<1>1. PICK f \in Nat, z \in Nat, u \in Nat :
        f = lastIncludedIndex[i] /\ z = Len(logs[i]) /\ u = lastLogTerm(i)
  <2>1. lastIncludedIndex[i] \in Nat /\ Len(logs[i]) \in Nat
    BY DEF TypeOK, Log
  <2>2. lastLogTerm(i) \in Nat
    BY ServerLog
  <2> QED BY <2>1, <2>2
<1>2. N = f + z - 1 /\ f <= N
  BY <1>1, ServerLog DEF lastLogIndex
<1>3. logs[i] \in Seq(Entry)
  BY DEF TypeOK, Log
<1>4. /\ Len(logs'[i]) = z + 1 /\ logs'[i][z + 1] = E
      /\ \A k \in 1..z : logs'[i][k] = logs[i][k]
  BY <1>1, <1>3
<1>5. lastLogTerm(i)' = t
  BY <1>4 DEF lastLogTerm
<1>6. lastLogIndex(i)' = N + 1
  <2>1. lastLogIndex(i)' = f + (z + 1) - 1
    BY <1>1, <1>4 DEF lastLogIndex
  <2> QED BY <1>2, <2>1
<1>7. ASSUME NEW k \in f..N
      PROVE  /\ termAt(i, k)' = termAt(i, k) /\ entryAt(i, k)' = entryAt(i, k)
             /\ termAt(i, k) = g.log[t][k].Term
             /\ k > f => entryAt(i, k) = g.log[t][k]
  <2>1. k - f + 1 \in 1..z /\ k \in 0..N
    BY <1>2
  <2>2. termAt(i, k)' = termAt(i, k) /\ entryAt(i, k)' = entryAt(i, k)
    BY <1>1, <1>4, <2>1 DEF termAt, entryAt, toOffset
  <2>3. termAt(i, k) = h.log[u][k].Term /\ (k > f => entryAt(i, k) = h.log[u][k])
    BY <1>1 DEF Stored
  <2>4. h.log[u][k] = h.log[t][k]
    BY <1>1, <2>1 DEF Same
  <2>5. g.log[t][k] = h.log[t][k]
    <3>1. h.len[t] \in Nat
      BY HistoryTypes DEF Lineage
    <3>2. k \in 0..h.len[t]
      BY <2>1, <3>1
    <3> QED BY <3>2 DEF Extends
  <2> QED BY <2>2, <2>3, <2>4, <2>5
<1>8. termAt(i, N + 1)' = E.Term /\ entryAt(i, N + 1)' = E
  <2>1. (N + 1) - f + 1 = z + 1
    BY <1>2
  <2>2. lastIncludedIndex'[i] = f
    BY <1>1
  <2> QED BY <1>4, <2>1, <2>2 DEF termAt, entryAt, toOffset
<1>9. ASSUME NEW k \in f..(N + 1)
      PROVE  termAt(i, k)' = g.log[t][k].Term /\ (k > f => entryAt(i, k)' = g.log[t][k])
  <2>1. CASE k = N + 1
    BY <1>8, <2>1
  <2>2. CASE k # N + 1
    <3>1. k \in f..N
      BY <2>2
    <3> QED BY <1>7, <3>1
  <2> QED BY <2>1, <2>2
<1>10. lastIncludedTerm'[i] = termAt(i, f)'
  <2>1. f \in f..N
    BY <1>2
  <2>2. lastIncludedTerm[i] = termAt(i, f)
    BY <1>1 DEF Stored
  <2> QED BY <1>7, <2>1, <2>2
<1>11. t <= t /\ N + 1 <= N + 1
  OBVIOUS
<1> QED BY <1>1, <1>5, <1>6, <1>9, <1>10, <1>11 DEF Stored

\* Start: what the leader acknowledged, and now its own new entry.
LEMMA StartAcked ==
  ASSUME TypeOK, NEW h, Lineage(h), NEW i \in Server, Stored(h, i), Acked(h, i),
         NEW t \in Nat, t = currentTerm[i], NEW N \in Nat, N = lastLogIndex(i),
         N = h.len[t], Same(h, lastLogTerm(i), t, N), UNCHANGED currentTerm,
         NEW g, Grown(h, g, i, t), g.len[t] = N + 1,
         lastLogTerm(i)' = t, lastLogIndex(i)' = N + 1
  PROVE  Acked(g, i)'
<1>0. /\ Extends(h, g) /\ g.acked[i][t] = N + 1
      /\ \A s \in Nat : s # t => g.len[s] = h.len[s] /\ g.acked[i][s] = h.acked[i][s]
  BY DEF Grown
<1>1. h \in History /\ g \in History /\ \A s \in Nat : h.len[s] \in Nat /\ h.acked[i][s] \in Nat
  BY <1>0, HistoryTypes DEF Extends
<1>2. lastLogTerm(i) \in Nat
  BY ServerLog
<1> SUFFICES ASSUME NEW s \in Nat
             PROVE  /\ g.acked[i][s] <= g.len[s]
                    /\ g.acked[i][s] > 0 => s <= t
                    /\ s = t =>
                         /\ g.acked[i][s] <= N + 1
                         /\ Same(g, t, s, g.acked[i][s])
                    /\ \A n \in 1..g.acked[i][s] :
                         Created(g, n, s) => Holds(g, i, n, s)' \/ Blocked(g, n, s)'
  BY DEF Acked
<1>3. CASE s = t
  <2>1. N + 1 <= N + 1 /\ t <= t /\ Same(g, t, t, N + 1)
    BY DEF Same
  <2>2. ASSUME NEW n \in 1..(N + 1), Created(g, n, t) PROVE Holds(g, i, n, t)'
    <3>1. g.log[t][n].Term = t /\ n <= N + 1
      BY <1>0, <2>2 DEF Created
    <3> QED BY <3>1 DEF Holds
  <2> QED BY <1>0, <1>3, <2>1, <2>2
<1>4. CASE s # t
  <2>1. g.len[s] = h.len[s] /\ g.acked[i][s] = h.acked[i][s]
    BY <1>0, <1>4
  <2>2. h.acked[i][s] <= h.len[s] /\ (h.acked[i][s] > 0 => s <= t)
    BY DEF Acked
  <2>3. ASSUME NEW n \in 1..h.acked[i][s], Created(g, n, s)
        PROVE  Holds(g, i, n, s)' \/ Blocked(g, n, s)'
    <3>1. n \in Nat /\ n <= h.len[s]
      BY <1>1, <2>2
    <3>2. Created(h, n, s)
      BY <1>0, <2>3, <3>1, CreatedStays
    <3>3. Holds(h, i, n, s) \/ Blocked(h, n, s)
      BY <3>2 DEF Acked
    <3>4. CASE Blocked(h, n, s)
      <4>1. Blocked(g, n, s)
        BY <1>0, <3>4, BlockedExtends
      <4> QED BY <4>1 DEF Blocked
    <3>5. CASE Holds(h, i, n, s)
      <4>1. n <= N /\ h.log[lastLogTerm(i)][n].Term = s
        BY <3>5 DEF Holds
      <4>2. n \in 0..N /\ n <= N + 1
        BY <3>1, <4>1
      <4>3. h.log[t][n] = h.log[lastLogTerm(i)][n] /\ g.log[t][n] = h.log[t][n]
        BY <1>0, <4>2 DEF Same, Extends
      <4> QED BY <4>1, <4>2, <4>3 DEF Holds
    <3> QED BY <3>3, <3>4, <3>5
  <2> QED BY <1>4, <2>1, <2>2, <2>3
<1> QED BY <1>3, <1>4

\* Start: the leader appends a command, and a single server commits it.
LEMMA LogStart ==
  ASSUME TypeOK, TypeOK', ElectionInv, NEW h, LogInv(h), NEW i \in Server, Start(i)
  PROVE  \E g : LogInv(g)'
<1>1. /\ Lineage(h) /\ Terms /\ Complete(h) /\ h \in History
      /\ Stored(h, i) /\ Role(h, i) /\ \A q \in Server : Acked(h, q)
  BY DEF LogInv, Lineage
<1>2. state[i] = Leader /\ rpcs' \subseteq rpcs /\ ops \in Nat
      /\ UNCHANGED <<elected, votesCast, currentTerm, state, lastIncludedIndex,
                     lastApplied, pendingSnapshot>>
      /\ UNCHANGED lastIncludedTerm
  BY DEF Start, TypeOK
<1>3. PICK t \in Nat, N \in Nat, u \in Nat :
        t = currentTerm[i] /\ N = lastLogIndex(i) /\ u = lastLogTerm(i)
  BY <1>1, ServerLog
<1>4. PICK E : E = [Term |-> currentTerm[i], Command |-> ops + 1]
  OBVIOUS
<1>5. E \in Entry /\ E.Term = t
  <2>1. ops + 1 \in Nat
    BY <1>2
  <2> QED BY <1>3, <1>4, <2>1 DEF Entry
<1>6. /\ logs' = [logs EXCEPT ![i] = Append(logs[i], E)]
      /\ matchIndex' = [matchIndex EXCEPT ![i][i] = N + 1]
      /\ commitIndex' = [commitIndex EXCEPT ![i] =
            IF Cardinality(Server) = 1
            THEN advanceCommitIndex(i, Append(logs[i], E), matchIndex'[i]) ELSE @]
      /\ RecordCommit(i, Append(logs[i], E), commitIndex'[i])
  BY <1>3, <1>4 DEF Start
<1>7. /\ logs'[i] = Append(logs[i], E)
      /\ \/ commitIndex'[i] = commitIndex[i]
         \/ commitIndex'[i] = advanceCommitIndex(i, logs'[i], matchIndex'[i])
      /\ RecordCommit(i, logs'[i], commitIndex'[i])
  <2>1. logs'[i] = Append(logs[i], E)
    BY <1>6 DEF TypeOK
  <2>2. \/ commitIndex'[i] = commitIndex[i]
        \/ commitIndex'[i] = advanceCommitIndex(i, Append(logs[i], E), matchIndex'[i])
    BY <1>6 DEF TypeOK
  <2> QED BY <1>6, <2>1, <2>2
<1>8. N = h.len[t] /\ Same(h, u, t, N) /\ t >= 1
      /\ \A p \in Server : matchIndex[i][p] <= h.acked[p][t]
  BY <1>1, <1>2, <1>3 DEF Role, Leader, Follower
<1>9. \A q \in Server, s \in Nat : h.acked[q][s] \in Nat /\ h.acked[q][s] <= h.len[s]
  BY <1>1, HistoryTypes DEF Acked
<1>10. h.log[t] \in [Nat -> Entry] /\ \A s \in Nat : h.len[s] \in Nat
  BY <1>1 DEF History
<1>11. PICK lead \in [Nat -> Entry] : lead = [h.log[t] EXCEPT ![N + 1] = E]
  BY <1>5, <1>10
<1>12. lead[N + 1] = E /\ \A k \in 0..N : lead[k] = h.log[t][k]
  <2>1. N + 1 \in Nat /\ \A k \in 0..N : k \in Nat /\ k # N + 1
    OBVIOUS
  <2> QED BY <1>10, <1>11, <2>1
<1>13. PICK g : g = Leads(h, i, t, lead, N + 1)
  OBVIOUS
<1>13a. Grown(h, g, i, t) /\ g.log[t] = lead /\ g.len[t] = N + 1
  <2>1. currentTerm[i] <= t /\ N + 1 \in Nat /\ h.len[t] <= N + 1
    BY <1>3, <1>8
  <2>2. h.acked[i][t] <= N + 1
    BY <1>8, <1>9
  <2>3. \A k \in 0..h.len[t] : lead[k] = h.log[t][k]
    BY <1>8, <1>12
  <2> QED BY <1>1, <1>13, <2>1, <2>2, <2>3, LeadsExtends
<1>14. /\ Extends(h, g) /\ g.log[t] = lead /\ g.len[t] = N + 1 /\ g.acked[i][t] = N + 1
       /\ \A s \in Nat : s # t =>
            g.log[s] = h.log[s] /\ g.len[s] = h.len[s] /\ g.acked[i][s] = h.acked[i][s]
       /\ \A j \in Server : j # i => g.acked[j] = h.acked[j]
  BY <1>13a DEF Grown
<1>15. <<t, i>> \in elected
  BY <1>2, <1>3 DEF ElectionInv, LeadersElected
<1>16. Lineage(g)
  <2>1. g.log[t][0] = [Term |-> 0, Command |-> None]
    <3>1. 0 \in 0..N
      OBVIOUS
    <3> QED BY <1>1, <1>12, <1>14, <3>1 DEF Lineage
  <2>2. ASSUME NEW k \in 1..(N + 1), NEW v, v = g.log[t][k].Term
        PROVE  v \in 1..t /\ k <= g.len[v] /\ Same(g, v, t, k)
    <3>1. CASE k = N + 1
      <4>1. v = t
        BY <1>5, <1>12, <1>14, <2>2, <3>1
      <4>2. t \in 1..t /\ k <= N + 1
        BY <1>8
      <4> QED BY <1>14, <4>1, <4>2 DEF Same
    <3>2. CASE k # N + 1
      <4>1. k \in 1..N /\ k \in 0..N
        BY <3>2
      <4>2. v = h.log[t][k].Term
        BY <1>12, <1>14, <2>2, <4>1
      <4>3. v \in 1..t /\ k <= h.len[v] /\ Same(h, v, t, k)
        BY <1>1, <1>8, <4>1, <4>2 DEF Lineage
      <4>4. v \in Nat /\ h.len[v] \in Nat /\ g.len[v] \in Nat /\ h.len[v] <= g.len[v]
        BY <1>10, <1>14, <4>3, HistoryTypes DEF Extends
      <4>5. k \in Nat /\ k <= h.len[t] /\ k <= g.len[v]
        BY <1>8, <4>1, <4>3, <4>4
      <4>6. Same(g, v, t, k)
        BY <1>14, <4>3, <4>4, <4>5, SameStays
      <4> QED BY <4>3, <4>5, <4>6
    <3> QED BY <3>1, <3>2
  <2>3. ASSUME NEW k \in 0..(N + 1), NEW j \in 0..k
        PROVE  g.log[t][j].Term <= g.log[t][k].Term
    <3>1. CASE k # N + 1
      <4>1. k \in 0..N /\ j \in 0..N
        BY <3>1
      <4>2. h.log[t][j].Term <= h.log[t][k].Term
        BY <1>1, <1>8, <4>1 DEF Lineage
      <4> QED BY <1>12, <1>14, <4>1, <4>2
    <3>2. CASE k = N + 1
      <4>1. g.log[t][k].Term = t
        BY <1>5, <1>12, <1>14, <3>2
      <4>2. CASE j = N + 1
        <5>1. t <= t
          OBVIOUS
        <5> QED BY <3>2, <4>1, <4>2, <5>1
      <4>3. CASE j # N + 1
        <5>1. j \in 0..N /\ j \in 0..h.len[t]
          BY <1>8, <3>2, <4>3
        <5>2. h.log[t][j].Term <= t
          BY <1>1, <5>1, Origin
        <5> QED BY <1>12, <1>14, <4>1, <5>1, <5>2
      <4> QED BY <4>2, <4>3
    <3> QED BY <3>1, <3>2
  <2>4. Lineage(g)'
    <3>1. elected \subseteq elected' /\ \E j \in Server : <<t, j>> \in elected'
      BY <1>2, <1>15
    <3>2. \A k \in 1..g.len[t] :
            LET v == g.log[t][k].Term IN v \in 1..t /\ k <= g.len[v] /\ Same(g, v, t, k)
      BY <1>14, <2>2
    <3>3. \A k \in 0..g.len[t] : \A j \in 0..k : g.log[t][j].Term <= g.log[t][k].Term
      BY <1>14, <2>3
    <3> QED BY <1>1, <1>14, <2>1, <3>1, <3>2, <3>3, LeadsLineage
  <2> QED BY <1>2, <2>4 DEF Lineage
<1>17. Complete(g)
  <2> SUFFICES ASSUME NEW e \in elected, NEW s \in Nat, NEW n \in 1..g.len[s],
                      s < e[1], Created(g, n, s)
               PROVE  Contains(g, e[1], n, s) \/ Blocked(g, n, s)
    BY DEF Complete
  <2>1. e[1] \in Nat
    BY DEF TypeOK
  <2>2. g.len[s] \in Nat /\ n \in Nat /\ h.len[s] \in Nat
    BY <1>10, <1>14, HistoryTypes DEF Extends
  <2>3. CASE n <= h.len[s]
    BY <1>1, <1>14, <2>1, <2>2, <2>3, CompleteExtends
  <2>4. CASE ~(n <= h.len[s])
    <3>1. s = t
      BY <1>14, <2>2, <2>4
    <3>2. \A q \in Server : h.acked[q][s] < n
      BY <1>9, <2>2, <2>4
    <3>3. Blocked(h, n, s)
      BY <1>1, <2>2, <3>2, VotersLeft
    <3> QED BY <1>14, <3>3, BlockedExtends
  <2> QED BY <2>3, <2>4
<1>18. Stored(g, i)' /\ lastLogTerm(i)' = t /\ lastLogIndex(i)' = N + 1
  <2>1. Extends(h, g)
    BY <1>14
  <2>2. g.log[t][N + 1] = E /\ N <= h.len[t] /\ Same(h, lastLogTerm(i), t, N)
    BY <1>3, <1>8, <1>12, <1>14
  <2>3. UNCHANGED <<currentTerm, lastIncludedIndex, lastIncludedTerm>>
    BY <1>2
  <2>4. logs'[i] = Append(logs[i], E) /\ g.len[t] = N + 1
    BY <1>7, <1>14
  <2> QED BY <1>1, <1>3, <1>5, <2>1, <2>2, <2>3, <2>4, AppendedLog, SMTT(60)
<1>19. Acked(g, i)'
  <2>1. Same(h, lastLogTerm(i), t, N)
    BY <1>3, <1>8
  <2>2. UNCHANGED currentTerm /\ N = h.len[t] /\ Acked(h, i)
    BY <1>1, <1>2, <1>8
  <2>4. Grown(h, g, i, t) /\ g.len[t] = N + 1
    BY <1>13a
  <2>5. lastLogTerm(i)' = t /\ lastLogIndex(i)' = N + 1
    BY <1>18
  <2> QED BY <1>1, <1>3, <2>1, <2>2, <2>4, <2>5, StartAcked
<1>20. lastLogIndex(i)' = g.len[t] /\ Same(g, lastLogTerm(i)', t, g.len[t])
  BY <1>14, <1>18 DEF Same
<1>21. Backed(g, t, matchIndex'[i])
  <2>1. matchIndex \in [Server -> [Server -> Nat]] /\ matchIndex' \in [Server -> [Server -> Nat]]
    BY DEF TypeOK
  <2>2. ASSUME NEW p \in Server PROVE matchIndex'[i][p] <= g.acked[p][t]
    <3>1. CASE p = i
      <4>1. matchIndex'[i][p] = N + 1
        BY <1>6, <2>1, <3>1
      <4> QED BY <1>14, <3>1, <4>1
    <3>2. CASE p # i
      <4>1. matchIndex'[i][p] = matchIndex[i][p]
        BY <1>6, <2>1, <3>2
      <4> QED BY <1>8, <1>14, <3>2, <4>1
    <3> QED BY <3>1, <3>2
  <2> QED BY <2>1, <2>2 DEF Backed
<1>22. \A j \in Server \ {i} :
         /\ logs'[j] = logs[j] /\ commitIndex'[j] = commitIndex[j]
         /\ matchIndex'[j] = matchIndex[j] /\ g.acked[j] = h.acked[j]
  <2>1. logs \in [Server -> Log] /\ commitIndex \in [Server -> Nat]
        /\ matchIndex \in [Server -> [Server -> Nat]]
    BY DEF TypeOK
  <2> QED BY <1>6, <1>14, <2>1
<1>23. LogInv(g)'
  <2>1. LeaderMoves(h, g, i, t)
    BY <1>2, <1>14, <1>22 DEF LeaderMoves
  <2>2. Extends(h, g) /\ t = currentTerm[i] /\ Stored(g, i)'
    BY <1>3, <1>14, <1>18
  <2> QED BY <1>2, <1>7, <1>16, <1>17, <1>19, <1>20, <1>21, <2>1, <2>2, LeaderStep
<1> QED BY <1>23

(***************************************************************************)
(* A candidate wins.                                                       *)
(***************************************************************************)
\* Server i becomes leader of term U; nobody else moves.
Wins(i, U) ==
    /\ elected' = elected \cup {<<U, i>>} /\ <<U, i>> \notin elected
    /\ U >= 1 /\ currentTerm[i] <= U /\ currentTerm'[i] = U /\ state'[i] = Leader
    /\ matchIndex'[i] = [p \in Server |-> IF p = i THEN lastLogIndex(i) ELSE 0]
    /\ \A j \in Server : j # i =>
         /\ currentTerm'[j] = currentTerm[j] /\ state'[j] = state[j]
         /\ matchIndex'[j] = matchIndex[j]
    /\ UNCHANGED <<committed, logs, lastIncludedIndex, lastIncludedTerm, commitIndex,
                   lastApplied, pendingSnapshot>>
    /\ votesCast' \subseteq votesCast \cup {<<U, i, i>>}
    /\ rpcs' \subseteq rpcs

\* The winner has what its voters had acknowledged.
Trusted(h, i, U) ==
    \A p \in Server : <<U, p, i>> \in votesCast' =>
      \A t \in Nat : \A n \in 1..h.acked[p][t] :
        t < U /\ Created(h, n, t) => Holds(h, i, n, t) \/ Blocked(h, n, t)

\* Nobody had led the term, so nothing is known of its log.
LEMMA FreshTerm ==
  ASSUME TypeOK, ElectionSafety', NEW h, LogInv(h), NEW i \in Server, NEW U \in Nat, Wins(i, U)
  PROVE  /\ \A j \in Server : <<U, j>> \notin elected
         /\ h.len[U] = 0 /\ \A q \in Server : h.acked[q][U] = 0
         /\ lastLogTerm(i) < U
<1>1. Lineage(h) /\ h \in History /\ Stored(h, i) /\ \A q \in Server : Acked(h, q)
  BY DEF LogInv, Lineage
<1>2. ASSUME NEW j \in Server, <<U, j>> \in elected PROVE FALSE
  <2>1. <<U, j>> \in elected' /\ <<U, i>> \in elected' /\ <<U, i>> \notin elected
    BY <1>2 DEF Wins
  <2>2. j = i
    BY <2>1 DEF ElectionSafety
  <2> QED BY <1>2, <2>1, <2>2
<1>3. h.len[U] \in Nat /\ \A q \in Server : h.acked[q][U] \in Nat
  BY <1>1, HistoryTypes
<1>4. ~(h.len[U] > 0)
  BY <1>1, <1>2 DEF Lineage
<1>5. h.len[U] = 0
  BY <1>3, <1>4
<1>6. ASSUME NEW q \in Server PROVE h.acked[q][U] = 0
  <2>1. h.acked[q][U] <= h.len[U]
    BY <1>1 DEF Acked
  <2> QED BY <1>3, <1>5, <2>1
<1>7. PICK u \in Nat, N \in Nat, c \in Nat :
        u = lastLogTerm(i) /\ N = lastLogIndex(i) /\ c = currentTerm[i]
  BY <1>1, ServerLog
<1>8. N <= h.len[u] /\ h.log[u][N].Term = u
  BY <1>1, <1>7, ServerLog
<1>9. u <= c /\ c <= U /\ U >= 1
  BY <1>1, <1>7 DEF Stored, Wins
<1>10. u # U
  <2> SUFFICES ASSUME u = U PROVE FALSE
    OBVIOUS
  <2>1. N = 0
    BY <1>5, <1>8
  <2>2. h.log[u][0] = [Term |-> 0, Command |-> None]
    BY <1>1 DEF Lineage
  <2>3. u = 0
    BY <1>8, <2>1, <2>2
  <2> QED BY <1>9, <2>3
<1>11. u < U
  BY <1>9, <1>10
<1> QED BY <1>2, <1>5, <1>6, <1>7, <1>11

\* The history of the new leader: its log is that of the leader it last followed.
LEMMA WinnerHistory ==
  ASSUME TypeOK, ElectionSafety', NEW h, LogInv(h), NEW i \in Server, NEW U \in Nat, Wins(i, U),
         NEW N \in Nat, N = lastLogIndex(i), NEW u \in Nat, u = lastLogTerm(i)
  PROVE  \E g : /\ Grown(h, g, i, U) /\ g.len[U] = N /\ g.log[U] = h.log[u] /\ Lineage(g)'
                /\ \A n \in Nat : ~Created(g, n, U)
<1>1. Lineage(h) /\ h \in History /\ Stored(h, i)
  BY DEF LogInv, Lineage
<1>2. /\ \A j \in Server : <<U, j>> \notin elected
      /\ h.len[U] = 0 /\ h.acked[i][U] = 0 /\ u < U
  BY FreshTerm
<1>3. N <= h.len[u] /\ h.len[u] \in Nat /\ h.log[u] \in [Nat -> Entry]
  <2>1. N <= h.len[u]
    BY <1>1, ServerLog
  <2>2. h.len[u] \in Nat /\ h.log[u] \in [Nat -> Entry]
    BY <1>1 DEF History
  <2> QED BY <2>1, <2>2
<1>4. \A s \in Nat : h.log[s][0] = [Term |-> 0, Command |-> None]
  BY <1>1 DEF Lineage
<1>5. PICK g : g = Leads(h, i, U, h.log[u], N)
  OBVIOUS
<1>6. Grown(h, g, i, U) /\ g.log[U] = h.log[u] /\ g.len[U] = N
  <2>1. currentTerm[i] <= U
    BY DEF Wins
  <2>2. h.len[U] <= N /\ h.acked[i][U] <= N
    BY <1>2
  <2>3. \A k \in 0..h.len[U] : h.log[u][k] = h.log[U][k]
    <3>1. \A k \in 0..h.len[U] : k = 0
      BY <1>2
    <3> QED BY <1>4, <3>1
  <2> QED BY <1>1, <1>3, <1>5, <2>1, <2>2, <2>3, LeadsExtends
<1>7. /\ Extends(h, g)
      /\ \A s \in Nat : s # U => g.log[s] = h.log[s] /\ g.len[s] = h.len[s]
  BY <1>6 DEF Grown
<1>8. ASSUME NEW k \in 1..N, NEW v, v = h.log[u][k].Term
      PROVE  v \in 1..U /\ v # U /\ k <= g.len[v] /\ Same(g, v, U, k)
  <2>1. k \in 1..h.len[u]
    BY <1>3
  <2>2. v \in 1..u /\ k <= h.len[v] /\ Same(h, v, u, k)
    BY <1>1, <1>8, <2>1 DEF Lineage
  <2>3. v \in 1..U /\ v # U /\ v \in Nat
    BY <1>2, <2>2
  <2>4. g.len[v] = h.len[v] /\ g.log[v] = h.log[v]
    BY <1>7, <2>3
  <2>5. Same(g, v, U, k)
    BY <1>6, <2>2, <2>4 DEF Same
  <2> QED BY <2>2, <2>3, <2>4, <2>5
<1>9. Lineage(g)'
  <2>1. elected \subseteq elected' /\ \E j \in Server : <<U, j>> \in elected'
    BY DEF Wins
  <2>2. g.log[U][0] = [Term |-> 0, Command |-> None]
    BY <1>4, <1>6
  <2>3. \A k \in 1..g.len[U] :
          LET v == g.log[U][k].Term IN v \in 1..U /\ k <= g.len[v] /\ Same(g, v, U, k)
    BY <1>6, <1>8
  <2>4. \A k \in 0..g.len[U] : \A j \in 0..k : g.log[U][j].Term <= g.log[U][k].Term
    <3>1. \A k \in 0..N : k \in 0..h.len[u]
      BY <1>3
    <3> QED BY <1>1, <1>6, <3>1 DEF Lineage
  <2> QED BY <1>1, <1>7, <2>1, <2>2, <2>3, <2>4, LeadsLineage
<1>10. ASSUME NEW n \in Nat, Created(g, n, U) PROVE FALSE
  <2>1. n \in 1..N /\ h.log[u][n].Term = U
    BY <1>6, <1>10 DEF Created
  <2> QED BY <1>8, <2>1
<1> QED BY <1>6, <1>9, <1>10

\* Election is an advance.
LEMMA WinsAdvances ==
  ASSUME TypeOK, TypeOK', NEW h, LogInv(h), NEW i \in Server, NEW U \in Nat, Wins(i, U)
  PROVE  Advances /\ \A j \in Server : currentTerm[j] <= currentTerm'[j] /\ Keeps(j)
<1>1. ASSUME NEW j \in Server PROVE currentTerm[j] <= currentTerm'[j]
  <2>1. currentTerm[j] \in Nat
    BY DEF TypeOK
  <2>2. j # i => currentTerm'[j] = currentTerm[j]
    BY DEF Wins
  <2>3. currentTerm[i] <= currentTerm'[i]
    BY DEF Wins
  <2> QED BY <2>1, <2>2, <2>3
<1>2. \A j \in Server : Keeps(j)
  BY DEF Wins, Keeps, lastLogTerm, lastLogIndex
<1>3. \A j \in Server : state'[j] = Candidate => state[j] = Candidate
  BY DEF Wins, Leader, Candidate
<1>4. elected \subseteq elected' /\ committed' = committed
  BY DEF Wins
<1>5. Len(committed) <= Len(committed')
  <2>1. Len(committed) \in Nat
    BY DEF LogInv, Agreed
  <2> QED BY <1>4, <2>1
<1> QED BY <1>1, <1>2, <1>3, <1>4, <1>5 DEF Advances, Keeps

\* Leader completeness: the new leader's voters had all that was acknowledged
\* by a majority.
LEMMA WinnerComplete ==
  ASSUME TypeOK, TypeOK', ElectionInv', NEW h, LogInv(h), NEW i \in Server, NEW U \in Nat,
         Wins(i, U), Trusted(h, i, U), Advances,
         NEW N \in Nat, N = lastLogIndex(i), NEW u \in Nat, u = lastLogTerm(i),
         NEW g, Grown(h, g, i, U), g.len[U] = N, g.log[U] = h.log[u],
         \A n \in Nat : ~Created(g, n, U)
  PROVE  Complete(g)'
<1>1. Lineage(h) /\ h \in History /\ Complete(h)
  BY DEF LogInv, Lineage
<1>2. /\ Extends(h, g) /\ g \in History
      /\ \A s \in Nat : s # U => g.len[s] = h.len[s] /\ g.acked[i][s] = h.acked[i][s]
      /\ \A j \in Server : j # i => g.acked[j] = h.acked[j]
  BY DEF Grown, Extends
<1> SUFFICES ASSUME NEW e \in elected', NEW t \in Nat, NEW n \in 1..g.len[t],
                    t < e[1], Created(g, n, t)
             PROVE  Contains(g, e[1], n, t) \/ Blocked(g, n, t)'
  BY DEF Complete
<1>3. g.len[t] \in Nat /\ n \in Nat
  BY <1>2, HistoryTypes
<1>4. t # U
  BY <1>3
<1>5. g.len[t] = h.len[t] /\ n <= h.len[t] /\ Created(h, n, t)
  <2>1. g.len[t] = h.len[t]
    BY <1>2, <1>4
  <2>2. n <= h.len[t]
    BY <1>3, <2>1
  <2> QED BY <1>2, <2>1, <2>2, CreatedStays
<1>6. CASE e \in elected
  BY <1>1, <1>2, <1>3, <1>5, <1>6, CompleteStays
<1>7. CASE e = <<U, i>>
  <2>1. e[1] = U /\ t < U
    BY <1>7
  <2>2. CASE Blocked(h, n, t)
    BY <1>2, <2>2, BlockedStays
  <2>3. CASE Holds(h, i, n, t)
    <3>1. n <= N /\ h.log[u][n].Term = t
      BY <2>3 DEF Holds
    <3> QED BY <2>1, <3>1 DEF Contains
  <2>4. PICK Q : Q = {p \in Server : <<U, p, i>> \in votesCast'}
    OBVIOUS
  <2>5. Q \in Majorities
    <3>1. IsMajority(Cardinality(Voters(e[1], e[2])'))
      BY DEF ElectionInv, ElectedByMajority
    <3>2. Voters(e[1], e[2])' = Q
      BY <1>7, <2>4 DEF Voters
    <3> QED BY <2>4, <3>1, <3>2 DEF Majorities
  <2>6. CASE \E p \in Q : h.acked[p][t] >= n
    <3>1. PICK p \in Q : h.acked[p][t] >= n
      BY <2>6
    <3>2. p \in Server /\ <<U, p, i>> \in votesCast'
      BY <2>4
    <3>3. h.acked[p][t] \in Nat
      BY <1>1, <3>2, HistoryTypes
    <3>4. n \in 1..h.acked[p][t]
      BY <1>3, <3>1, <3>3
    <3>5. Holds(h, i, n, t) \/ Blocked(h, n, t)
      BY <1>5, <2>1, <3>2, <3>4 DEF Trusted
    <3> QED BY <2>2, <2>3, <3>5
  <2>7. CASE ~\E p \in Q : h.acked[p][t] >= n
    <3>1. ASSUME NEW p \in Q PROVE currentTerm'[p] > t /\ g.acked[p][t] < n
      <4>1. p \in Server /\ <<U, p, i>> \in votesCast'
        BY <2>4
      <4>2. U <= currentTerm'[p]
        BY <4>1 DEF ElectionInv, VotesBind
      <4>3. currentTerm'[p] \in Nat
        BY <4>1 DEF TypeOK
      <4>4. h.acked[p][t] \in Nat
        BY <1>1, <4>1, HistoryTypes
      <4>5. g.acked[p][t] = h.acked[p][t]
        BY <1>2, <1>4, <4>1
      <4>6. currentTerm'[p] > t
        BY <2>1, <4>2, <4>3
      <4>7. h.acked[p][t] < n
        BY <1>3, <2>7, <4>4
      <4> QED BY <4>5, <4>6, <4>7
    <3> QED BY <2>5, <3>1 DEF Blocked
  <2> QED BY <2>6, <2>7
<1> QED BY <1>6, <1>7 DEF Wins

\* The new leader itself.
LEMMA WinnerAcked ==
  ASSUME TypeOK, TypeOK', NEW h, LogInv(h), NEW i \in Server, NEW U \in Nat, Wins(i, U),
         Advances, Keeps(i), NEW N \in Nat, N = lastLogIndex(i),
         NEW u \in Nat, u = lastLogTerm(i), u < U,
         NEW g, Grown(h, g, i, U), g.len[U] = N, g.log[U] = h.log[u],
         \A n \in Nat : ~Created(g, n, U)
  PROVE  /\ Same(g, u, U, N)
         /\ Acked(g, i)'
         /\ Role(g, i)'
<1>1. Lineage(h) /\ h \in History /\ Stored(h, i) /\ Acked(h, i)
  BY DEF LogInv, Lineage
<1>2. /\ Extends(h, g) /\ g \in History /\ g.acked[i][U] = N
      /\ \A s \in Nat : s # U =>
           g.log[s] = h.log[s] /\ g.len[s] = h.len[s] /\ g.acked[i][s] = h.acked[i][s]
  BY DEF Grown, Extends
<1>3. Same(g, u, U, N)
  <2>1. g.log[u] = g.log[U]
    BY <1>2
  <2> QED BY <2>1 DEF Same
<1>4. /\ currentTerm'[i] = U /\ lastLogTerm(i)' = u /\ lastLogIndex(i)' = N
      /\ currentTerm[i] \in Nat /\ currentTerm[i] <= U /\ U >= 1 /\ state'[i] = Leader
  BY DEF Wins, Keeps, TypeOK
<1>5. Acked(g, i)'
  <2> SUFFICES ASSUME NEW s \in Nat
               PROVE  /\ g.acked[i][s] <= g.len[s]
                      /\ g.acked[i][s] > 0 => s <= U
                      /\ s = U => g.acked[i][s] <= N /\ Same(g, u, s, g.acked[i][s])
                      /\ \A n \in 1..g.acked[i][s] :
                           Created(g, n, s) => Holds(g, i, n, s)' \/ Blocked(g, n, s)'
    BY <1>4 DEF Acked
  <2>1. CASE s = U
    <3>1. N <= N /\ U <= U
      OBVIOUS
    <3>2. \A n \in 1..N : n \in Nat
      OBVIOUS
    <3> QED BY <1>2, <1>3, <2>1, <3>1, <3>2
  <2>2. CASE s # U
    <3>1. g.len[s] = h.len[s] /\ g.acked[i][s] = h.acked[i][s]
      BY <1>2, <2>2
    <3>2. PICK a \in Nat, z \in Nat : a = h.acked[i][s] /\ z = h.len[s]
      BY <1>1, HistoryTypes
    <3>3. a <= z /\ (a > 0 => s <= currentTerm[i])
      BY <1>1, <3>2 DEF Acked
    <3>4. ASSUME NEW n \in 1..a, Created(g, n, s)
          PROVE  Holds(g, i, n, s)' \/ Blocked(g, n, s)'
      <4>1. n \in Nat /\ n <= h.len[s]
        BY <3>2, <3>3
      <4>2. Created(h, n, s)
        BY <1>2, <3>4, <4>1, CreatedStays
      <4>3. Holds(h, i, n, s) \/ Blocked(h, n, s)
        BY <1>1, <3>2, <4>2 DEF Acked
      <4>4. Holds(h, i, n, s) => Holds(g, i, n, s)'
        BY <1>1, <1>2, <4>1, HoldsStays
      <4>5. Blocked(h, n, s) => Blocked(g, n, s)'
        BY <1>2, BlockedStays
      <4> QED BY <4>3, <4>4, <4>5
    <3>5. a > 0 => s <= U
      BY <1>4, <3>3
    <3> QED BY <2>2, <3>1, <3>2, <3>3, <3>4, <3>5
  <2> QED BY <2>1, <2>2
<1>6. Role(g, i)'
  <2>1. ASSUME NEW p \in Server PROVE matchIndex'[i][p] <= g.acked[p][U]
    <3>1. matchIndex'[i][p] = IF p = i THEN N ELSE 0
      BY DEF Wins
    <3>2. PICK a \in Nat : a = g.acked[p][U]
      BY <1>2, HistoryTypes
    <3>3. p = i => a = N
      BY <1>2, <3>2
    <3>4. N <= N /\ 0 <= a
      OBVIOUS
    <3> QED BY <3>1, <3>2, <3>3, <3>4
  <2>2. Leader # Candidate
    BY DEF Leader, Candidate
  <2> QED BY <1>3, <1>4, <2>1, <2>2 DEF Role
<1> QED BY <1>3, <1>5, <1>6

\* The roles of the others.
LEMMA LosersRole ==
  ASSUME TypeOK, ElectionInv, NEW h, LogInv(h), NEW i \in Server, NEW U \in Nat, Wins(i, U),
         \A j \in Server : <<U, j>> \notin elected,
         NEW g, Grown(h, g, i, U), NEW j \in Server, j # i, Keeps(j)
  PROVE  Role(g, j)'
<1>1. Lineage(h) /\ h \in History /\ Stored(h, j) /\ Role(h, j)
  BY DEF LogInv, Lineage
<1>2. /\ Extends(h, g) /\ g \in History
      /\ \A s \in Nat : s # U => g.log[s] = h.log[s] /\ g.len[s] = h.len[s]
  BY DEF Grown, Extends
<1>3. /\ currentTerm'[j] = currentTerm[j] /\ state'[j] = state[j]
      /\ matchIndex'[j] = matchIndex[j]
      /\ elected' = elected \cup {<<U, i>>}
  BY DEF Wins
<1>4. PICK s \in Nat, v \in Nat, z \in Nat :
        s = currentTerm[j] /\ v = lastLogTerm(j) /\ z = lastLogIndex(j)
  BY <1>1, ServerLog
<1>5. ASSUME state[j] = Leader
      PROVE  /\ z = g.len[s] /\ Same(g, v, s, z)
             /\ \A p \in Server : matchIndex[j][p] <= g.acked[p][s]
  <2>1. <<s, j>> \in elected
    BY <1>4, <1>5 DEF ElectionInv, LeadersElected
  <2>2. s # U
    BY <2>1
  <2>3. z = h.len[s] /\ Same(h, v, s, z) /\ z <= h.len[v]
    <3>1. z = h.len[s] /\ Same(h, v, s, z)
      BY <1>1, <1>4, <1>5 DEF Role
    <3>2. z <= h.len[v]
      BY <1>1, <1>4, ServerLog
    <3> QED BY <3>1, <3>2
  <2>4. Same(g, v, s, z)
    <3>1. z <= h.len[s]
      BY <2>3
    <3> QED BY <1>2, <2>3, <3>1, SameStays
  <2>5. ASSUME NEW p \in Server PROVE matchIndex[j][p] <= g.acked[p][s]
    <3>1. PICK a \in Nat, b \in Nat : a = h.acked[p][s] /\ b = g.acked[p][s]
      BY <1>1, <1>2, HistoryTypes
    <3>2. a <= b
      BY <1>2, <3>1 DEF Extends
    <3>3. matchIndex[j][p] <= a
      BY <1>1, <1>4, <1>5, <3>1 DEF Role
    <3>4. matchIndex[j][p] \in Nat
      BY DEF TypeOK
    <3>5. matchIndex[j][p] <= b
      BY <3>2, <3>3, <3>4
    <3> QED BY <3>1, <3>5
  <2> QED BY <1>2, <2>2, <2>3, <2>4, <2>5
<1>6. state[j] = Candidate => <<currentTerm[j], j>> \notin elected'
  <2>1. <<currentTerm[j], j>> # <<U, i>>
    OBVIOUS
  <2> QED BY <1>1, <1>3, <2>1 DEF Role
<1>7. state[j] # Follower => currentTerm[j] >= 1
  BY <1>1 DEF Role
<1> QED BY <1>3, <1>4, <1>5, <1>6, <1>7 DEF Role, Keeps

\* The invariant after an election.
LEMMA ElectedStep ==
  ASSUME TypeOK, TypeOK', ElectionInv, ElectionInv', ElectionSafety',
         NEW h, LogInv(h), NEW i \in Server, NEW U \in Nat, Wins(i, U), Trusted(h, i, U)
  PROVE  \E g : LogInv(g)'
<1>1. /\ Lineage(h) /\ Terms /\ Complete(h) /\ Agreed(h) /\ h \in History
      /\ \A j \in Server : Stored(h, j) /\ Role(h, j) /\ Acked(h, j) /\ Commits(h, j)
  BY DEF LogInv, Lineage
<1>2. Advances /\ \A j \in Server : currentTerm[j] <= currentTerm'[j] /\ Keeps(j)
  BY WinsAdvances
<1>3. PICK N \in Nat, u \in Nat : N = lastLogIndex(i) /\ u = lastLogTerm(i)
  BY <1>1, ServerLog
<1>4. (\A j \in Server : <<U, j>> \notin elected) /\ u < U
  BY <1>3, FreshTerm
<1>5. PICK g : /\ Grown(h, g, i, U) /\ g.len[U] = N /\ g.log[U] = h.log[u] /\ Lineage(g)'
               /\ \A n \in Nat : ~Created(g, n, U)
  BY <1>3, WinnerHistory
<1>6. Extends(h, g) /\ \A j \in Server : j # i => g.acked[j] = h.acked[j]
  BY <1>5 DEF Grown
<1>7. Complete(g)'
  BY <1>2, <1>3, <1>5, WinnerComplete
<1>8. committed' = committed /\ committed \in Seq(Entry)
  BY <1>1 DEF Wins, Agreed
<1>9. Agreed(g)'
  BY <1>1, <1>6, <1>8, AgreedStays
<1>10. Terms'
  <2>1. ASSUME NEW e \in elected' PROVE e[1] >= 1 /\ e[1] <= currentTerm'[e[2]]
    <3>1. CASE e \in elected
      <4>1. e[1] \in Nat /\ e[2] \in Server
        BY <3>1 DEF TypeOK
      <4>2. currentTerm[e[2]] \in Nat /\ currentTerm'[e[2]] \in Nat
        BY <4>1 DEF TypeOK
      <4>3. e[1] >= 1 /\ e[1] <= currentTerm[e[2]]
        BY <1>1, <3>1 DEF Terms
      <4>4. currentTerm[e[2]] <= currentTerm'[e[2]]
        BY <1>2, <4>1
      <4> QED BY <4>1, <4>2, <4>3, <4>4
    <3>2. CASE e = <<U, i>>
      <4>1. currentTerm'[i] = U /\ U >= 1 /\ U <= U
        BY DEF Wins
      <4> QED BY <3>2, <4>1
    <3> QED BY <3>1, <3>2 DEF Wins
  <2>2. ASSUME NEW v \in votesCast' PROVE v[1] <= currentTerm'[v[3]]
    <3>1. CASE v \in votesCast
      <4>1. v[1] \in Nat /\ v[3] \in Server
        BY <3>1 DEF TypeOK
      <4>2. currentTerm[v[3]] \in Nat /\ currentTerm'[v[3]] \in Nat
        BY <4>1 DEF TypeOK
      <4>3. v[1] <= currentTerm[v[3]]
        BY <1>1, <3>1 DEF Terms
      <4>4. currentTerm[v[3]] <= currentTerm'[v[3]]
        BY <1>2, <4>1
      <4> QED BY <4>1, <4>2, <4>3, <4>4
    <3>2. CASE v = <<U, i, i>>
      <4>1. currentTerm'[i] = U /\ U <= U
        BY DEF Wins
      <4> QED BY <3>2, <4>1
    <3> QED BY <3>1, <3>2 DEF Wins
  <2> QED BY <2>1, <2>2 DEF Terms
<1>11. ASSUME NEW v \in votesCast' PROVE Ballot(g, v)'
  <2>1. CASE v \in votesCast
    BY <1>2, <1>6, <2>1, BallotStays
  <2>2. CASE v = <<U, i, i>>
    <3>1. state'[v[3]] # Candidate
      BY <2>2 DEF Wins, Leader, Candidate
    <3> QED BY <3>1 DEF Ballot
  <2> QED BY <2>1, <2>2 DEF Wins
<1>12. ASSUME NEW m \in rpcs' PROVE Sound(g, m)'
  <2>1. m \in rpcs
    BY DEF Wins
  <2>2. m \in RPC /\ Sound(h, m)
    BY <2>1 DEF TypeOK, LogInv
  <2> QED BY <1>2, <1>6, <1>8, <2>2, SoundStays
<1>13. ASSUME NEW j \in Server PROVE Stored(g, j)' /\ Commits(g, j)'
  <2>1. /\ logs'[j] = logs[j] /\ lastIncludedIndex'[j] = lastIncludedIndex[j]
        /\ lastIncludedTerm'[j] = lastIncludedTerm[j] /\ commitIndex'[j] = commitIndex[j]
        /\ lastApplied'[j] = lastApplied[j] /\ pendingSnapshot'[j] = pendingSnapshot[j]
    BY DEF Wins
  <2>2. Stored(g, j)' /\ Keeps(j)
    BY <1>1, <1>2, <1>6, <2>1, StoredStays
  <2>3. /\ commitIndex'[j] <= commitIndex[j] /\ lastIncludedIndex'[j] <= commitIndex'[j]
        /\ lastApplied'[j] <= commitIndex'[j]
        /\ pendingSnapshot'[j] # None => pendingSnapshot'[j].Index <= commitIndex'[j]
    <3>1. commitIndex[j] \in Nat
      BY DEF TypeOK
    <3> QED BY <1>1, <2>1, <3>1 DEF Commits
  <2> QED BY <1>1, <1>2, <1>6, <1>8, <2>2, <2>3, CommitsStays
<1>14. Acked(g, i)' /\ Role(g, i)'
  BY <1>2, <1>3, <1>4, <1>5, WinnerAcked
<1>15. ASSUME NEW j \in Server, j # i PROVE Acked(g, j)' /\ Role(g, j)'
  <2>1. Acked(g, j)'
    BY <1>1, <1>2, <1>6, <1>15, AckedStays
  <2>2. Role(g, j)'
    BY <1>2, <1>4, <1>5, <1>15, LosersRole
  <2> QED BY <2>1, <2>2
<1>16. \A j \in Server : Stored(g, j)' /\ Role(g, j)' /\ Acked(g, j)' /\ Commits(g, j)'
  BY <1>13, <1>14, <1>15
<1>17. LogInv(g)'
  BY <1>5, <1>7, <1>9, <1>10, <1>11, <1>12, <1>16 DEF LogInv
<1> QED BY <1>17

\* RequestVoteReply that completes the majority.
LEMMA LogRequestVoteReply ==
  ASSUME TypeOK, TypeOK', ElectionInv, ElectionInv', ElectionSafety',
         NEW h, LogInv(h), NEW m \in rpcs, RequestVoteReply(m)
  PROVE  \E g : LogInv(g)'
<1>1. m \in RequestVoteReplies
  BY RPCTypes DEF TypeOK, RequestVoteReply
<1>2. PICK i \in Server : i = m.to
  BY <1>1 DEF RequestVoteReplies
<1>3. CASE ~becomeLeader(m.to)
  <2>1. LogInv(h)'
    BY <1>3, CalmRequestVoteReply, CalmStep
  <2> QED BY <2>1
<1>4. CASE becomeLeader(m.to)
  <2>1. state'[i] = Leader /\ elected' = elected \cup {<<currentTerm'[i], i>>}
    BY <1>2, <1>4 DEF becomeLeader, TypeOK
  <2>2. CASE state[i] = Candidate /\ UNCHANGED persistent
    <3>1. PICK U \in Nat : U = currentTerm[i]
      BY DEF TypeOK
    <3>2. UNCHANGED <<currentTerm, logs, lastIncludedIndex, lastIncludedTerm>>
      BY <2>2 DEF persistent
    <3>3. Role(h, i) /\ \A v \in votesCast : Ballot(h, v)
      BY DEF LogInv
    <3>4. <<U, i>> \notin elected /\ U >= 1
      BY <2>2, <3>1, <3>3 DEF Role, Candidate, Follower
    <3>5. /\ votesCast' = votesCast /\ rpcs' \subseteq rpcs
          /\ UNCHANGED <<commitIndex, lastApplied, pendingSnapshot, committed>>
      BY DEF RequestVoteReply
    <3>6. /\ matchIndex'[i] = [p \in Server |-> IF p = i THEN lastLogIndex(i) ELSE 0]
          /\ \A j \in Server : j # i =>
               state'[j] = state[j] /\ matchIndex'[j] = matchIndex[j]
      <4>1. /\ matchIndex' = [matchIndex EXCEPT ![i] =
                  [p \in Server |-> IF p = i THEN lastLogIndex(i) ELSE 0]]
            /\ state' = [state EXCEPT ![i] = Leader]
        BY <1>2, <1>4 DEF becomeLeader
      <4>2. matchIndex \in [Server -> [Server -> Nat]]
            /\ state \in [Server -> {Follower, Candidate, Leader}]
        BY DEF TypeOK
      <4> QED BY <4>1, <4>2
    <3>7. Wins(i, U)
      <4>1. U <= U /\ currentTerm[i] <= U /\ currentTerm'[i] = U
        BY <3>1, <3>2
      <4>2. elected' = elected \cup {<<U, i>>}
        BY <2>1, <4>1
      <4>3. UNCHANGED <<committed, logs, lastIncludedIndex, lastIncludedTerm, commitIndex,
                        lastApplied, pendingSnapshot>>
        BY <3>2, <3>5
      <4> QED BY <2>1, <3>2, <3>4, <3>5, <3>6, <4>1, <4>2, <4>3 DEF Wins
    <3>8. Trusted(h, i, U)
      <4> SUFFICES ASSUME NEW p \in Server, <<U, p, i>> \in votesCast,
                          NEW t \in Nat, NEW n \in 1..h.acked[p][t], t < U, Created(h, n, t)
                   PROVE  Holds(h, i, n, t) \/ Blocked(h, n, t)
        BY <3>5 DEF Trusted
      <4>1. PICK v : v = <<U, p, i>>
        OBVIOUS
      <4>2. Ballot(h, v) /\ v[1] = U /\ v[2] = p /\ v[3] = i
        BY <3>3, <4>1
      <4> QED BY <2>2, <3>1, <4>2 DEF Ballot
    <3> QED BY <3>7, <3>8, ElectedStep
  <2>3. CASE ~(state[i] = Candidate /\ UNCHANGED persistent)
    <3>1. LogInv(h)'
      <4>1. m.Term \in Nat
        BY <1>1 DEF RequestVoteReplies
      <4>2. state'[i] = Follower \/ elected' = elected
        BY <1>2, <2>3 DEF RequestVoteReply, stepDown, becomeFollower, TypeOK
      <4>3. state'[i] # Follower
        BY <2>1 DEF Leader, Follower
      <4>4. UNCHANGED <<persistent, state, leadership, elected>>
        BY <1>2, <2>3, <4>2, <4>3 DEF RequestVoteReply, stepDown, becomeFollower, TypeOK
      <4>5. UNCHANGED <<elected, committed, votesCast, storage, currentTerm, state>>
            /\ rpcs' \ rpcs = {}
        BY <4>4 DEF RequestVoteReply, storage, persistent, leadership
      <4>6. Calm(h)
        BY <4>5, CalmUnchanged
      <4> QED BY <4>6, CalmStep
    <3> QED BY <3>1
  <2> QED BY <2>2, <2>3
<1> QED BY <1>3, <1>4

\* startElection of a server that is a majority on its own.
LEMMA LogStartElection ==
  ASSUME TypeOK, TypeOK', ElectionInv, ElectionInv', ElectionSafety', NEW h, LogInv(h),
         NEW i \in Server, NEW reach \in SUBSET (Server \ {i}), startElection(i, reach)
  PROVE  \E g : LogInv(g)'
<1>1. CASE ~IsMajority(1)
  <2>1. LogInv(h)'
    BY <1>1, CalmStartElection, CalmStep
  <2> QED BY <2>1
<1>2. CASE IsMajority(1)
  <2>1. PICK c \in Nat, U \in Nat : c = currentTerm[i] /\ U = c + 1
    <3>1. currentTerm[i] \in Nat
      BY DEF TypeOK
    <3> QED BY <3>1
  <2>2. /\ currentTerm' = [currentTerm EXCEPT ![i] = currentTerm[i] + 1]
        /\ votesCast' = votesCast \cup {<<currentTerm[i] + 1, i, i>>}
        /\ becomeLeader(i) /\ UNCHANGED rpcs
        /\ UNCHANGED <<committed, logs, lastIncludedIndex, lastIncludedTerm, commitIndex,
                       lastApplied, pendingSnapshot>>
    BY <1>2 DEF startElection
  <2>3. /\ currentTerm \in [Server -> Nat] /\ matchIndex \in [Server -> [Server -> Nat]]
        /\ state \in [Server -> {Follower, Candidate, Leader}]
    BY DEF TypeOK
  <2>4. currentTerm'[i] = U /\ \A j \in Server : j # i => currentTerm'[j] = currentTerm[j]
    BY <2>1, <2>2, <2>3
  <2>5. votesCast' = votesCast \cup {<<U, i, i>>}
    BY <2>1, <2>2
  <2>6. /\ matchIndex' = [matchIndex EXCEPT ![i] =
              [p \in Server |-> IF p = i THEN lastLogIndex(i) ELSE 0]]
        /\ state' = [state EXCEPT ![i] = Leader]
        /\ elected' = elected \cup {<<U, i>>}
    BY <2>2, <2>4 DEF becomeLeader
  <2>7. /\ matchIndex'[i] = [p \in Server |-> IF p = i THEN lastLogIndex(i) ELSE 0]
        /\ state'[i] = Leader
        /\ \A j \in Server : j # i =>
             state'[j] = state[j] /\ matchIndex'[j] = matchIndex[j]
    BY <2>3, <2>6
  <2>8. Terms /\ Acked(h, i)
    BY DEF LogInv
  <2>9. <<U, i>> \notin elected
    <3> SUFFICES ASSUME <<U, i>> \in elected PROVE FALSE
      OBVIOUS
    <3>1. PICK e \in elected : e = <<U, i>>
      OBVIOUS
    <3>2. e[1] <= currentTerm[e[2]]
      BY <2>8 DEF Terms
    <3>3. U <= c
      BY <2>1, <3>1, <3>2
    <3> QED BY <2>1, <3>3
  <2>10. Wins(i, U)
    <3>1. U >= 1 /\ currentTerm[i] <= U
      BY <2>1
    <3>2. votesCast' \subseteq votesCast \cup {<<U, i, i>>} /\ rpcs' \subseteq rpcs
      BY <2>2, <2>5
    <3> QED BY <2>2, <2>4, <2>6, <2>7, <2>9, <3>1, <3>2 DEF Wins
  <2>11. Trusted(h, i, U)
    <3> SUFFICES ASSUME NEW p \in Server, <<U, p, i>> \in votesCast',
                        NEW t \in Nat, NEW n \in 1..h.acked[p][t], t < U, Created(h, n, t)
                 PROVE  Holds(h, i, n, t) \/ Blocked(h, n, t)
      BY DEF Trusted
    <3>1. <<U, p, i>> \notin votesCast
      <4> SUFFICES ASSUME <<U, p, i>> \in votesCast PROVE FALSE
        OBVIOUS
      <4>1. PICK v \in votesCast : v = <<U, p, i>>
        OBVIOUS
      <4>2. v[1] <= currentTerm[v[3]]
        BY <2>8 DEF Terms
      <4>3. U <= c
        BY <2>1, <4>1, <4>2
      <4> QED BY <2>1, <4>3
    <3>2. p = i
      BY <2>5, <3>1
    <3> QED BY <2>8, <3>2 DEF Acked
  <2> QED BY <2>10, <2>11, ElectedStep
<1> QED BY <1>1, <1>2

\* A history explains the initial state: no leader, no entry.
LEMMA LogInit ==
  ASSUME Init
  PROVE  \E h : LogInv(h)
<1>1. PICK d : d = [Term |-> 0, Command |-> None]
  OBVIOUS
<1>2. d \in Entry
  BY <1>1 DEF Entry
<1>3. PICK lg \in [Nat -> [Nat -> Entry]] : lg = [t \in Nat |-> [k \in Nat |-> d]]
  BY <1>2
<1>4. PICK ln \in [Nat -> Nat] : ln = [t \in Nat |-> 0]
  OBVIOUS
<1>5. PICK ak \in [Server -> [Nat -> Nat]] : ak = [q \in Server |-> [t \in Nat |-> 0]]
  OBVIOUS
<1>6. PICK h : h = [log |-> lg, len |-> ln, acked |-> ak]
  OBVIOUS
<1>7. h \in History /\ h.log = lg /\ h.len = ln /\ h.acked = ak
  BY <1>6 DEF History
<1>8. /\ \A t, k \in Nat : h.log[t][k] = d
      /\ \A t \in Nat : h.len[t] = 0
      /\ \A q \in Server, t \in Nat : h.acked[q][t] = 0
  BY <1>3, <1>4, <1>5, <1>7
<1>9. 0 \in Nat /\ 0 <= 0 /\ ~(0 > 0) /\ 1..0 = {} /\ 0..0 = {0}
  OBVIOUS
<1>10. Lineage(h)
  <2>1. \A t \in Nat : \A k \in 0..h.len[t] : \A j \in 0..k :
          h.log[t][j].Term <= h.log[t][k].Term
    <3> SUFFICES ASSUME NEW t \in Nat, NEW k \in 0..h.len[t], NEW j \in 0..k
                 PROVE  h.log[t][j].Term <= h.log[t][k].Term
      OBVIOUS
    <3>1. k = 0
      BY <1>8
    <3>2. j = 0
      BY <3>1
    <3>3. h.log[t][0].Term = 0
      BY <1>1, <1>8, <1>9
    <3> QED BY <1>9, <3>1, <3>2, <3>3
  <2>2. \A t \in Nat : h.log[t][0] = [Term |-> 0, Command |-> None]
    BY <1>1, <1>8, <1>9
  <2>3. \A t \in Nat : 1..h.len[t] = {} /\ ~(h.len[t] > 0)
    BY <1>8, <1>9
  <2> QED BY <1>7, <2>1, <2>2, <2>3 DEF Lineage
<1>11. Terms /\ Complete(h) /\ (\A v \in votesCast : Ballot(h, v)) /\ \A m \in rpcs : Sound(h, m)
  BY DEF Init, Terms, Complete
<1>12. Agreed(h)
  <2>1. committed = << >> /\ << >> \in Seq(Entry) /\ Len(<< >>) = 0
    BY DEF Init
  <2> QED BY <1>9, <2>1 DEF Agreed
<1>13. ASSUME NEW i \in Server
       PROVE  Stored(h, i) /\ Role(h, i) /\ Acked(h, i) /\ Commits(h, i)
  <2>1. /\ currentTerm[i] = 0 /\ logs[i] = <<d>> /\ lastIncludedIndex[i] = 0
        /\ lastIncludedTerm[i] = 0 /\ state[i] = Follower /\ commitIndex[i] = 0
        /\ lastApplied[i] = 0 /\ pendingSnapshot[i] = None /\ committed = << >>
    BY <1>1 DEF Init, EmptyLog
  <2>2. Len(<<d>>) = 1 /\ <<d>>[1] = d /\ d.Term = 0 /\ Len(<< >>) = 0
    BY <1>1
  <2>3. lastLogIndex(i) = 0 /\ lastLogTerm(i) = 0 /\ termAt(i, 0) = 0
    BY <2>1, <2>2 DEF lastLogIndex, lastLogTerm, termAt, toOffset
  <2>4. Stored(h, i)
    <3>1. h.log[0][0].Term = 0 /\ h.len[0] = 0
      BY <1>8, <1>9, <2>2
    <3>2. \A k \in 0..0 : k = 0 /\ ~(k > 0)
      OBVIOUS
    <3> QED BY <1>9, <2>1, <2>3, <3>1, <3>2 DEF Stored
  <2>5. Role(h, i)
    BY <2>1 DEF Role, Follower, Candidate, Leader
  <2>6. Acked(h, i)
    <3>1. ASSUME NEW t \in Nat PROVE h.acked[i][t] = 0 /\ h.len[t] = 0
      BY <1>8
    <3>2. ASSUME NEW t \in Nat PROVE Same(h, 0, t, 0)
      <4>1. \A k \in 0..0 : k = 0
        OBVIOUS
      <4> QED BY <1>8, <1>9, <4>1 DEF Same
    <3> QED BY <1>9, <2>3, <3>1, <3>2 DEF Acked
  <2>7. Commits(h, i)
    BY <1>9, <2>1, <2>2, <2>3 DEF Commits, Known
  <2> QED BY <2>4, <2>5, <2>6, <2>7
<1>14. LogInv(h)
  BY <1>10, <1>11, <1>12, <1>13 DEF LogInv
<1> QED BY <1>14

(***************************************************************************)
(* The theorems.                                                           *)
(***************************************************************************)
\* There is a history that explains the state.
Explained == \E h : LogInv(h)

\* Every step keeps or extends the history.
LEMMA LogStep ==
  ASSUME TypeOK, TypeOK', PersistBeforeReply, ElectionInv, ElectionInv', ElectionSafety',
         Explained, [Next]_vars
  PROVE  Explained'
<1>1. PICK h : LogInv(h)
  BY DEF Explained
<1>2. ASSUME Calm(h) PROVE Explained'
  <2>1. LogInv(h)'
    BY <1>1, <1>2, CalmStep
  <2> QED BY <2>1 DEF Explained
<1>3. CASE UNCHANGED vars
  BY <1>1, <1>2, <1>3, CalmOthers
<1>4. ASSUME NEW i \in Server, NEW reach \in SUBSET (Server \ {i}), startElection(i, reach)
      PROVE  Explained'
  BY <1>1, <1>4, LogStartElection DEF Explained
<1>5. ASSUME NEW i \in Server, Start(i) PROVE Explained'
  BY <1>1, <1>5, LogStart DEF Explained
<1>6. ASSUME NEW i \in Server, applier(i) \/ Deliver(i) \/ Snapshot(i) \/ Kill(i) \/ Make(i)
      PROVE  Explained'
  BY <1>1, <1>2, <1>6, CalmApplier, CalmOthers, CalmSnapshot, CalmKill, CalmMake
<1>7. ASSUME NEW i \in Server, NEW p \in Server, Replicate(i, p) \/ Heartbeat(i, p)
      PROVE  Explained'
  BY <1>1, <1>2, <1>7, CalmReplicate
<1>8. ASSUME NEW m \in rpcs, Handle(m) PROVE Explained'
  <2>1. CASE RequestVote(m)
    BY <1>1, <1>2, <2>1, CalmRequestVote
  <2>2. CASE RequestVoteReply(m)
    BY <1>1, <2>2, LogRequestVoteReply DEF Explained
  <2>3. CASE AppendEntries(m)
    BY <1>1, <2>3, LogAppendEntries DEF Explained
  <2>4. CASE AppendEntriesReply(m)
    <3>1. LogInv(h)'
      BY <1>1, <2>4, LogAppendEntriesReply
    <3> QED BY <3>1 DEF Explained
  <2>5. CASE HeartbeatReply(m) \/ DropRPC(m)
    BY <1>1, <1>2, <2>5, CalmOthers
  <2>6. CASE InstallSnapshot(m)
    BY <1>1, <2>6, LogInstallSnapshot DEF Explained
  <2>7. CASE InstallSnapshotReply(m)
    BY <1>1, <1>2, <2>7, CalmInstallSnapshotReply
  <2> QED BY <1>8, <2>1, <2>2, <2>3, <2>4, <2>5, <2>6, <2>7 DEF Handle
<1> QED BY <1>3, <1>4, <1>5, <1>6, <1>7, <1>8 DEF Next

\* In every reachable state a history of the leaders' logs and of what each
\* server acknowledged explains every log, commit index, match index and message
\* in flight (AppendEntries, InstallSnapshot, RequestVote and their replies).
THEOREM LogInvariant == Spec => []Explained
<1>1. Init => Explained
  BY LogInit DEF Explained
<1>2. /\ TypeOK /\ TypeOK' /\ PersistBeforeReply /\ ElectionInv /\ ElectionInv'
      /\ ElectionSafety' /\ Explained /\ [Next]_vars
      => Explained'
  BY LogStep
<1> QED BY <1>1, <1>2, TypeCorrect, Durability, ElectionInvariant, OneLeaderPerTerm, PTL DEF Spec

\* The PrevLog check and the merge of AppendEntries, with conflict truncation,
\* compaction and snapshots: two logs that have the same term at an index agree
\* on everything up to it.
THEOREM LogsMatch == Spec => []LogMatching
<1>1. TypeOK /\ Explained => LogMatching
  BY InvLogMatching DEF Explained
<1> QED BY <1>1, TypeCorrect, LogInvariant, PTL

\* advanceCommitIndex, AppendEntries and InstallSnapshot: no two servers ever
\* commit different entries at an index, and no later leader, restart or
\* snapshot changes what was committed.
THEOREM CommittedOnce == Spec => []StateMachineSafety
<1>1. TypeOK /\ Explained => StateMachineSafety
  BY InvStateMachineSafety DEF Explained
<1> QED BY <1>1, TypeCorrect, LogInvariant, PTL

\* The up-to-date check of RequestVote with the current-term rule of
\* advanceCommitIndex: whoever a majority would vote for stores everything that
\* was ever committed.
THEOREM LeadersComplete == Spec => []ElectableServersHoldCommitted
<1>1. TypeOK /\ Explained => ElectableServersHoldCommitted
  BY InvElectable DEF Explained
<1> QED BY <1>1, TypeCorrect, LogInvariant, PTL

\* The replies of AppendEntries and InstallSnapshot, late or reordered, never
\* make a leader believe that a follower of its term stores more than it does.
THEOREM MatchIndexTruthful == Spec => []MatchIndexSound
<1>1. TypeOK /\ Explained => MatchIndexSound
  BY InvMatchIndexSound DEF Explained
<1> QED BY <1>1, TypeCorrect, LogInvariant, PTL

(***************************************************************************)
(* The service on top of the log.  Between the log and the service are the *)
(* snapshot that waits for the applier, and the batch the applier claimed. *)
(***************************************************************************)
\* What the log guarantees to the service.
Committing ==
    /\ committed \in Seq(Entry) /\ StateMachineSafety
    /\ \A i \in Server : lastIncludedIndex[i] <= commitIndex[i] /\ lastApplied[i] <= commitIndex[i]
    /\ \A m \in rpcs : m.type = "InstallSnapshot" => m.LastIncludedIndex <= Len(committed)

\* The messages that bring entry n, and everything up to n.
EntryMsg(n) == [SnapshotValid |-> FALSE, Index |-> n, Data |-> <<committed[n].Command>>]
SnapshotMsg(n) == [SnapshotValid |-> TRUE, Index |-> n, Data |-> CommandsUpTo(n)]

\* The batch of i takes its service to e, entry by entry or by one snapshot.
Delivers(i, e) ==
    \/ /\ e = appliedIndex[i] + Len(applyCh[i])
       /\ \A k \in 1..Len(applyCh[i]) : applyCh[i][k] = EntryMsg(appliedIndex[i] + k)
    \/ e >= appliedIndex[i] /\ applyCh[i] = <<SnapshotMsg(e)>>

\* The batch ends where the next one begins, or a snapshot bridges the gap.
Claimed(i, e) ==
    /\ e <= lastApplied[i]
    /\ pendingSnapshot[i] = None => e = lastApplied[i]
    /\ pendingSnapshot[i] # None =>
         pendingSnapshot[i] = [Index |-> lastApplied[i], Data |-> CommandsUpTo(lastApplied[i])]

Service(i) ==
    /\ \E e \in Nat : Delivers(i, e) /\ Claimed(i, e)
    /\ lastIncludedIndex[i] <= lastApplied[i]
    /\ applied[i] = CommandsUpTo(appliedIndex[i])
    /\ snapshot[i] = CommandsUpTo(lastIncludedIndex[i])

ServiceInv ==
    /\ \A i \in Server : Service(i)
    /\ \A m \in rpcs : m.type = "InstallSnapshot" => m.Data = CommandsUpTo(m.LastIncludedIndex)

\* What is committed stays.
CommittedGrows ==
    /\ Len(committed) <= Len(committed')
    /\ \A k \in 1..Len(committed) : committed'[k] = committed[k]

\* A commit index that advances stays within the leader's log.
LEMMA AdvanceInLog ==
  ASSUME NEW i \in Server, commitIndex[i] \in Nat, lastIncludedIndex[i] \in Nat,
         NEW log \in Seq(Entry), NEW match
  PROVE  \/ advanceCommitIndex(i, log, match) = commitIndex[i]
         \/ advanceCommitIndex(i, log, match) <= lastIncludedIndex[i] - 1 + Len(log)
<1> DEFINE base == lastIncludedIndex[i] - 1
           low == commitIndex[i] + 1
           high == base + Len(log)
           S == {n \in low..high :
                   /\ n > base
                   /\ log[n - base].Term = currentTerm[i]
                   /\ IsMajority(Cardinality({p \in Server : match[p] >= n}))}
<1>1. low \in Int /\ high \in Int
  BY LenProperties
<1>2. S \subseteq low..high
  OBVIOUS
<1>3. advanceCommitIndex(i, log, match) = IF S = {} THEN commitIndex[i] ELSE Max(S)
  BY DEF advanceCommitIndex
<1>4. high = lastIncludedIndex[i] - 1 + Len(log)
  OBVIOUS
<1> HIDE DEF S, low, high
<1>5. IsFiniteSet(S) /\ S \subseteq Int
  BY <1>1, <1>2, IndexSetFinite
<1>6. CASE S = {}
  BY <1>3, <1>6
<1>7. CASE S # {}
  <2>1. Max(S) \in S
    BY <1>5, <1>7, MaxOfFinite
  <2>2. Max(S) <= high
    BY <1>1, <1>2, <2>1
  <2> QED BY <1>3, <1>4, <1>7, <2>2
<1> QED BY <1>6, <1>7

\* What a leader records follows what was committed.
LEMMA RecordGrows ==
  ASSUME TypeOK, Committing, NEW i \in Server, NEW log \in Seq(Entry), NEW match, NEW c,
         c = commitIndex[i] \/ c = advanceCommitIndex(i, log, match),
         RecordCommit(i, log, c)
  PROVE  CommittedGrows
<1>1. lastIncludedIndex[i] \in Nat /\ commitIndex[i] \in Nat /\ committed \in Seq(Entry)
  BY DEF TypeOK, Committing
<1>2. Len(committed) \in Nat /\ Len(log) \in Nat
  BY <1>1, LenProperties
<1>3. PICK f \in Nat, d \in Nat, C \in Nat, z \in Nat :
        f = lastIncludedIndex[i] /\ d = commitIndex[i] /\ C = Len(committed) /\ z = Len(log)
  BY <1>1, <1>2
<1>4. f <= d /\ d <= C
  BY <1>3 DEF Committing, StateMachineSafety
<1>5. c \in Nat
  BY <1>1, AdvanceType
<1>6. CASE c <= C
  <2>1. committed' = committed
    BY <1>3, <1>6 DEF RecordCommit
  <2>2. C <= C
    OBVIOUS
  <2> QED BY <1>3, <2>1, <2>2 DEF CommittedGrows
<1>7. CASE ~(c <= C)
  <2>1. c = advanceCommitIndex(i, log, match) /\ c # d
    BY <1>3, <1>4, <1>7
  <2>2. c <= f - 1 + z
    BY <1>1, <1>3, <2>1, AdvanceInLog
  <2>3. PICK a \in Nat, b \in Nat : a = C + 2 - f /\ b = c + 1 - f
    <3>1. f <= C /\ f <= c
      BY <1>4, <1>5, <1>7
    <3>2. C + 2 - f \in Nat /\ c + 1 - f \in Nat
      BY <1>5, <3>1
    <3> QED BY <3>2
  <2>4. a >= 1 /\ a <= b + 1 /\ b <= z
    BY <1>4, <1>5, <1>7, <2>2, <2>3
  <2>5. PICK s, P : s = committed /\ P = SubSeq(log, a, b)
    OBVIOUS
  <2>6. committed' = s \o P
    BY <1>3, <1>7, <2>3, <2>5 DEF RecordCommit
  <2>7. P \in Seq(Entry)
    BY <1>3, <2>4, <2>5, Piece
  <2>8. /\ Len(s \o P) = Len(s) + Len(P)
        /\ \A k \in 1..Len(s) : (s \o P)[k] = s[k]
    BY <1>1, <2>5, <2>7, Joined
  <2>9. Len(P) \in Nat
    BY <2>7, LenProperties
  <2>10. C <= C + Len(P)
    BY <2>9
  <2> QED BY <1>3, <2>5, <2>6, <2>8, <2>10 DEF CommittedGrows
<1> QED BY <1>6, <1>7

\* The committed commands up to n stay what they are.
LEMMA CommandsStay ==
  ASSUME CommittedGrows, committed \in Seq(Entry), NEW n \in Nat, n <= Len(committed)
  PROVE  CommandsUpTo(n)' = CommandsUpTo(n)
<1>1. Len(committed) \in Nat
  BY LenProperties
<1>2. PICK old, new : old = committed /\ new = committed'
  OBVIOUS
<1>3. \A k \in 1..n : new[k] = old[k]
  BY <1>1, <1>2 DEF CommittedGrows
<1>4. [k \in 1..n |-> new[k].Command] = [k \in 1..n |-> old[k].Command]
  BY <1>3
<1> QED BY <1>2, <1>4 DEF CommandsUpTo

\* One more command.
LEMMA CommandsAppend ==
  ASSUME committed \in Seq(Entry), NEW n \in Nat
  PROVE  CommandsUpTo(n) \o <<committed[n + 1].Command>> = CommandsUpTo(n + 1)
<1>1. PICK x, s : x = committed[n + 1].Command /\ s = CommandsUpTo(n)
  OBVIOUS
<1>2. s = [k \in 1..n |-> committed[k].Command]
  BY <1>1 DEF CommandsUpTo
<1>3. PICK S : \A k \in 1..n : s[k] \in S
  <2>1. \A k \in 1..n : s[k] \in {s[j] : j \in 1..n}
    OBVIOUS
  <2> QED BY <2>1
<1>4. s \in Seq(S \cup {x}) /\ Len(s) = n
  BY <1>2, <1>3
<1>5. /\ Len(s \o <<x>>) = n + 1
      /\ \A k \in 1..n : (s \o <<x>>)[k] = s[k]
      /\ (s \o <<x>>)[n + 1] = x
  BY <1>4
<1>6. s \o <<x>> \in Seq(S \cup {x})
  BY <1>4
<1>7. s \o <<x>> = [k \in 1..(n + 1) |-> (s \o <<x>>)[k]]
  BY <1>5, <1>6
<1>8. \A k \in 1..(n + 1) : (s \o <<x>>)[k] = committed[k].Command
  <2> SUFFICES ASSUME NEW k \in 1..(n + 1) PROVE (s \o <<x>>)[k] = committed[k].Command
    OBVIOUS
  <2>1. CASE k = n + 1
    BY <1>1, <1>5, <2>1
  <2>2. CASE k # n + 1
    <3>1. k \in 1..n
      BY <2>2
    <3> QED BY <1>2, <1>5, <3>1
  <2> QED BY <2>1, <2>2
<1>9. [k \in 1..(n + 1) |-> (s \o <<x>>)[k]] = [k \in 1..(n + 1) |-> committed[k].Command]
  BY <1>8
<1> QED BY <1>1, <1>7, <1>9 DEF CommandsUpTo

\* A step leaves the service of i, its batch and its snapshots alone.
Undisturbed(i) ==
    /\ appliedIndex'[i] = appliedIndex[i] /\ applied'[i] = applied[i]
    /\ applyCh'[i] = applyCh[i] /\ lastApplied'[i] = lastApplied[i]
    /\ pendingSnapshot'[i] = pendingSnapshot[i]
    /\ snapshot'[i] = snapshot[i] /\ lastIncludedIndex'[i] = lastIncludedIndex[i]

\* A snapshot in flight is one that was in flight before, or a server's own.
Relayed(m) ==
    m.type = "InstallSnapshot" =>
      \/ \E r \in rpcs : /\ r.type = "InstallSnapshot"
                         /\ m.Data = r.Data /\ m.LastIncludedIndex = r.LastIncludedIndex
      \/ \E i \in Server : m.Data = snapshot[i] /\ m.LastIncludedIndex = lastIncludedIndex[i]

\* The indices of a server whose service is in order.
LEMMA ServiceIndices ==
  ASSUME TypeOK, Committing, NEW i \in Server, NEW e \in Nat, Delivers(i, e), Claimed(i, e),
         lastIncludedIndex[i] <= lastApplied[i]
  PROVE  /\ appliedIndex[i] \in Nat /\ lastApplied[i] \in Nat /\ lastIncludedIndex[i] \in Nat
         /\ commitIndex[i] \in Nat /\ Len(committed) \in Nat /\ Len(applyCh[i]) \in Nat
         /\ appliedIndex[i] <= e /\ e <= lastApplied[i] /\ lastApplied[i] <= commitIndex[i]
         /\ commitIndex[i] <= Len(committed)
<1>1. /\ appliedIndex[i] \in Nat /\ lastApplied[i] \in Nat /\ lastIncludedIndex[i] \in Nat
      /\ commitIndex[i] \in Nat /\ applyCh[i] \in Seq(ApplyMsg) /\ committed \in Seq(Entry)
  BY DEF TypeOK, Committing
<1>2. Len(committed) \in Nat /\ Len(applyCh[i]) \in Nat
  BY <1>1, LenProperties
<1>3. appliedIndex[i] <= e
  BY <1>1, <1>2 DEF Delivers
<1>4. e <= lastApplied[i] /\ lastApplied[i] <= commitIndex[i] /\ commitIndex[i] <= Len(committed)
  BY DEF Claimed, Committing, StateMachineSafety
<1> QED BY <1>1, <1>2, <1>3, <1>4

\* A batch stays right while more is committed.
LEMMA DeliversStays ==
  ASSUME TypeOK, Committing, CommittedGrows, NEW i \in Server, NEW e \in Nat, Delivers(i, e),
         e <= Len(committed), appliedIndex'[i] = appliedIndex[i], applyCh'[i] = applyCh[i]
  PROVE  Delivers(i, e)'
<1>1. PICK a \in Nat, B \in Seq(ApplyMsg), n \in Nat, C \in Nat :
        a = appliedIndex[i] /\ B = applyCh[i] /\ n = Len(B) /\ C = Len(committed)
  <2>1. appliedIndex[i] \in Nat /\ applyCh[i] \in Seq(ApplyMsg) /\ committed \in Seq(Entry)
    BY DEF TypeOK, Committing
  <2>2. Len(applyCh[i]) \in Nat /\ Len(committed) \in Nat
    BY <2>1, LenProperties
  <2> QED BY <2>1, <2>2
<1>2. CASE e = a + n /\ \A k \in 1..n : B[k] = EntryMsg(a + k)
  <2>1. ASSUME NEW k \in 1..n PROVE B[k] = EntryMsg(a + k)'
    <3>1. PICK q \in Nat : q = a + k
      OBVIOUS
    <3>2. q \in 1..C
      BY <1>1, <1>2, <3>1
    <3>3. committed'[q] = committed[q]
      BY <1>1, <3>2 DEF CommittedGrows
    <3>4. B[k] = EntryMsg(q)
      BY <1>2, <3>1
    <3>5. EntryMsg(q) = EntryMsg(q)'
      BY <3>3 DEF EntryMsg
    <3> QED BY <3>1, <3>4, <3>5
  <2> QED BY <1>1, <1>2, <2>1 DEF Delivers
<1>3. CASE e >= a /\ B = <<SnapshotMsg(e)>>
  <2>1. CommandsUpTo(e)' = CommandsUpTo(e)
    BY CommandsStay DEF Committing
  <2>2. SnapshotMsg(e)' = SnapshotMsg(e)
    BY <2>1 DEF SnapshotMsg
  <2> QED BY <1>1, <1>3, <2>2 DEF Delivers
<1> QED BY <1>1, <1>2, <1>3 DEF Delivers

\* A service that is left alone stays in order.
LEMMA ServiceStays ==
  ASSUME TypeOK, Committing, CommittedGrows, NEW i \in Server, Service(i), Undisturbed(i)
  PROVE  Service(i)'
<1>1. PICK e \in Nat : Delivers(i, e) /\ Claimed(i, e)
  BY DEF Service
<1>2. PICK a \in Nat, f \in Nat, l \in Nat, c \in Nat, C \in Nat :
        /\ a = appliedIndex[i] /\ f = lastIncludedIndex[i] /\ l = lastApplied[i]
        /\ c = commitIndex[i] /\ C = Len(committed)
  BY <1>1, ServiceIndices DEF Service
<1>3. a <= e /\ e <= l /\ l <= c /\ c <= C /\ f <= l
  BY <1>1, <1>2, ServiceIndices DEF Service
<1>4. a <= C /\ e <= C /\ l <= C /\ f <= C
  BY <1>3
<1>5. /\ CommandsUpTo(a)' = CommandsUpTo(a) /\ CommandsUpTo(f)' = CommandsUpTo(f)
      /\ CommandsUpTo(l)' = CommandsUpTo(l)
  BY <1>2, <1>4, CommandsStay DEF Committing
<1>6. Delivers(i, e)'
  BY <1>1, <1>2, <1>4, DeliversStays DEF Undisturbed
<1>7. lastApplied'[i] = l /\ appliedIndex'[i] = a /\ lastIncludedIndex'[i] = f
  BY <1>2 DEF Undisturbed
<1>8. Claimed(i, e)'
  BY <1>1, <1>2, <1>5, <1>7 DEF Claimed, Undisturbed
<1>9. applied'[i] = CommandsUpTo(a)' /\ snapshot'[i] = CommandsUpTo(f)'
  BY <1>2, <1>5 DEF Service, Undisturbed
<1> QED BY <1>3, <1>6, <1>7, <1>8, <1>9 DEF Service

\* Snapshots in flight stay right.
LEMMA SnapshotsInFlight ==
  ASSUME TypeOK, Committing, CommittedGrows, ServiceInv, NEW m, Relayed(m),
         m.type = "InstallSnapshot"
  PROVE  m.Data = CommandsUpTo(m.LastIncludedIndex)'
<1>1. CASE \E r \in rpcs : /\ r.type = "InstallSnapshot"
                           /\ m.Data = r.Data /\ m.LastIncludedIndex = r.LastIncludedIndex
  <2>1. PICK r \in rpcs : /\ r.type = "InstallSnapshot"
                          /\ m.Data = r.Data /\ m.LastIncludedIndex = r.LastIncludedIndex
    BY <1>1
  <2>2. r \in InstallSnapshotArgs
    BY <2>1, RPCTypes DEF TypeOK
  <2>3. PICK n \in Nat : n = r.LastIncludedIndex
    BY <2>2 DEF InstallSnapshotArgs
  <2>4. n <= Len(committed) /\ r.Data = CommandsUpTo(n)
    BY <2>1, <2>3 DEF Committing, ServiceInv
  <2>5. CommandsUpTo(n)' = CommandsUpTo(n)
    BY <2>4, CommandsStay DEF Committing
  <2> QED BY <2>1, <2>3, <2>4, <2>5
<1>2. CASE \E i \in Server : m.Data = snapshot[i] /\ m.LastIncludedIndex = lastIncludedIndex[i]
  <2>1. PICK i \in Server : m.Data = snapshot[i] /\ m.LastIncludedIndex = lastIncludedIndex[i]
    BY <1>2
  <2>2. Service(i)
    BY DEF ServiceInv
  <2>3. PICK n \in Nat, c \in Nat, C \in Nat :
          n = lastIncludedIndex[i] /\ c = commitIndex[i] /\ C = Len(committed)
    <3>1. Len(committed) \in Nat
      BY LenProperties DEF Committing
    <3> QED BY <3>1 DEF TypeOK
  <2>4. n <= c /\ c <= C
    BY <2>3 DEF Committing, StateMachineSafety
  <2>5. n <= C
    BY <2>4
  <2>6. CommandsUpTo(n)' = CommandsUpTo(n)
    BY <2>3, <2>5, CommandsStay DEF Committing
  <2> QED BY <2>1, <2>2, <2>3, <2>6 DEF Service
<1> QED BY <1>1, <1>2 DEF Relayed

\* A step that leaves every service but that of i alone.
LEMMA ServiceStep ==
  ASSUME TypeOK, Committing, CommittedGrows, ServiceInv, NEW i \in Server, Service(i)',
         \A j \in Server : j # i => Undisturbed(j),
         \A m \in rpcs' : Relayed(m)
  PROVE  ServiceInv'
<1>1. ASSUME NEW j \in Server PROVE Service(j)'
  <2>1. CASE j = i
    BY <2>1
  <2>2. CASE j # i
    BY <2>2, ServiceStays DEF ServiceInv
  <2> QED BY <2>1, <2>2
<1>2. ASSUME NEW m \in rpcs', m.type = "InstallSnapshot"
      PROVE  m.Data = CommandsUpTo(m.LastIncludedIndex)'
  BY <1>2, SnapshotsInFlight
<1> QED BY <1>1, <1>2 DEF ServiceInv

\* A step that leaves every service alone.
LEMMA ServiceQuiet ==
  ASSUME TypeOK, Committing, CommittedGrows, ServiceInv,
         UNCHANGED <<applyCh, applied, appliedIndex, lastApplied, pendingSnapshot, snapshot,
                     lastIncludedIndex>>,
         \A m \in rpcs' : Relayed(m)
  PROVE  ServiceInv'
<1>1. \A j \in Server : Undisturbed(j)
  BY DEF Undisturbed
<1>2. PICK i \in Server : TRUE
  BY ServerAssumption
<1>3. Service(i)'
  BY <1>1, ServiceStays DEF ServiceInv
<1> QED BY <1>1, <1>3, ServiceStep

\* What a step leaves when it touches neither a service nor the record of
\* what is committed.
StillService ==
    UNCHANGED <<applyCh, applied, appliedIndex, lastApplied, pendingSnapshot, snapshot,
                lastIncludedIndex>>

\* Nothing new is committed.
LEMMA CommittedSame ==
  ASSUME Committing, UNCHANGED committed
  PROVE  CommittedGrows
<1>1. Len(committed) \in Nat
  BY LenProperties DEF Committing
<1> QED BY <1>1 DEF CommittedGrows

\* Calls that are answered or dropped add no snapshot.
LEMMA NothingRelayed ==
  ASSUME NEW D, rpcs' \subseteq rpcs \cup D, \A r \in D : r.type # "InstallSnapshot"
  PROVE  \A m \in rpcs' : Relayed(m)
BY DEF Relayed

\* Nor do calls that disappear.
LEMMA NothingSent ==
  ASSUME rpcs' \subseteq rpcs
  PROVE  \A m \in rpcs' : Relayed(m)
BY DEF Relayed

\* The steps that do not concern the service: elections, refusals, replies.
LEMMA ServiceElections ==
  ASSUME TypeOK, Committing, ServiceInv,
         \/ \E i \in Server, reach \in SUBSET Server : startElection(i, reach)
         \/ \E i, p \in Server : Heartbeat(i, p)
         \/ \E m \in rpcs : \/ RequestVote(m) \/ RequestVoteReply(m) \/ AppendEntries(m)
                            \/ HeartbeatReply(m) \/ InstallSnapshotReply(m) \/ DropRPC(m)
  PROVE  ServiceInv'
<1>1. ASSUME StillService, UNCHANGED committed,
             NEW D, rpcs' \subseteq rpcs \cup D, \A r \in D : r.type # "InstallSnapshot"
      PROVE  ServiceInv'
  BY <1>1, CommittedSame, NothingRelayed, ServiceQuiet DEF StillService
<1>2. CASE \E i \in Server, reach \in SUBSET Server : startElection(i, reach)
  <2>1. PICK i \in Server, reach \in SUBSET Server : startElection(i, reach)
    BY <1>2
  <2>2. StillService /\ UNCHANGED committed
    BY <2>1 DEF startElection, StillService, service
  <2>3. PICK D : D = {[type |-> "RequestVote", from |-> i, to |-> p, live |-> TRUE,
                       Term |-> currentTerm[i] + 1,
                       LastLogIndex |-> lastLogIndex(i),
                       LastLogTerm |-> lastLogTerm(i)] : p \in reach}
    OBVIOUS
  <2>4. rpcs' \subseteq rpcs \cup D
    BY <2>1, <2>3 DEF startElection
  <2>5. \A r \in D : r.type # "InstallSnapshot"
    BY <2>3
  <2> QED BY <1>1, <2>2, <2>4, <2>5
<1>3. CASE \E i, p \in Server : Heartbeat(i, p)
  <2>1. PICK i \in Server, p \in Server : Heartbeat(i, p)
    BY <1>3
  <2>2. StillService /\ UNCHANGED committed
    BY <2>1 DEF Heartbeat, StillService, service, persistent
  <2>3. PICK D : D = {[type |-> "Heartbeat", from |-> i, to |-> p, live |-> TRUE,
                       Term |-> currentTerm[i],
                       PrevLogIndex |-> lastLogIndex(i), PrevLogTerm |-> lastLogTerm(i),
                       Entries |-> <<>>, LeaderCommit |-> commitIndex[i]]}
    OBVIOUS
  <2>4. rpcs' \subseteq rpcs \cup D
    BY <2>1, <2>3 DEF Heartbeat
  <2>5. \A r \in D : r.type # "InstallSnapshot"
    BY <2>3
  <2> QED BY <1>1, <2>2, <2>4, <2>5
<1>4. ASSUME NEW m \in rpcs, RequestVote(m) PROVE ServiceInv'
  <2>1. StillService /\ UNCHANGED committed
    BY <1>4 DEF RequestVote, StillService, service
  <2>2. PICK D : D = {r \in rpcs' : r.type = "RequestVoteReply"}
    OBVIOUS
  <2>3. rpcs' \subseteq rpcs \cup D
    <3>1. PICK a : a.type = "RequestVoteReply" /\ Answer(m, a)
      BY <1>4 DEF RequestVote
    <3> QED BY <2>2, <3>1 DEF Answer
  <2>4. \A r \in D : r.type # "InstallSnapshot"
    BY <2>2
  <2> QED BY <1>1, <2>1, <2>3, <2>4
<1>5. ASSUME NEW m \in rpcs, AppendEntries(m) PROVE ServiceInv'
  <2>1. StillService /\ UNCHANGED committed
    BY <1>5 DEF AppendEntries, StillService, service, persistent
  <2>2. PICK D : rpcs' \subseteq rpcs \cup D /\ \A r \in D : r.type # "InstallSnapshot"
    <3>1. PICK t, result, stopped : Answer(m, AppendReply(m, t, result, stopped))
      BY <1>5 DEF AppendEntries
    <3>2. AppendReply(m, t, result, stopped).type # "InstallSnapshot"
      BY DEF AppendReply
    <3>3. PICK D : D = {AppendReply(m, t, result, stopped)}
      OBVIOUS
    <3>4. rpcs' \subseteq rpcs \cup D
      BY <3>1, <3>3 DEF Answer
    <3>5. \A r \in D : r.type # "InstallSnapshot"
      BY <3>2, <3>3
    <3> QED BY <3>4, <3>5
  <2> QED BY <1>1, <2>1, <2>2
<1>6. ASSUME NEW m \in rpcs,
             RequestVoteReply(m) \/ HeartbeatReply(m) \/ InstallSnapshotReply(m) \/ DropRPC(m)
      PROVE  ServiceInv'
  <2>1. StillService /\ UNCHANGED committed
    <3>1. CASE RequestVoteReply(m)
      BY <3>1 DEF RequestVoteReply, stepDown, StillService, service, persistent
    <3>2. CASE HeartbeatReply(m)
      BY <3>2 DEF HeartbeatReply, stepDown, StillService, service, persistent
    <3>3. CASE InstallSnapshotReply(m)
      BY <3>3 DEF InstallSnapshotReply, stepDown, StillService, service, persistent
    <3>4. CASE DropRPC(m)
      BY <3>4 DEF DropRPC, StillService, service, persistent
    <3> QED BY <1>6, <3>1, <3>2, <3>3, <3>4
  <2>2. rpcs' \subseteq rpcs
    BY <1>6 DEF RequestVoteReply, HeartbeatReply, InstallSnapshotReply, DropRPC
  <2>3. \A r \in rpcs' : Relayed(r)
    BY <2>2, NothingSent
  <2> QED BY <2>1, <2>3, CommittedSame, ServiceQuiet DEF StillService
<1> QED BY <1>2, <1>3, <1>4, <1>5, <1>6

\* A leader that appends, or counts an answer, may commit more.
LEMMA ServiceCommits ==
  ASSUME TypeOK, Committing, ServiceInv,
         \/ \E i \in Server : Start(i)
         \/ \E m \in rpcs : AppendEntriesReply(m)
  PROVE  ServiceInv'
<1>1. ASSUME NEW i \in Server, Start(i) PROVE ServiceInv'
  <2>1. StillService
    BY <1>1 DEF Start, StillService, service
  <2>2. PICK log : log = Append(logs[i], [Term |-> currentTerm[i], Command |-> ops + 1])
    OBVIOUS
  <2>3. log \in Seq(Entry)
    <3>1. logs[i] \in Seq(Entry) /\ currentTerm[i] \in Nat /\ ops \in Nat
      BY DEF TypeOK, Log
    <3>2. [Term |-> currentTerm[i], Command |-> ops + 1] \in Entry
      BY <3>1 DEF Entry
    <3> QED BY <2>2, <3>1, <3>2
  <2>4. PICK c : c = commitIndex'[i]
    OBVIOUS
  <2>5. PICK match : match = matchIndex'[i]
    OBVIOUS
  <2>6. c = commitIndex[i] \/ c = advanceCommitIndex(i, log, match)
    BY <1>1, <2>2, <2>4, <2>5 DEF Start, TypeOK
  <2>7. RecordCommit(i, log, c)
    BY <1>1, <2>2, <2>4 DEF Start
  <2>8. CommittedGrows
    BY <2>3, <2>6, <2>7, RecordGrows
  <2>9. rpcs' \subseteq rpcs
    BY <1>1 DEF Start
  <2>10. \A r \in rpcs' : Relayed(r)
    BY <2>9, NothingSent
  <2> QED BY <2>1, <2>8, <2>10, ServiceQuiet DEF StillService
<1>2. ASSUME NEW m \in rpcs, AppendEntriesReply(m) PROVE ServiceInv'
  <2>1. StillService
    BY <1>2 DEF AppendEntriesReply, stepDown, StillService, service, persistent
  <2>2. CommittedGrows
    <3>1. PICK i \in Server : i = m.to
      BY RPCTypes DEF TypeOK
    <3>2. CASE UNCHANGED committed
      BY <3>2, CommittedSame
    <3>3. CASE committed' # committed
      <4>1. PICK log, match, c :
              log \in Seq(Entry) /\ log = logs[i] /\ match = matchIndex'[i] /\ c = commitIndex'[i]
        BY DEF TypeOK, Log
      <4>2. RecordCommit(i, logs[i], commitIndex'[i])
        BY <1>2, <3>1, <3>3 DEF AppendEntriesReply
      <4>3. commitIndex' = [commitIndex EXCEPT ![i] =
               IF m.PrevLogIndex + m.Count > matchIndex[i][m.from]
               THEN advanceCommitIndex(i, logs[i], matchIndex'[i]) ELSE @]
        BY <1>2, <3>1, <3>3 DEF AppendEntriesReply
      <4>4. c = commitIndex[i] \/ c = advanceCommitIndex(i, log, match)
        BY <4>1, <4>3 DEF TypeOK
      <4> QED BY <4>1, <4>2, <4>4, RecordGrows
    <3> QED BY <3>2, <3>3
  <2>3. rpcs' \subseteq rpcs
    BY <1>2 DEF AppendEntriesReply
  <2>4. \A r \in rpcs' : Relayed(r)
    BY <2>3, NothingSent
  <2> QED BY <2>1, <2>2, <2>4, ServiceQuiet DEF StillService
<1> QED BY <1>1, <1>2

\* A leader that sends its snapshot, and a crash.
LEMMA ServiceReplicateKill ==
  ASSUME TypeOK, Committing, ServiceInv, NEW i \in Server,
         \/ \E p \in Server : Replicate(i, p)
         \/ Kill(i)
  PROVE  ServiceInv'
<1>1. ASSUME NEW p \in Server, Replicate(i, p) PROVE ServiceInv'
  <2>1. StillService /\ UNCHANGED committed
    BY <1>1 DEF Replicate, StillService, service, persistent
  <2>2. Relayed(ReplicationArgs(i, p))
    BY DEF Relayed, ReplicationArgs
  <2>3. rpcs' = rpcs \cup {ReplicationArgs(i, p)}
    BY <1>1 DEF Replicate
  <2>4. \A m \in rpcs : Relayed(m)
    BY DEF Relayed
  <2>5. \A m \in rpcs' : Relayed(m)
    BY <2>2, <2>3, <2>4
  <2> QED BY <2>1, <2>5, CommittedSame, ServiceQuiet DEF StillService
<1>2. CASE Kill(i)
  <2>1. StillService /\ UNCHANGED committed
    BY <1>2 DEF Kill, StillService, service, persistent
  <2>2. ASSUME NEW m \in rpcs' PROVE Relayed(m)
    <3>1. PICK r \in rpcs : m = IF IsRequest(r) /\ r.from = i
                                THEN [r EXCEPT !.live = FALSE] ELSE r
      BY <1>2 DEF Kill
    <3>2. CASE m = r
      BY <3>2 DEF Relayed
    <3>3. CASE m # r
      <4>1. IsRequest(r) /\ m = [r EXCEPT !.live = FALSE]
        BY <3>1, <3>3
      <4>2. CASE r.type # "InstallSnapshot"
        <5>1. r \in RequestVoteArgs \/ r \in AppendEntriesArgs
          BY <4>1, <4>2, RPCTypes DEF TypeOK, IsRequest
        <5>2. m.type = r.type
          BY <4>1, <5>1 DEF RequestVoteArgs, AppendEntriesArgs
        <5> QED BY <4>2, <5>2 DEF Relayed
      <4>3. CASE r.type = "InstallSnapshot"
        <5>1. r \in InstallSnapshotArgs
          BY <4>3, RPCTypes DEF TypeOK
        <5>2. m.Data = r.Data /\ m.LastIncludedIndex = r.LastIncludedIndex
          BY <4>1, <5>1 DEF InstallSnapshotArgs
        <5> QED BY <4>3, <5>2 DEF Relayed
      <4> QED BY <4>2, <4>3
    <3> QED BY <3>2, <3>3
  <2> QED BY <2>1, <2>2, CommittedSame, ServiceQuiet DEF StillService
<1> QED BY <1>1, <1>2

\* The applier claims the next batch.
LEMMA ServiceApplier ==
  ASSUME TypeOK, Committing, ServiceInv, NEW i \in Server, applier(i)
  PROVE  ServiceInv'
<1>1. CommittedGrows
  BY CommittedSame DEF applier
<1>2. PICK e \in Nat : Delivers(i, e) /\ Claimed(i, e)
  BY DEF ServiceInv, Service
<1>3. lastIncludedIndex[i] <= lastApplied[i]
  BY DEF ServiceInv, Service
<1>4. PICK a \in Nat, f \in Nat, l \in Nat, c \in Nat, C \in Nat :
        /\ a = appliedIndex[i] /\ f = lastIncludedIndex[i] /\ l = lastApplied[i]
        /\ c = commitIndex[i] /\ C = Len(committed)
  BY <1>2, <1>3, ServiceIndices
<1>5. a <= e /\ e <= l /\ l <= c /\ c <= C /\ f <= l
  BY <1>2, <1>3, <1>4, ServiceIndices
\* The batch before was consumed.
<1>6. e = a
  <2>1. applyCh[i] = <<>>
    BY DEF applier
  <2>2. Len(applyCh[i]) = 0 /\ applyCh[i] # <<SnapshotMsg(e)>>
    BY <2>1
  <2> QED BY <1>2, <1>4, <2>2 DEF Delivers
<1>7. UNCHANGED <<persistent, applied, appliedIndex, rpcs, committed>>
  BY DEF applier
<1>8. UNCHANGED <<logs, snapshot, lastIncludedIndex>>
  BY <1>7 DEF persistent
<1>9. applied[i] = CommandsUpTo(a) /\ snapshot[i] = CommandsUpTo(f)
  BY <1>4 DEF ServiceInv, Service
<1>10. applied'[i] = CommandsUpTo(appliedIndex[i])' /\ snapshot'[i] = CommandsUpTo(lastIncludedIndex[i])'
  BY <1>4, <1>7, <1>8, <1>9 DEF CommandsUpTo
<1>11. \A j \in Server : j # i => Undisturbed(j)
  <2>1. \A j \in Server : j # i => /\ applyCh'[j] = applyCh[j] /\ lastApplied'[j] = lastApplied[j]
                                   /\ pendingSnapshot'[j] = pendingSnapshot[j]
    BY DEF applier, TypeOK
  <2> QED BY <1>7, <1>8, <2>1 DEF Undisturbed
<1>12. \A m \in rpcs' : Relayed(m)
  BY <1>7, NothingSent
<1>13. CASE pendingSnapshot[i] # None
  <2>1. pendingSnapshot[i] = [Index |-> l, Data |-> CommandsUpTo(l)]
    BY <1>2, <1>4, <1>13 DEF Claimed
  <2>2. applyCh'[i] = <<SnapshotMsg(l)>> /\ pendingSnapshot'[i] = None
    <3>1. /\ applyCh' = [applyCh EXCEPT ![i] =
                <<[SnapshotValid |-> TRUE, Index |-> pendingSnapshot[i].Index,
                   Data |-> pendingSnapshot[i].Data]>>]
          /\ pendingSnapshot' = [pendingSnapshot EXCEPT ![i] = None]
      BY <1>13 DEF applier
    <3>2. pendingSnapshot[i].Index = l /\ pendingSnapshot[i].Data = CommandsUpTo(l)
      BY <2>1
    <3>3. pendingSnapshot'[i] = None
      BY <3>1 DEF TypeOK
    <3>4. applyCh'[i] = <<[SnapshotValid |-> TRUE, Index |-> l, Data |-> CommandsUpTo(l)]>>
      BY <3>1, <3>2 DEF TypeOK
    <3> QED BY <3>3, <3>4 DEF SnapshotMsg
  <2>3. lastApplied'[i] = Max({l, l})
    BY <1>4, <1>13, <2>1 DEF applier, TypeOK
  <2>4. lastApplied'[i] = l
    <3>1. l \in Int
      OBVIOUS
    <3>2. Max({l, l}) \in {l, l}
      BY <3>1, MaxOfTwo
    <3> QED BY <2>3, <3>2
  <2>5. SnapshotMsg(l)' = SnapshotMsg(l)
    BY <1>7 DEF SnapshotMsg, CommandsUpTo
  <2>6. a <= l /\ l <= l
    BY <1>5
  <2>7. Delivers(i, l)'
    BY <1>4, <1>7, <2>2, <2>5, <2>6 DEF Delivers
  <2>8. Claimed(i, l)'
    BY <2>2, <2>4, <2>6 DEF Claimed
  <2>9. lastIncludedIndex'[i] <= lastApplied'[i]
    BY <1>4, <1>5, <1>8, <2>4
  <2>10. Service(i)'
    BY <1>10, <2>7, <2>8, <2>9 DEF Service
  <2> QED BY <1>1, <1>11, <1>12, <2>10, ServiceStep
<1>14. CASE pendingSnapshot[i] = None
  <2>1. e = l /\ a = l
    BY <1>2, <1>4, <1>6, <1>14 DEF Claimed
  <2>2. firstUnclaimed(i) = l + 1
    <3>1. l \in Int /\ f \in Int
      OBVIOUS
    <3>2. Max({l, f}) \in {l, f} /\ Max({l, f}) >= l
      BY <3>1, MaxOfTwo
    <3>3. Max({l, f}) = l
      BY <1>5, <3>2
    <3> QED BY <1>4, <3>3 DEF firstUnclaimed
  <2>3. PICK B : B = [k \in 1..(c - (l + 1) + 1) |->
                       [SnapshotValid |-> FALSE, Index |-> (l + 1) + k - 1,
                        Data |-> <<logs[i][toOffset(i, (l + 1) + k - 1) + 1].Command>>]]
    OBVIOUS
  <2>4. /\ applyCh'[i] = B /\ lastApplied'[i] = c /\ pendingSnapshot'[i] = None
        /\ l < c
    BY <1>4, <1>14, <2>2, <2>3 DEF applier, TypeOK
  <2>5. PICK n \in Nat : n = c - l
    BY <1>5
  <2>6. c - (l + 1) + 1 = n
    BY <2>5
  <2>7. Len(B) = n
    BY <2>3, <2>6
  <2>8. ASSUME NEW k \in 1..n PROVE B[k] = EntryMsg(a + k)'
    <3>1. PICK q \in Nat : q = a + k
      OBVIOUS
    <3>2. (l + 1) + k - 1 = q /\ q \in (f + 1)..c
      BY <1>5, <2>1, <2>5, <3>1
    <3>3. entryAt(i, q) = committed[q]
      BY <1>4, <3>2 DEF Committing, StateMachineSafety
    <3>4. B[k] = [SnapshotValid |-> FALSE, Index |-> q,
                  Data |-> <<logs[i][toOffset(i, q) + 1].Command>>]
      BY <2>3, <2>6, <3>2
    <3>5. B[k] = EntryMsg(q)
      BY <3>3, <3>4 DEF entryAt, EntryMsg
    <3>6. EntryMsg(q) = EntryMsg(q)'
      BY <1>7 DEF EntryMsg
    <3> QED BY <3>1, <3>5, <3>6
  <2>9. c = a + n /\ c <= c
    BY <2>1, <2>5
  <2>10. Delivers(i, c)'
    BY <1>4, <1>7, <2>4, <2>7, <2>8, <2>9 DEF Delivers
  <2>11. Claimed(i, c)'
    BY <2>4, <2>9 DEF Claimed
  <2>12. f <= c
    BY <1>5
  <2>13. Service(i)'
    BY <1>4, <1>8, <1>10, <2>4, <2>10, <2>11, <2>12 DEF Service
  <2> QED BY <1>1, <1>11, <1>12, <2>13, ServiceStep
<1> QED BY <1>13, <1>14

\* The service consumes one message.
LEMMA ServiceDeliver ==
  ASSUME TypeOK, Committing, ServiceInv, NEW i \in Server, Deliver(i)
  PROVE  ServiceInv' /\ appliedIndex[i] <= appliedIndex'[i]
<1>1. CommittedGrows
  BY CommittedSame DEF Deliver
<1>2. PICK e \in Nat : Delivers(i, e) /\ Claimed(i, e)
  BY DEF ServiceInv, Service
<1>3. lastIncludedIndex[i] <= lastApplied[i]
  BY DEF ServiceInv, Service
<1>4. PICK a \in Nat : a = appliedIndex[i]
  BY <1>2, <1>3, ServiceIndices
<1>5. PICK B \in Seq(ApplyMsg) : B = applyCh[i]
  BY DEF TypeOK
<1>6. B # <<>>
  BY <1>5 DEF Deliver
<1>7. PICK n \in Nat : n = Len(B)
  BY LenProperties
<1>8. n >= 1 /\ Head(B) = B[1] /\ Tail(B) \in Seq(ApplyMsg) /\ Len(Tail(B)) = n - 1
      /\ \A k \in 1..(n - 1) : Tail(B)[k] = B[k + 1]
  BY <1>6, <1>7, HeadTailProperties
<1>9. UNCHANGED <<persistent, lastApplied, pendingSnapshot, rpcs, committed>>
  BY DEF Deliver
<1>10. UNCHANGED <<snapshot, lastIncludedIndex>>
  BY <1>9 DEF persistent
<1>11. applied[i] = CommandsUpTo(a) /\ snapshot[i] = CommandsUpTo(lastIncludedIndex[i])
  BY <1>4 DEF ServiceInv, Service
<1>12. \A j \in Server : j # i => Undisturbed(j)
  <2>1. \A j \in Server : j # i => /\ applyCh'[j] = applyCh[j] /\ applied'[j] = applied[j]
                                   /\ appliedIndex'[j] = appliedIndex[j]
    BY DEF Deliver, TypeOK
  <2> QED BY <1>9, <1>10, <2>1 DEF Undisturbed
<1>13. \A m \in rpcs' : Relayed(m)
  BY <1>9, NothingSent
<1>14. snapshot'[i] = CommandsUpTo(lastIncludedIndex[i])' /\ Claimed(i, e)'
       /\ lastIncludedIndex'[i] <= lastApplied'[i]
  BY <1>2, <1>3, <1>9, <1>10, <1>11 DEF Claimed, CommandsUpTo
<1>15. /\ applied'[i] = IF B[1].SnapshotValid THEN B[1].Data ELSE applied[i] \o B[1].Data
       /\ appliedIndex'[i] = B[1].Index /\ applyCh'[i] = Tail(B)
  BY <1>5, <1>8 DEF Deliver, TypeOK
<1>16. CASE e = a + n /\ \A k \in 1..n : B[k] = EntryMsg(a + k)
  <2>1. B[1] = EntryMsg(a + 1)
    BY <1>8, <1>16
  <2>2. applied'[i] = CommandsUpTo(a) \o <<committed[a + 1].Command>> /\ appliedIndex'[i] = a + 1
    BY <1>11, <1>15, <2>1 DEF EntryMsg
  <2>3. applied'[i] = CommandsUpTo(a + 1)
    BY <2>2, CommandsAppend DEF Committing
  <2>4. applied'[i] = CommandsUpTo(appliedIndex[i])'
    BY <1>9, <2>2, <2>3 DEF CommandsUpTo
  <2>5. PICK b \in Nat, o \in Nat : b = a + 1 /\ o = n - 1
    BY <1>8
  <2>6. ASSUME NEW k \in 1..o PROVE Tail(B)[k] = EntryMsg(b + k)'
    <3>1. PICK q \in 1..n : q = k + 1
      BY <2>5
    <3>2. Tail(B)[k] = B[q]
      BY <1>8, <2>5, <3>1
    <3>3. B[q] = EntryMsg(a + q)
      BY <1>16
    <3>4. a + q = b + k
      BY <2>5, <3>1
    <3>5. EntryMsg(b + k)' = EntryMsg(b + k)
      BY <1>9 DEF EntryMsg
    <3> QED BY <3>2, <3>3, <3>4, <3>5
  <2>7. e = b + o
    BY <1>16, <2>5
  <2>8. Delivers(i, e)'
    BY <1>8, <1>15, <2>2, <2>5, <2>6, <2>7 DEF Delivers
  <2>9. Service(i)'
    BY <1>14, <2>4, <2>8 DEF Service
  <2>10. a <= a + 1
    OBVIOUS
  <2> QED BY <1>1, <1>4, <1>12, <1>13, <2>2, <2>9, <2>10, ServiceStep
<1>17. CASE e >= a /\ B = <<SnapshotMsg(e)>>
  <2>1. B[1] = SnapshotMsg(e) /\ n = 1
    BY <1>7, <1>17
  <2>2. applied'[i] = CommandsUpTo(e) /\ appliedIndex'[i] = e
    BY <1>15, <2>1 DEF SnapshotMsg
  <2>3. applied'[i] = CommandsUpTo(appliedIndex[i])'
    BY <1>9, <2>2 DEF CommandsUpTo
  <2>4. Len(applyCh'[i]) = 0
    BY <1>8, <1>15, <2>1
  <2>5. Delivers(i, e)'
    BY <2>2, <2>4 DEF Delivers
  <2>6. Service(i)'
    BY <1>14, <2>3, <2>5 DEF Service
  <2>7. a <= e
    BY <1>17
  <2> QED BY <1>1, <1>4, <1>12, <1>13, <2>2, <2>6, <2>7, ServiceStep
<1> QED BY <1>2, <1>4, <1>5, <1>7, <1>16, <1>17 DEF Delivers

\* The service hands over a snapshot of what it has applied.
LEMMA ServiceSnapshot ==
  ASSUME TypeOK, Committing, ServiceInv, NEW i \in Server, Snapshot(i)
  PROVE  ServiceInv'
<1>1. CommittedGrows
  BY CommittedSame DEF Snapshot
<1>2. PICK e \in Nat : Delivers(i, e) /\ Claimed(i, e)
  BY DEF ServiceInv, Service
<1>3. PICK a \in Nat : a = appliedIndex[i]
  BY DEF TypeOK
<1>4. UNCHANGED <<applyCh, applied, appliedIndex, lastApplied, pendingSnapshot, rpcs, committed>>
  BY DEF Snapshot, service
<1>5. /\ lastIncludedIndex' = [lastIncludedIndex EXCEPT ![i] = a]
      /\ snapshot' = [snapshot EXCEPT ![i] = applied[i]]
      /\ a <= lastApplied[i]
  BY <1>3 DEF Snapshot, snapshotIndex
<1>6. lastIncludedIndex'[i] = a /\ snapshot'[i] = applied[i]
  BY <1>5 DEF TypeOK
<1>7. applied[i] = CommandsUpTo(a)
  BY <1>3 DEF ServiceInv, Service
<1>8. Delivers(i, e)' /\ Claimed(i, e)'
  BY <1>2, <1>4 DEF Delivers, Claimed, EntryMsg, SnapshotMsg, CommandsUpTo
<1>9. CommandsUpTo(appliedIndex[i])' = CommandsUpTo(a) /\ CommandsUpTo(lastIncludedIndex[i])' = CommandsUpTo(a)
  BY <1>3, <1>4, <1>6 DEF CommandsUpTo
<1>10. Service(i)'
  BY <1>4, <1>5, <1>6, <1>7, <1>8, <1>9 DEF Service
<1>11. \A j \in Server : j # i => Undisturbed(j)
  BY <1>4, <1>5 DEF Undisturbed, TypeOK
<1>12. \A m \in rpcs' : Relayed(m)
  BY <1>4, NothingSent
<1> QED BY <1>1, <1>10, <1>11, <1>12, ServiceStep

\* A follower takes over a snapshot from its leader: the batch it is delivering
\* ends before the snapshot, which waits for the applier.
LEMMA ServiceInstall ==
  ASSUME TypeOK, Committing, ServiceInv, NEW m \in rpcs, InstallSnapshot(m)
  PROVE  ServiceInv'
<1>1. m \in InstallSnapshotArgs
  BY RPCTypes DEF TypeOK, InstallSnapshot
<1>2. PICK i \in Server, x \in Nat : i = m.to /\ x = m.LastIncludedIndex
  BY <1>1 DEF InstallSnapshotArgs
<1>3. UNCHANGED <<applyCh, applied, appliedIndex, committed>>
  BY DEF InstallSnapshot, service
<1>4. CommittedGrows
  BY <1>3, CommittedSame
<1>5. \A r \in rpcs' : Relayed(r)
  <2>1. PICK t, stopped : Answer(m, SnapshotReply(m, t, stopped))
    BY DEF InstallSnapshot
  <2>2. PICK D : D = {SnapshotReply(m, t, stopped)}
    OBVIOUS
  <2>3. rpcs' \subseteq rpcs \cup D
    BY <2>1, <2>2 DEF Answer
  <2>4. \A r \in D : r.type # "InstallSnapshot"
    BY <2>2 DEF SnapshotReply
  <2> QED BY <2>3, <2>4, NothingRelayed
<1>6. CASE UNCHANGED <<lastApplied, pendingSnapshot, snapshot, lastIncludedIndex>>
  BY <1>3, <1>4, <1>5, <1>6, ServiceQuiet
<1>7. CASE ~UNCHANGED <<lastApplied, pendingSnapshot, snapshot, lastIncludedIndex>>
  <2>1. /\ isNewer(i, m)
        /\ lastIncludedIndex' = [lastIncludedIndex EXCEPT ![i] = m.LastIncludedIndex]
        /\ snapshot' = [snapshot EXCEPT ![i] = m.Data]
        /\ lastApplied' = [lastApplied EXCEPT ![i] = m.LastIncludedIndex]
        /\ pendingSnapshot' = [pendingSnapshot EXCEPT ![i] =
             [Index |-> m.LastIncludedIndex, Data |-> m.Data]]
    BY <1>2, <1>7 DEF InstallSnapshot, persistent
  <2>2. /\ lastIncludedIndex'[i] = x /\ snapshot'[i] = m.Data /\ lastApplied'[i] = x
        /\ pendingSnapshot'[i] = [Index |-> x, Data |-> m.Data]
    BY <1>2, <2>1 DEF TypeOK
  <2>3. m.Data = CommandsUpTo(x)
    BY <1>2 DEF ServiceInv, InstallSnapshot
  <2>4. CommandsUpTo(x)' = CommandsUpTo(x)
    BY <1>3 DEF CommandsUpTo
  <2>5. PICK e \in Nat : Delivers(i, e) /\ Claimed(i, e)
    BY DEF ServiceInv, Service
  <2>6. lastIncludedIndex[i] <= lastApplied[i]
    BY DEF ServiceInv, Service
  <2>7. PICK l \in Nat, c \in Nat : l = lastApplied[i] /\ c = commitIndex[i]
    BY DEF TypeOK
  <2>8. e <= l /\ l <= c /\ x > c
    BY <1>2, <2>1, <2>5, <2>6, <2>7, ServiceIndices DEF isNewer
  <2>9. e <= x /\ x <= x
    BY <2>8
  <2>10. Delivers(i, e)'
    BY <1>3, <2>5 DEF Delivers, EntryMsg, SnapshotMsg, CommandsUpTo
  <2>11. pendingSnapshot'[i] # None
    <3>1. pendingSnapshot'[i] \in [Index : Nat, Data : Image]
      BY <1>1, <1>2, <2>2 DEF InstallSnapshotArgs
    <3> QED BY <3>1, <2>2, PendingAssumption
  <2>12. Claimed(i, e)'
    BY <2>2, <2>3, <2>4, <2>9, <2>11 DEF Claimed
  <2>13. applied'[i] = CommandsUpTo(appliedIndex[i])'
    <3>1. applied[i] = CommandsUpTo(appliedIndex[i])
      BY DEF ServiceInv, Service
    <3>2. CommandsUpTo(appliedIndex[i])' = CommandsUpTo(appliedIndex[i])
      BY <1>3 DEF CommandsUpTo
    <3> QED BY <1>3, <3>1, <3>2
  <2>14. snapshot'[i] = CommandsUpTo(lastIncludedIndex[i])'
    BY <2>2, <2>3, <2>4 DEF CommandsUpTo
  <2>15. Service(i)'
    BY <2>2, <2>5, <2>9, <2>10, <2>12, <2>13, <2>14 DEF Service
  <2>16. \A j \in Server : j # i => Undisturbed(j)
    BY <1>3, <2>1 DEF Undisturbed, TypeOK
  <2> QED BY <1>4, <1>5, <2>15, <2>16, ServiceStep
<1> QED BY <1>6, <1>7

\* A server restarts with the service its disk holds.
LEMMA ServiceMake ==
  ASSUME TypeOK, PersistBeforeReply, Committing, ServiceInv, NEW i \in Server, Make(i)
  PROVE  ServiceInv'
<1>1. CommittedGrows
  BY CommittedSame DEF Make
<1>0. PICK d : d = snapshot[i]
  OBVIOUS
<1>2. PICK f \in Nat : f = lastIncludedIndex[i] /\ d = snapshot[i]
  BY <1>0 DEF TypeOK
<1>3. persister[i].lastIncludedIndex = f /\ persister[i].snapshot = d
  <2>1. persister[i] = PersistentState(i)
    BY DEF PersistBeforeReply
  <2>2. PersistentState(i).lastIncludedIndex = f /\ PersistentState(i).snapshot = d
    BY <1>2 DEF PersistentState
  <2> QED BY <2>1, <2>2
<1>4. UNCHANGED <<rpcs, committed>>
  BY DEF Make
<1>5. /\ lastIncludedIndex' = [lastIncludedIndex EXCEPT ![i] = f]
      /\ snapshot' = [snapshot EXCEPT ![i] = d]
      /\ lastApplied' = [lastApplied EXCEPT ![i] = f]
      /\ pendingSnapshot' = [pendingSnapshot EXCEPT ![i] = None]
      /\ applyCh' = [applyCh EXCEPT ![i] = <<>>]
      /\ applied' = [applied EXCEPT ![i] = d]
      /\ appliedIndex' = [appliedIndex EXCEPT ![i] = f]
  BY <1>3 DEF Make, readPersist
<1>6. /\ lastIncludedIndex'[i] = f /\ snapshot'[i] = d /\ lastApplied'[i] = f
      /\ pendingSnapshot'[i] = None /\ applyCh'[i] = <<>>
      /\ applied'[i] = d /\ appliedIndex'[i] = f
  BY <1>5 DEF TypeOK
<1>7. d = CommandsUpTo(f)
  BY <1>2 DEF ServiceInv, Service
<1>8. CommandsUpTo(f)' = CommandsUpTo(f)
  BY <1>4 DEF CommandsUpTo
<1>9. CommandsUpTo(appliedIndex[i])' = CommandsUpTo(f)' /\ CommandsUpTo(lastIncludedIndex[i])' = CommandsUpTo(f)'
  BY <1>6 DEF CommandsUpTo
<1>10. Len(applyCh'[i]) = 0 /\ f = f + 0 /\ f <= f
  BY <1>6
<1>11. Delivers(i, f)'
  BY <1>6, <1>10 DEF Delivers
<1>12. Claimed(i, f)'
  BY <1>6, <1>10 DEF Claimed
<1>13. Service(i)'
  BY <1>6, <1>7, <1>8, <1>9, <1>10, <1>11, <1>12 DEF Service
<1>14. \A j \in Server : j # i => Undisturbed(j)
  BY <1>5 DEF Undisturbed, TypeOK
<1>15. \A m \in rpcs' : Relayed(m)
  BY <1>4, NothingSent
<1> QED BY <1>1, <1>13, <1>14, <1>15, ServiceStep

\* At the start nothing is committed and every service is empty.
LEMMA ServiceInit == Init => ServiceInv
<1> SUFFICES ASSUME Init PROVE ServiceInv
  OBVIOUS
<1>1. rpcs = {}
  BY DEF Init
<1>2. ASSUME NEW i \in Server PROVE Service(i)
  <2>1. /\ lastIncludedIndex[i] = 0 /\ snapshot[i] = <<>> /\ lastApplied[i] = 0
        /\ pendingSnapshot[i] = None /\ applyCh[i] = <<>>
        /\ applied[i] = <<>> /\ appliedIndex[i] = 0
    BY DEF Init
  <2>2. CommandsUpTo(0) = <<>>
    BY DEF CommandsUpTo
  <2>3. Len(applyCh[i]) = 0
    BY <2>1
  <2>4. Delivers(i, 0)
    BY <2>1, <2>3 DEF Delivers
  <2>5. Claimed(i, 0)
    BY <2>1 DEF Claimed
  <2>6. 0 \in Nat /\ 0 <= 0
    OBVIOUS
  <2> QED BY <2>1, <2>2, <2>4, <2>5, <2>6 DEF Service
<1> QED BY <1>1, <1>2 DEF ServiceInv

\* Every step keeps the services in order.
LEMMA ServiceNext ==
  ASSUME TypeOK, PersistBeforeReply, Committing, ServiceInv, [Next]_vars
  PROVE  ServiceInv'
<1>1. CASE UNCHANGED vars
  <2>1. UNCHANGED <<applyCh, applied, appliedIndex, lastApplied, pendingSnapshot, snapshot,
                    lastIncludedIndex, rpcs, committed>>
    BY <1>1 DEF vars, persistent, service
  <2>2. \A m \in rpcs' : Relayed(m)
    BY <2>1, NothingSent
  <2> QED BY <2>1, <2>2, CommittedSame, ServiceQuiet
<1>2. ASSUME NEW i \in Server,
             \/ \E reach \in SUBSET (Server \ {i}) : startElection(i, reach)
             \/ Start(i) \/ applier(i) \/ Deliver(i) \/ Snapshot(i) \/ Kill(i) \/ Make(i)
             \/ \E p \in Server : Replicate(i, p) \/ Heartbeat(i, p)
      PROVE  ServiceInv'
  <2>1. CASE \E reach \in SUBSET (Server \ {i}) : startElection(i, reach)
    <3>1. \E reach \in SUBSET Server : startElection(i, reach)
      BY <2>1
    <3> QED BY <3>1, ServiceElections
  <2>2. CASE Start(i)
    BY <2>2, ServiceCommits
  <2>3. CASE applier(i)
    BY <2>3, ServiceApplier
  <2>4. CASE Deliver(i)
    BY <2>4, ServiceDeliver
  <2>5. CASE Snapshot(i)
    BY <2>5, ServiceSnapshot
  <2>6. CASE Kill(i)
    BY <2>6, ServiceReplicateKill
  <2>7. CASE Make(i)
    BY <2>7, ServiceMake
  <2>8. ASSUME NEW p \in Server, Replicate(i, p) PROVE ServiceInv'
    BY <2>8, ServiceReplicateKill
  <2>9. ASSUME NEW p \in Server, Heartbeat(i, p) PROVE ServiceInv'
    BY <2>9, ServiceElections
  <2> QED BY <1>2, <2>1, <2>2, <2>3, <2>4, <2>5, <2>6, <2>7, <2>8, <2>9
<1>3. ASSUME NEW m \in rpcs, Handle(m) PROVE ServiceInv'
  BY <1>3, ServiceElections, ServiceCommits, ServiceInstall DEF Handle
<1> QED BY <1>1, <1>2, <1>3 DEF Next

\* What the log guarantees follows from its invariant.
LEMMA LogCommits ==
  ASSUME TypeOK, Explained
  PROVE  Committing
<1>1. PICK h : LogInv(h)
  BY DEF Explained
<1>2. committed \in Seq(Entry)
  BY <1>1 DEF LogInv, Agreed
<1>3. StateMachineSafety
  BY <1>1, InvStateMachineSafety
<1>4. \A i \in Server : lastIncludedIndex[i] <= commitIndex[i] /\ lastApplied[i] <= commitIndex[i]
  BY <1>1 DEF LogInv, Commits
<1>5. \A m \in rpcs : m.type = "InstallSnapshot" => m.LastIncludedIndex <= Len(committed)
  BY <1>1 DEF LogInv, Sound
<1> QED BY <1>2, <1>3, <1>4, <1>5 DEF Committing

\* The boundary of a snapshot on disk has the term of the committed entry.
LEMMA SnapshotBoundary ==
  ASSUME TypeOK, Explained, NEW i \in Server
  PROVE  /\ logs[i][1].Term = lastIncludedTerm[i]
         /\ lastIncludedIndex[i] > 0 =>
              lastIncludedTerm[i] = committed[lastIncludedIndex[i]].Term
<1>1. PICK h : LogInv(h)
  BY DEF Explained
<1>2. Lineage(h) /\ Stored(h, i) /\ Commits(h, i)
  BY <1>1 DEF LogInv
<1>3. PICK f \in Nat, c \in Nat, z \in Nat :
        f = lastIncludedIndex[i] /\ c = commitIndex[i] /\ z = lastLogIndex(i)
  BY <1>2, ServerLog DEF TypeOK
<1>4. f <= c /\ c <= z
  BY <1>2, <1>3 DEF Commits
<1>5. lastIncludedTerm[i] = termAt(i, f) /\ termAt(i, f) = h.log[lastLogTerm(i)][f].Term
  <2>1. f \in f..z
    BY <1>4
  <2> QED BY <1>2, <1>3, <2>1 DEF Stored
<1>6. termAt(i, f) = logs[i][1].Term
  <2>1. f - f + 1 = 1
    OBVIOUS
  <2> QED BY <1>3, <2>1 DEF termAt, toOffset
<1>7. ASSUME f > 0 PROVE h.log[lastLogTerm(i)][f] = committed[f]
  <2>1. f \in 1..c
    BY <1>4, <1>7
  <2> QED BY <1>2, <1>3, <2>1 DEF Commits
<1> QED BY <1>3, <1>5, <1>6, <1>7

\* The service of every server, the batch it is being given and every snapshot,
\* waiting, on disk or in flight, is the committed prefix that its index says
\* (applier, Deliver, Snapshot, InstallSnapshot and Make).
THEOREM ServiceInvariant == Spec => []ServiceInv
<1>1. TypeOK /\ PersistBeforeReply /\ Explained /\ ServiceInv /\ [Next]_vars => ServiceInv'
  BY LogCommits, ServiceNext
<1> QED BY <1>1, ServiceInit, TypeCorrect, Durability, LogInvariant, PTL DEF Spec

\* The applier and the RSM's reader: every service executes the committed commands
\* in order, none twice and none left out, and the applier never looks outside
\* the log.
THEOREM ServiceInOrder == Spec => []ServiceAppliesCommittedPrefix
<1>1. TypeOK /\ Explained /\ ServiceInv => ServiceAppliesCommittedPrefix
  <2> SUFFICES ASSUME TypeOK, Explained, ServiceInv, NEW i \in Server
               PROVE  /\ appliedIndex[i] <= Len(committed)
                      /\ applied[i] = CommandsUpTo(appliedIndex[i])
                      /\ \A index \in firstUnclaimed(i)..commitIndex[i] : containsIndex(i, index)
    BY DEF ServiceAppliesCommittedPrefix
  <2>1. Committing
    BY LogCommits
  <2>2. PICK e \in Nat : Delivers(i, e) /\ Claimed(i, e)
    BY DEF ServiceInv, Service
  <2>3. lastIncludedIndex[i] <= lastApplied[i] /\ applied[i] = CommandsUpTo(appliedIndex[i])
    BY DEF ServiceInv, Service
  <2>4. PICK a \in Nat, f \in Nat, l \in Nat, c \in Nat, C \in Nat :
          /\ a = appliedIndex[i] /\ f = lastIncludedIndex[i] /\ l = lastApplied[i]
          /\ c = commitIndex[i] /\ C = Len(committed)
    BY <2>1, <2>2, <2>3, ServiceIndices
  <2>5. a <= e /\ e <= l /\ l <= c /\ c <= C
    BY <2>1, <2>2, <2>3, <2>4, ServiceIndices
  <2>6. a <= C
    BY <2>5
  <2>7. ASSUME NEW index \in firstUnclaimed(i)..commitIndex[i] PROVE containsIndex(i, index)
    <3>1. PICK b \in Int : b = Max({l, f}) /\ b >= f
      <4>1. l \in Int /\ f \in Int
        OBVIOUS
      <4>2. Max({l, f}) \in {l, f} /\ Max({l, f}) >= f
        BY <4>1, MaxOfTwo
      <4> QED BY <4>1, <4>2
    <3>2. index \in (b + 1)..c
      BY <2>4, <3>1 DEF firstUnclaimed
    <3>3. index \in (f + 1)..c
      BY <3>1, <3>2
    <3> QED BY <2>1, <2>4, <3>3 DEF Committing, StateMachineSafety
  <2> QED BY <2>3, <2>4, <2>6, <2>7
<1> QED BY <1>1, TypeCorrect, LogInvariant, ServiceInvariant, PTL

\* Snapshot, InstallSnapshot and persist: the snapshot on a server's disk is exactly
\* the committed prefix whose entries the disk no longer has.
THEOREM SnapshotsAreCommitted == Spec => []SnapshotIsCommittedPrefix
<1>1. TypeOK /\ PersistBeforeReply /\ Explained /\ ServiceInv => SnapshotIsCommittedPrefix
  <2> SUFFICES ASSUME TypeOK, PersistBeforeReply, Explained, ServiceInv, NEW i \in Server
               PROVE  LET disk == persister[i] IN
                      /\ disk.lastIncludedIndex <= Len(committed)
                      /\ disk.snapshot = CommandsUpTo(disk.lastIncludedIndex)
                      /\ disk.logs[1].Term = disk.lastIncludedTerm
                      /\ disk.lastIncludedIndex > 0 =>
                           disk.lastIncludedTerm = committed[disk.lastIncludedIndex].Term
    BY DEF SnapshotIsCommittedPrefix
  <2>1. /\ persister[i].lastIncludedIndex = lastIncludedIndex[i]
        /\ persister[i].snapshot = snapshot[i] /\ persister[i].logs = logs[i]
        /\ persister[i].lastIncludedTerm = lastIncludedTerm[i]
    <3>1. persister[i] = PersistentState(i)
      BY DEF PersistBeforeReply
    <3>2. /\ PersistentState(i).lastIncludedIndex = lastIncludedIndex[i]
          /\ PersistentState(i).snapshot = snapshot[i] /\ PersistentState(i).logs = logs[i]
          /\ PersistentState(i).lastIncludedTerm = lastIncludedTerm[i]
      BY DEF PersistentState
    <3> QED BY <3>1, <3>2
  <2>2. snapshot[i] = CommandsUpTo(lastIncludedIndex[i])
    BY DEF ServiceInv, Service
  <2>3. PICK f \in Nat, c \in Nat, C \in Nat :
          f = lastIncludedIndex[i] /\ c = commitIndex[i] /\ C = Len(committed)
    <3>1. Len(committed) \in Nat
      BY LogCommits, LenProperties DEF Committing
    <3> QED BY <3>1 DEF TypeOK
  <2>4. f <= c /\ c <= C
    BY <2>3, LogCommits DEF Committing, StateMachineSafety
  <2>5. f <= C
    BY <2>4
  <2> QED BY <2>1, <2>2, <2>3, <2>5, SnapshotBoundary
<1> QED BY <1>1, TypeCorrect, Durability, LogInvariant, ServiceInvariant, PTL

(***************************************************************************)
(* What only grows.                                                        *)
(***************************************************************************)
Forward(f, g) == \A j \in Server : f[j] <= g[j]

\* No index and no term of a server moves backwards.
Onward ==
    /\ Forward(currentTerm, currentTerm') /\ Forward(commitIndex, commitIndex')
    /\ Forward(lastApplied, lastApplied') /\ Forward(appliedIndex, appliedIndex')
    /\ Forward(lastIncludedIndex, lastIncludedIndex')

\* One server moves forward, or none moves.
LEMMA Moved ==
  ASSUME NEW f \in [Server -> Nat], NEW i \in Server, NEW v \in Nat, f[i] <= v,
         NEW g, g = [f EXCEPT ![i] = v]
  PROVE  Forward(f, g)
<1> SUFFICES ASSUME NEW j \in Server PROVE f[j] <= g[j]
  BY DEF Forward
<1>1. f[j] \in Nat
  OBVIOUS
<1>2. CASE j = i
  BY <1>2
<1>3. CASE j # i
  <2>1. g[j] = f[j]
    BY <1>3
  <2> QED BY <1>1, <2>1
<1> QED BY <1>2, <1>3

LEMMA Unmoved ==
  ASSUME NEW f \in [Server -> Nat], NEW g, g = f
  PROVE  Forward(f, g)
<1> SUFFICES ASSUME NEW j \in Server PROVE f[j] <= f[j]
  BY DEF Forward
<1>1. PICK n \in Nat : n = f[j]
  OBVIOUS
<1>2. n <= n
  OBVIOUS
<1> QED BY <1>1, <1>2

\* becomeFollower takes over a term only if it is higher.
LEMMA FollowerForward ==
  ASSUME TypeOK, NEW i \in Server, NEW t \in Nat, becomeFollower(i, t)
  PROVE  Forward(currentTerm, currentTerm')
<1>1. PICK c \in Nat, v \in Nat : c = currentTerm[i] /\ v = IF t > c THEN t ELSE c
  BY DEF TypeOK
<1>2. currentTerm' = [currentTerm EXCEPT ![i] = v]
  BY <1>1 DEF becomeFollower
<1>3. c <= v
  BY <1>1
<1> QED BY <1>1, <1>2, <1>3, Moved DEF TypeOK

\* A step that leaves the indices alone.
LEMMA OnwardTerms ==
  ASSUME TypeOK, Forward(currentTerm, currentTerm'),
         UNCHANGED <<commitIndex, lastApplied, appliedIndex, lastIncludedIndex>>
  PROVE  Onward
BY Unmoved DEF TypeOK, Onward

\* Elections and votes.
LEMMA OnwardElections ==
  ASSUME TypeOK,
         \/ \E i \in Server : \E reach \in SUBSET (Server \ {i}) : startElection(i, reach)
         \/ \E m \in rpcs : RequestVote(m)
  PROVE  Onward
<1>1. ASSUME NEW i \in Server, NEW reach \in SUBSET (Server \ {i}), startElection(i, reach)
      PROVE  Onward
  <2>1. PICK c \in Nat, v \in Nat : c = currentTerm[i] /\ v = c + 1
    BY DEF TypeOK
  <2>2. currentTerm' = [currentTerm EXCEPT ![i] = v]
    BY <1>1, <2>1 DEF startElection
  <2>3. c <= v
    BY <2>1
  <2>4. Forward(currentTerm, currentTerm')
    BY <2>1, <2>2, <2>3, Moved DEF TypeOK
  <2>5. UNCHANGED <<commitIndex, lastApplied, appliedIndex, lastIncludedIndex>>
    BY <1>1 DEF startElection, service
  <2> QED BY <2>4, <2>5, OnwardTerms
<1>2. ASSUME NEW m \in rpcs, RequestVote(m) PROVE Onward
  <2>1. m \in RequestVoteArgs
    BY <1>2, RPCTypes DEF TypeOK, RequestVote
  <2>2. PICK i \in Server, t \in Nat : i = m.to /\ t = m.Term
    BY <2>1 DEF RequestVoteArgs
  <2>3. PICK c \in Nat : c = currentTerm[i]
    BY DEF TypeOK
  <2>4. PICK v \in Nat : currentTerm' = [currentTerm EXCEPT ![i] = v] /\ c <= v
    <3>1. CASE ~(dead[i] \/ m.Term < currentTerm[i]) /\ m.Term > currentTerm[i]
      <4>1. currentTerm' = [currentTerm EXCEPT ![i] = t]
        BY <1>2, <2>2, <3>1 DEF RequestVote
      <4>2. c <= t
        BY <2>2, <2>3, <3>1
      <4> QED BY <4>1, <4>2
    <3>2. CASE ~(~(dead[i] \/ m.Term < currentTerm[i]) /\ m.Term > currentTerm[i])
      <4>1. currentTerm' = [currentTerm EXCEPT ![i] = c]
        BY <1>2, <2>2, <2>3, <3>2 DEF RequestVote
      <4>2. c <= c
        OBVIOUS
      <4> QED BY <4>1, <4>2
    <3> QED BY <3>1, <3>2
  <2>5. Forward(currentTerm, currentTerm')
    BY <2>3, <2>4, Moved DEF TypeOK
  <2>6. UNCHANGED <<commitIndex, lastApplied, appliedIndex, lastIncludedIndex>>
    BY <1>2 DEF RequestVote, service
  <2> QED BY <2>5, <2>6, OnwardTerms
<1> QED BY <1>1, <1>2

\* Replies that end a leadership or candidacy, or change nothing of this.
LEMMA OnwardReplies ==
  ASSUME TypeOK, NEW m \in rpcs,
         RequestVoteReply(m) \/ HeartbeatReply(m) \/ InstallSnapshotReply(m)
  PROVE  Onward
<1>1. PICK i \in Server, t \in Nat : i = m.to /\ t = m.Term
  <2>1. m \in RequestVoteReplies \/ m \in HeartbeatReplies \/ m \in InstallSnapshotReplies
    BY RPCTypes DEF TypeOK, RequestVoteReply, HeartbeatReply, InstallSnapshotReply
  <2>2. m.to \in Server /\ m.Term \in Nat
    BY <2>1 DEF RequestVoteReplies, HeartbeatReplies, InstallSnapshotReplies
  <2> QED BY <2>2
<1>2. UNCHANGED <<commitIndex, lastApplied, appliedIndex, lastIncludedIndex>>
  <2>1. CASE RequestVoteReply(m)
    BY <2>1 DEF RequestVoteReply, stepDown, service, persistent
  <2>2. CASE HeartbeatReply(m)
    BY <2>2 DEF HeartbeatReply, stepDown, service, persistent
  <2>3. CASE InstallSnapshotReply(m)
    BY <2>3 DEF InstallSnapshotReply, stepDown, service, persistent
  <2> QED BY <2>1, <2>2, <2>3
<1>3. becomeFollower(i, t) \/ currentTerm' = currentTerm
  <2>1. CASE RequestVoteReply(m)
    BY <1>1, <2>1 DEF RequestVoteReply, stepDown, persistent
  <2>2. CASE HeartbeatReply(m)
    BY <1>1, <2>2 DEF HeartbeatReply, stepDown, persistent
  <2>3. CASE InstallSnapshotReply(m)
    BY <1>1, <2>3 DEF InstallSnapshotReply, stepDown, persistent
  <2> QED BY <2>1, <2>2, <2>3
<1>4. Forward(currentTerm, currentTerm')
  <2>1. CASE becomeFollower(i, t)
    BY <2>1, FollowerForward
  <2>2. CASE currentTerm' = currentTerm
    BY <2>2, Unmoved DEF TypeOK
  <2> QED BY <1>3, <2>1, <2>2
<1> QED BY <1>2, <1>4, OnwardTerms

\* A step in which only the commit index and the term of a server move.
LEMMA OnwardCommit ==
  ASSUME TypeOK, Forward(currentTerm, currentTerm'), Forward(commitIndex, commitIndex'),
         UNCHANGED <<lastApplied, appliedIndex, lastIncludedIndex>>
  PROVE  Onward
BY Unmoved DEF TypeOK, Onward

\* AppendEntries takes over the leader's commit index only upwards.
LEMMA OnwardAppendEntries ==
  ASSUME TypeOK, TypeOK', NEW m \in rpcs, AppendEntries(m)
  PROVE  Onward
<1>1. m \in AppendEntriesArgs
  BY RPCTypes DEF TypeOK, AppendEntries
<1>2. PICK i \in Server, t \in Nat : i = m.to /\ t = m.Term
  BY <1>1 DEF AppendEntriesArgs
<1>3. UNCHANGED <<lastApplied, appliedIndex, lastIncludedIndex>>
  BY DEF AppendEntries, service, persistent
<1>4. CASE UNCHANGED <<persistent, commitIndex>>
  <2>1. currentTerm' = currentTerm /\ commitIndex' = commitIndex
    BY <1>4 DEF persistent
  <2>2. Forward(currentTerm, currentTerm') /\ Forward(commitIndex, commitIndex')
    BY <2>1, Unmoved DEF TypeOK
  <2> QED BY <1>3, <2>2, OnwardCommit
<1>5. CASE ~UNCHANGED <<persistent, commitIndex>>
  <2>1. becomeFollower(i, t)
    BY <1>2, <1>5 DEF AppendEntries
  <2>2. PICK v : commitIndex' = [commitIndex EXCEPT ![i] = v]
               /\ v = followerCommit(i, m, PrevLogCheck(i, m).Success)
    BY <1>2, <1>5 DEF AppendEntries
  <2>3. PICK c \in Nat : c = commitIndex[i]
    BY DEF TypeOK
  <2>4. v \in Nat
    <3>1. commitIndex'[i] = v /\ commitIndex'[i] \in Nat
      BY <2>2 DEF TypeOK
    <3> QED BY <3>1
  <2>5. c <= v
    <3>1. CASE ~PrevLogCheck(i, m).Success
      <4>1. v = c /\ c <= c
        BY <2>2, <2>3, <3>1 DEF followerCommit
      <4> QED BY <4>1
    <3>2. CASE PrevLogCheck(i, m).Success
      <4>1. PICK a \in Nat, b \in Nat : a = m.LeaderCommit /\ b = m.PrevLogIndex + Len(m.Entries)
        <5>1. m.LeaderCommit \in Nat /\ m.PrevLogIndex \in Nat /\ m.Entries \in Seq(Entry)
          BY <1>1 DEF AppendEntriesArgs
        <5>2. Len(m.Entries) \in Nat
          BY <5>1, LenProperties
        <5>3. m.PrevLogIndex + Len(m.Entries) \in Nat
          BY <5>1, <5>2
        <5> QED BY <5>1, <5>3
      <4>2. PICK n \in Int : n = Min({a, b})
        <5>1. a \in Int /\ b \in Int
          OBVIOUS
        <5>2. Min({a, b}) \in {a, b}
          BY <5>1, MinOfTwo
        <5> QED BY <5>1, <5>2
      <4>3. v = Max({c, n})
        BY <2>2, <2>3, <3>2, <4>1, <4>2 DEF followerCommit
      <4>4. c \in Int
        OBVIOUS
      <4>5. v >= c
        BY <4>3, <4>4, MaxOfTwo
      <4> QED BY <2>4, <4>5
    <3> QED BY <3>1, <3>2
  <2>6. Forward(commitIndex, commitIndex')
    BY <2>2, <2>3, <2>4, <2>5, Moved DEF TypeOK
  <2>7. Forward(currentTerm, currentTerm')
    BY <2>1, FollowerForward
  <2> QED BY <1>3, <2>6, <2>7, OnwardCommit
<1> QED BY <1>4, <1>5

\* InstallSnapshot ignores a snapshot that is not ahead of the commit index.
LEMMA OnwardInstall ==
  ASSUME TypeOK, Committing, NEW m \in rpcs, InstallSnapshot(m)
  PROVE  Onward
<1>1. m \in InstallSnapshotArgs
  BY RPCTypes DEF TypeOK, InstallSnapshot
<1>2. PICK i \in Server, t \in Nat, x \in Nat : i = m.to /\ t = m.Term /\ x = m.LastIncludedIndex
  BY <1>1 DEF InstallSnapshotArgs
<1>3. UNCHANGED appliedIndex
  BY DEF InstallSnapshot, service
<1>4. Forward(appliedIndex, appliedIndex')
  BY <1>3, Unmoved DEF TypeOK
<1>5. becomeFollower(i, t) \/ currentTerm' = currentTerm
  BY <1>2 DEF InstallSnapshot, persistent
<1>6. Forward(currentTerm, currentTerm')
  <2>1. CASE becomeFollower(i, t)
    BY <2>1, FollowerForward
  <2>2. CASE currentTerm' = currentTerm
    BY <2>2, Unmoved DEF TypeOK
  <2> QED BY <1>5, <2>1, <2>2
<1>7. CASE UNCHANGED <<commitIndex, lastApplied, lastIncludedIndex>>
  BY <1>3, <1>6, <1>7, OnwardTerms
<1>8. CASE ~UNCHANGED <<commitIndex, lastApplied, lastIncludedIndex>>
  <2>1. /\ isNewer(i, m)
        /\ commitIndex' = [commitIndex EXCEPT ![i] = x]
        /\ lastApplied' = [lastApplied EXCEPT ![i] = x]
        /\ lastIncludedIndex' = [lastIncludedIndex EXCEPT ![i] = x]
    BY <1>2, <1>8 DEF InstallSnapshot, persistent
  <2>2. PICK f \in Nat, l \in Nat, c \in Nat :
          f = lastIncludedIndex[i] /\ l = lastApplied[i] /\ c = commitIndex[i]
    BY DEF TypeOK
  <2>3. f <= c /\ l <= c /\ x > c
    BY <1>2, <2>1, <2>2 DEF Committing, isNewer
  <2>4. f <= x /\ l <= x /\ c <= x
    BY <2>3
  <2>5. Forward(commitIndex, commitIndex')
    BY <2>1, <2>2, <2>4, Moved DEF TypeOK
  <2>6. Forward(lastApplied, lastApplied')
    BY <2>1, <2>2, <2>4, Moved DEF TypeOK
  <2>7. Forward(lastIncludedIndex, lastIncludedIndex')
    BY <2>1, <2>2, <2>4, Moved DEF TypeOK
  <2> QED BY <1>4, <1>6, <2>5, <2>6, <2>7 DEF Onward
<1> QED BY <1>7, <1>8

\* advanceCommitIndex commits more or nothing.
LEMMA OnwardLeader ==
  ASSUME TypeOK, \/ \E i \in Server : Start(i)
                 \/ \E m \in rpcs : AppendEntriesReply(m)
  PROVE  Onward
<1>1. ASSUME NEW i \in Server, NEW log \in Seq(Entry), NEW match, NEW v,
             v = commitIndex[i] \/ v = advanceCommitIndex(i, log, match),
             commitIndex' = [commitIndex EXCEPT ![i] = v]
      PROVE  Forward(commitIndex, commitIndex')
  <2>1. PICK c \in Nat : c = commitIndex[i]
    BY DEF TypeOK
  <2>2. lastIncludedIndex[i] \in Nat
    BY DEF TypeOK
  <2>3. v \in Nat /\ c <= v
    <3>1. CASE v = commitIndex[i]
      <4>1. c <= c
        OBVIOUS
      <4> QED BY <2>1, <3>1, <4>1
    <3>2. CASE v = advanceCommitIndex(i, log, match)
      <4>1. v \in Nat /\ v >= c
        BY <2>1, <2>2, <3>2, AdvanceType
      <4> QED BY <4>1
    <3> QED BY <1>1, <3>1, <3>2
  <2> QED BY <1>1, <2>1, <2>3, Moved DEF TypeOK
<1>2. ASSUME NEW i \in Server, Start(i) PROVE Onward
  <2>1. PICK log \in Seq(Entry) : log = Append(logs[i], [Term |-> currentTerm[i], Command |-> ops + 1])
    <3>1. logs[i] \in Seq(Entry) /\ currentTerm[i] \in Nat /\ ops \in Nat
      BY DEF TypeOK, Log
    <3>2. [Term |-> currentTerm[i], Command |-> ops + 1] \in Entry
      BY <3>1 DEF Entry
    <3>3. Append(logs[i], [Term |-> currentTerm[i], Command |-> ops + 1]) \in Seq(Entry)
      BY <3>1, <3>2
    <3> QED BY <3>3
  <2>2. PICK match : match = matchIndex'[i]
    OBVIOUS
  <2>3. PICK v : v = IF Cardinality(Server) = 1
                     THEN advanceCommitIndex(i, log, match) ELSE commitIndex[i]
    OBVIOUS
  <2>4. commitIndex' = [commitIndex EXCEPT ![i] = v]
    BY <1>2, <2>1, <2>2, <2>3 DEF Start
  <2>5. v = commitIndex[i] \/ v = advanceCommitIndex(i, log, match)
    BY <2>3
  <2>6. Forward(commitIndex, commitIndex')
    BY <1>1, <2>4, <2>5
  <2>7. UNCHANGED <<currentTerm, lastApplied, appliedIndex, lastIncludedIndex>>
    BY <1>2 DEF Start, service
  <2>8. Forward(currentTerm, currentTerm')
    BY <2>7, Unmoved DEF TypeOK
  <2> QED BY <2>6, <2>7, <2>8, OnwardCommit
<1>3. ASSUME NEW m \in rpcs, AppendEntriesReply(m) PROVE Onward
  <2>1. m \in AppendEntriesReplies
    BY <1>3, RPCTypes DEF TypeOK, AppendEntriesReply
  <2>2. PICK i \in Server, t \in Nat : i = m.to /\ t = m.Term
    BY <2>1 DEF AppendEntriesReplies
  <2>3. UNCHANGED <<lastApplied, appliedIndex, lastIncludedIndex>>
    BY <1>3 DEF AppendEntriesReply, stepDown, service, persistent
  <2>4. becomeFollower(i, t) \/ currentTerm' = currentTerm
    BY <1>3, <2>2 DEF AppendEntriesReply, stepDown, persistent
  <2>5. Forward(currentTerm, currentTerm')
    <3>1. CASE becomeFollower(i, t)
      BY <3>1, FollowerForward
    <3>2. CASE currentTerm' = currentTerm
      BY <3>2, Unmoved DEF TypeOK
    <3> QED BY <2>4, <3>1, <3>2
  <2>6. CASE commitIndex' = commitIndex
    BY <2>3, <2>5, <2>6, OnwardTerms
  <2>7. CASE commitIndex' # commitIndex
    <3>0. PICK match : match = matchIndex'[i]
      OBVIOUS
    <3>1. PICK log \in Seq(Entry) : log = logs[i] /\ match = matchIndex'[i]
      BY <3>0 DEF TypeOK, Log
    <3>2. PICK v : v = IF m.PrevLogIndex + m.Count > matchIndex[i][m.from]
                       THEN advanceCommitIndex(i, log, match) ELSE commitIndex[i]
      OBVIOUS
    <3>3. commitIndex' = [commitIndex EXCEPT ![i] = v]
      BY <1>3, <2>2, <2>7, <3>1, <3>2 DEF AppendEntriesReply
    <3>4. v = commitIndex[i] \/ v = advanceCommitIndex(i, log, match)
      BY <3>2
    <3>5. Forward(commitIndex, commitIndex')
      BY <1>1, <3>3, <3>4
    <3> QED BY <2>3, <2>5, <3>5, OnwardCommit
  <2> QED BY <2>6, <2>7
<1> QED BY <1>2, <1>3

\* The applier, the service and its snapshots.
LEMMA OnwardService ==
  ASSUME TypeOK, Committing, ServiceInv, NEW i \in Server, applier(i) \/ Deliver(i) \/ Snapshot(i)
  PROVE  Onward
<1>1. CASE applier(i)
  <2>1. UNCHANGED <<currentTerm, commitIndex, appliedIndex, lastIncludedIndex>>
    BY <1>1 DEF applier, persistent
  <2>2. PICK l \in Nat, c \in Nat : l = lastApplied[i] /\ c = commitIndex[i]
    BY DEF TypeOK
  <2>3. PICK v \in Nat : lastApplied' = [lastApplied EXCEPT ![i] = v] /\ l <= v
    <3>1. CASE pendingSnapshot[i] # None
      <4>1. PICK n \in Nat : n = pendingSnapshot[i].Index
        BY <3>1 DEF TypeOK
      <4>2. Max({l, n}) \in Nat /\ Max({l, n}) >= l
        BY MaxNat
      <4>3. PICK v \in Nat : v = Max({l, n})
        BY <4>2
      <4>4. lastApplied' = [lastApplied EXCEPT ![i] = v]
        BY <1>1, <2>2, <3>1, <4>1, <4>3 DEF applier
      <4>5. l <= v
        BY <4>2, <4>3
      <4> QED BY <4>4, <4>5
    <3>2. CASE pendingSnapshot[i] = None
      <4>1. lastApplied' = [lastApplied EXCEPT ![i] = c] /\ l < c
        BY <1>1, <2>2, <3>2 DEF applier
      <4>2. l <= c
        BY <4>1
      <4> QED BY <4>1, <4>2
    <3> QED BY <3>1, <3>2
  <2>4. Forward(lastApplied, lastApplied')
    BY <2>2, <2>3, Moved DEF TypeOK
  <2> QED BY <2>1, <2>4, Unmoved DEF TypeOK, Onward
<1>2. CASE Deliver(i)
  <2>1. UNCHANGED <<currentTerm, commitIndex, lastApplied, lastIncludedIndex>>
    BY <1>2 DEF Deliver, persistent
  <2>2. appliedIndex[i] <= appliedIndex'[i]
    BY <1>2, ServiceDeliver
  <2>3. \A j \in Server : j # i => appliedIndex'[j] = appliedIndex[j]
    BY <1>2 DEF Deliver, TypeOK
  <2>4. \A j \in Server : appliedIndex[j] \in Nat
    BY DEF TypeOK
  <2>5. ASSUME NEW j \in Server PROVE appliedIndex[j] <= appliedIndex'[j]
    <3>1. CASE j = i
      BY <2>2, <3>1
    <3>2. CASE j # i
      <4>1. PICK n \in Nat : n = appliedIndex[j]
        BY <2>4
      <4>2. n <= n
        OBVIOUS
      <4> QED BY <2>3, <3>2, <4>1, <4>2
    <3> QED BY <3>1, <3>2
  <2>6. Forward(appliedIndex, appliedIndex')
    BY <2>5 DEF Forward
  <2> QED BY <2>1, <2>6, Unmoved DEF TypeOK, Onward
<1>3. CASE Snapshot(i)
  <2>1. UNCHANGED <<currentTerm, commitIndex, lastApplied, appliedIndex>>
    BY <1>3 DEF Snapshot, service
  <2>2. PICK a \in Nat, f \in Nat : a = appliedIndex[i] /\ f = lastIncludedIndex[i]
    BY DEF TypeOK
  <2>3. lastIncludedIndex' = [lastIncludedIndex EXCEPT ![i] = a] /\ a > f
    BY <1>3, <2>2 DEF Snapshot, snapshotIndex
  <2>4. f <= a
    BY <2>3
  <2>5. Forward(lastIncludedIndex, lastIncludedIndex')
    BY <2>2, <2>3, <2>4, Moved DEF TypeOK
  <2> QED BY <2>1, <2>5, Unmoved DEF TypeOK, Onward
<1> QED BY <1>1, <1>2, <1>3

\* Every step but a restart moves no server backwards.
LEMMA OnwardStep ==
  ASSUME TypeOK, TypeOK', Committing, ServiceInv, [Next]_vars
  PROVE  Onward \/ \E i \in Server : Make(i)
<1>1. ASSUME UNCHANGED <<currentTerm, commitIndex, lastApplied, appliedIndex, lastIncludedIndex>>
      PROVE  Onward
  BY <1>1, Unmoved DEF TypeOK, Onward
<1>2. CASE UNCHANGED vars
  BY <1>1, <1>2 DEF vars, persistent, service
<1>3. ASSUME NEW i \in Server, \E reach \in SUBSET (Server \ {i}) : startElection(i, reach) PROVE Onward
  BY <1>3, OnwardElections
<1>4. ASSUME NEW i \in Server, Start(i) PROVE Onward
  BY <1>4, OnwardLeader
<1>5. ASSUME NEW i \in Server, applier(i) \/ Deliver(i) \/ Snapshot(i) PROVE Onward
  BY <1>5, OnwardService
<1>6. ASSUME NEW i \in Server, Kill(i) PROVE Onward
  BY <1>1, <1>6 DEF Kill, persistent, service
<1>7. ASSUME NEW i \in Server, NEW p \in Server, Replicate(i, p) \/ Heartbeat(i, p) PROVE Onward
  BY <1>1, <1>7 DEF Replicate, Heartbeat, persistent, service
<1>8. ASSUME NEW m \in rpcs, Handle(m) PROVE Onward
  <2>1. CASE DropRPC(m)
    BY <1>1, <2>1 DEF DropRPC, persistent, service
  <2> QED BY <1>8, <2>1, OnwardElections, OnwardReplies, OnwardAppendEntries, OnwardInstall, OnwardLeader
          DEF Handle
<1> QED BY <1>2, <1>3, <1>4, <1>5, <1>6, <1>7, <1>8 DEF Next

\* Outside a restart no handler, late or reordered, takes back a term, what a
\* server committed or applied, or its snapshot (becomeFollower, AppendEntries,
\* InstallSnapshot, advanceCommitIndex, applier).
THEOREM OnlyForward == Spec => NeverBackwards
<1>1. ASSUME TypeOK, TypeOK', Explained, ServiceInv, [Next]_vars
      PROVE  [\A i \in Server : dead[i] = dead'[i] =>
                /\ currentTerm[i] <= currentTerm'[i]
                /\ commitIndex[i] <= commitIndex'[i]
                /\ lastApplied[i] <= lastApplied'[i]
                /\ appliedIndex[i] <= appliedIndex'[i]
                /\ lastIncludedIndex[i] <= lastIncludedIndex'[i]]_vars
  <2>1. Committing
    BY <1>1, LogCommits
  <2>2. CASE Onward
    BY <2>2 DEF Onward, Forward
  <2>3. ASSUME NEW i \in Server, Make(i), NEW j \in Server, dead[j] = dead'[j]
        PROVE  /\ currentTerm[j] <= currentTerm'[j]
               /\ commitIndex[j] <= commitIndex'[j]
               /\ lastApplied[j] <= lastApplied'[j]
               /\ appliedIndex[j] <= appliedIndex'[j]
               /\ lastIncludedIndex[j] <= lastIncludedIndex'[j]
    <3>1. j # i
      <4>1. dead \in [Server -> BOOLEAN]
        BY <1>1 DEF TypeOK
      <4>2. dead[i] /\ dead' = [dead EXCEPT ![i] = FALSE]
        BY <2>3 DEF Make
      <4>3. ~dead'[i]
        BY <4>1, <4>2
      <4> QED BY <2>3, <4>2, <4>3
    <3>2. /\ currentTerm[j] = currentTerm'[j] /\ commitIndex[j] = commitIndex'[j]
          /\ lastApplied[j] = lastApplied'[j] /\ appliedIndex[j] = appliedIndex'[j]
          /\ lastIncludedIndex[j] = lastIncludedIndex'[j]
      BY <1>1, <2>3, <3>1 DEF Make, readPersist, TypeOK
    <3>3. PICK a \in Nat, b \in Nat, c \in Nat, d \in Nat, e \in Nat :
            /\ a = currentTerm[j] /\ b = commitIndex[j] /\ c = lastApplied[j]
            /\ d = appliedIndex[j] /\ e = lastIncludedIndex[j]
      BY <1>1 DEF TypeOK
    <3>4. a <= a /\ b <= b /\ c <= c /\ d <= d /\ e <= e
      OBVIOUS
    <3> QED BY <3>2, <3>3, <3>4
  <2> QED BY <1>1, <2>1, <2>2, <2>3, OnwardStep
<1> QED BY <1>1, TypeCorrect, LogInvariant, ServiceInvariant, PTL DEF Spec, NeverBackwards

(***************************************************************************)
(* The back-off.                                                           *)
(***************************************************************************)
\* The leader's last entry of a term is in its log.
LEMMA LastOfTerm ==
  ASSUME TypeOK, NEW i \in Server, NEW t, lastIndexOfTerm(i, t) # -1
  PROVE  /\ lastIndexOfTerm(i, t) \in Nat
         /\ containsIndex(i, lastIndexOfTerm(i, t))
         /\ termAt(i, lastIndexOfTerm(i, t)) = t
<1> DEFINE S == {k \in 1..Len(logs[i]) : logs[i][k].Term = t}
<1>1. lastIndexOfTerm(i, t) = IF S = {} THEN -1 ELSE lastIncludedIndex[i] + Max(S) - 1
  BY DEF lastIndexOfTerm
<1>2. S # {}
  BY <1>1
<1>3. PICK z \in Nat : z = Len(logs[i])
  BY DEF TypeOK, Log
<1>4. S \subseteq 1..z
  BY <1>3
<1>5. PICK x : x = Max(S)
  OBVIOUS
<1>6. x \in S
  <2> HIDE DEF S
  <2>1. 1 \in Int /\ z \in Int
    OBVIOUS
  <2>2. IsFiniteSet(S) /\ S \subseteq Int
    BY <1>4, <2>1, IndexSetFinite
  <2> QED BY <1>2, <1>5, <2>2, MaxOfFinite
<1>7. x \in 1..z /\ logs[i][x].Term = t
  BY <1>3, <1>6
<1>8. PICK f \in Nat : f = lastIncludedIndex[i]
  BY DEF TypeOK
<1> HIDE DEF S
<1>9. PICK last \in Nat : last = f + x - 1
  BY <1>7
<1>10. lastIndexOfTerm(i, t) = last
  BY <1>1, <1>2, <1>5, <1>8, <1>9
<1>11. last >= f /\ last <= f + z - 1 /\ last - f + 1 = x
  BY <1>7, <1>9
<1>12. containsIndex(i, last)
  BY <1>3, <1>8, <1>11 DEF containsIndex, lastLogIndex
<1>13. termAt(i, last) = t
  BY <1>7, <1>8, <1>11 DEF termAt, toOffset
<1> QED BY <1>10, <1>12, <1>13

\* The smaller of two indices is no greater than either.
LEMMA MinBelow ==
  ASSUME NEW a \in Int, NEW b \in Int
  PROVE  Min({a, b}) <= a /\ Min({a, b}) <= b
<1>1. \E x \in {a, b} : \A y \in {a, b} : x <= y
  BY SMT
<1> QED BY <1>1 DEF Min

\* The bounds of the back-off leave a hint other than next where it is not next.
LEMMA BackedOff ==
  ASSUME NEW hint \in Int, NEW last \in Nat, NEW match \in Nat, NEW prev \in Nat,
         match < prev, hint <= prev \/ (prev + 2 <= hint /\ hint <= last + 1)
  PROVE  Max({Min({Max({hint, 1}), last + 1}), match + 1}) # prev + 1
<1>1. PICK a \in Int : a = Max({hint, 1})
  <2>1. 1 \in Int
    OBVIOUS
  <2>2. Max({hint, 1}) \in {hint, 1}
    BY <2>1, MaxOfTwo
  <2> QED BY <2>1, <2>2
<1>2. (a = hint \/ a = 1) /\ a >= hint /\ a >= 1
  <2>1. 1 \in Int
    OBVIOUS
  <2>2. Max({hint, 1}) \in {hint, 1} /\ Max({hint, 1}) >= hint /\ Max({hint, 1}) >= 1
    BY <2>1, MaxOfTwo
  <2> QED BY <1>1, <2>2
<1>3. last + 1 \in Int
  OBVIOUS
<1>4. PICK b \in Int : b = Min({a, last + 1})
  <2>1. Min({a, last + 1}) \in {a, last + 1}
    BY <1>3, MinOfTwo
  <2> QED BY <1>3, <2>1
<1>5. (b = a \/ b = last + 1) /\ b <= a /\ b <= last + 1
  <2>1. Min({a, last + 1}) \in {a, last + 1}
    BY <1>3, MinOfTwo
  <2>2. Min({a, last + 1}) <= a /\ Min({a, last + 1}) <= last + 1
    BY <1>3, MinBelow
  <2> QED BY <1>4, <2>1, <2>2
<1>6. b # prev + 1
  <2>1. CASE hint <= prev
    BY <1>2, <1>5, <2>1
  <2>2. CASE prev + 2 <= hint /\ hint <= last + 1
    BY <1>2, <1>5, <2>2
  <2> QED BY <2>1, <2>2
<1>7. match + 1 \in Int
  OBVIOUS
<1>8. Max({b, match + 1}) \in {b, match + 1}
  BY <1>7, MaxOfTwo
<1>9. match + 1 # prev + 1
  OBVIOUS
<1> QED BY <1>1, <1>4, <1>6, <1>8, <1>9

\* A leader backs off to another index than the one it probed.
LEMMA InvBackoff ==
  ASSUME TypeOK, NEW h, LogInv(h)
  PROVE  BackoffMakesProgress
<1> SUFFICES ASSUME NEW m \in rpcs,
                    m.type = "AppendEntriesReply", ~m.Stopped, ~m.Success,
                    Expected(m.to, m), nextIndex[m.to][m.from] = m.PrevLogIndex + 1,
                    matchIndex[m.to][m.from] < m.PrevLogIndex
             PROVE  backedOffNext(m.to, m.from, m) # m.PrevLogIndex + 1
  BY DEF BackoffMakesProgress
<1>1. m \in AppendEntriesReplies
  BY RPCTypes DEF TypeOK
<1>2. PICK i \in Server, p \in Server, prev \in Nat, C \in Nat, T \in Nat :
        i = m.to /\ p = m.from /\ prev = m.PrevLogIndex /\ C = m.ConflictIndex /\ T = m.term
  BY <1>1 DEF AppendEntriesReplies
<1>3. PICK D \in Nat \cup {-1} : D = m.ConflictTerm
  BY <1>1 DEF AppendEntriesReplies
<1>4. PICK match \in Nat : match = matchIndex[i][p]
  BY DEF TypeOK
<1>5. state[i] = Leader /\ currentTerm[i] = T
  BY <1>2 DEF Expected
<1>6. /\ Hint(h, T, prev, m) /\ Stored(h, i) /\ Role(h, i)
  BY <1>2 DEF LogInv, Sound
<1>7. PICK f \in Nat, last \in Nat : f = lastIncludedIndex[i] /\ last = lastLogIndex(i)
  <2>1. PersistentTypes
    BY DEF TypeOK, PersistentTypes
  <2>2. lastIncludedIndex[i] \in Nat /\ lastLogIndex(i) \in Nat
    BY <2>1, LogFacts
  <2> QED BY <2>2
<1>8. last = h.len[T] /\ Same(h, lastLogTerm(i), T, last)
  BY <1>5, <1>6, <1>7 DEF Role
<1>9. ASSUME NEW k \in Nat, containsIndex(i, k) PROVE termAt(i, k) = h.log[T][k].Term
  <2>1. k \in f..last /\ k \in 0..last
    BY <1>7, <1>9 DEF containsIndex
  <2>2. termAt(i, k) = h.log[lastLogTerm(i)][k].Term
    BY <1>6, <1>7, <2>1 DEF Stored
  <2>3. h.log[lastLogTerm(i)][k] = h.log[T][k]
    BY <1>8, <2>1 DEF Same
  <2> QED BY <2>2, <2>3
<1>10. /\ D # h.log[T][prev].Term
       /\ C <= prev \/ (D = -1 /\ prev + 2 <= C /\ C <= last + 1)
  BY <1>2, <1>3, <1>6, <1>8 DEF Hint
<1>11. PICK own : own = lastIndexOfTerm(i, D)
  OBVIOUS
<1>12. PICK hint : hint = IF D # -1 /\ own >= 0 THEN own + 1 ELSE C
  OBVIOUS
<1>13. backedOffNext(i, p, m) = Max({Min({Max({hint, 1}), last + 1}), match + 1})
  BY <1>3, <1>4, <1>7, <1>11, <1>12, <1>2 DEF backedOffNext
<1>14. hint \in Int /\ (hint <= prev \/ (prev + 2 <= hint /\ hint <= last + 1))
  <2>1. CASE D # -1 /\ own >= 0 /\ own # -1
    <3>1. containsIndex(i, own) /\ termAt(i, own) = D
      BY <1>11, <2>1, LastOfTerm
    <3>2. own \in Nat
      BY <1>11, <2>1, LastOfTerm
    <3>3. own <= last
      BY <1>7, <3>1 DEF containsIndex
    <3>4. own # prev
      BY <1>9, <1>10, <3>1, <3>2
    <3>5. hint = own + 1
      BY <1>12, <2>1
    <3> QED BY <3>2, <3>3, <3>4, <3>5
  <2>2. CASE ~(D # -1 /\ own >= 0)
    <3>1. hint = C
      BY <1>12, <2>2
    <3> QED BY <1>10, <3>1
  <2>3. own = -1 => ~(own >= 0)
    OBVIOUS
  <2> QED BY <2>1, <2>2, <2>3
<1>15. match < prev
  BY <1>2, <1>4
<1>16. backedOffNext(i, p, m) # prev + 1
  BY <1>13, <1>14, <1>15, BackedOff
<1> QED BY <1>2, <1>16

\* What a leader does with a conflict reply moves nextIndex, so that a probe is
\* not repeated for ever: the follower's hint is never the index just probed, and
\* neither is what the leader makes of it from its own log.
THEOREM BackoffMoves == Spec => []BackoffMakesProgress
<1>1. Explained /\ TypeOK => BackoffMakesProgress
  BY InvBackoff DEF Explained
<1> QED BY <1>1, LogInvariant, TypeCorrect, PTL

=============================================================================
