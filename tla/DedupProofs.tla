---------------------------- MODULE DedupProofs ----------------------------
(***************************************************************************)
(* Deduplication is correct for any number of calls and tables.  The       *)
(* argument is DedupInv: an executed request is either still recorded in   *)
(* the table or lies below its watermark, and the watermark never reaches  *)
(* a call that is still waiting.                                           *)
(***************************************************************************)
EXTENDS Dedup, TLAPS

\* The session of a table after the acknowledgement of a request is typed, its
\* watermark stays below the clerk's, and it still accounts for every execution.
LEMMA AcknowledgedSession ==
    ASSUME TypeOK, DedupInv, NEW m \in sent
    PROVE  LET t == m.table
               session == Acknowledged(sessions[t], m)
           IN  /\ session \in SessionType
               /\ session.Ack <= ack
               /\ \A q \in Sequence : session.Replies[q] # NoReply =>
                    /\ session.Replies[q] <= Len(applied[t])
                    /\ applied[t][session.Replies[q]] = q
               /\ \A i \in 1..Len(applied[t]) :
                    \/ applied[t][i] <= session.Ack
                    \/ session.Replies[applied[t][i]] = i
<1> DEFINE t == m.table
           old == sessions[t]
           session == Acknowledged(old, m)
<1>1. /\ m \in Messages /\ t \in Table /\ m.Ack \in 0..MaxSeq /\ m.Ack <= ack
      /\ old \in SessionType /\ applied[t] \in Seq(Sequence)
  BY DEF TypeOK, DedupInv, SentInv, Messages
<1>2. /\ old.Ack <= ack
      /\ \A q \in Sequence : old.Replies[q] # NoReply =>
            /\ old.Replies[q] <= Len(applied[t])
            /\ applied[t][old.Replies[q]] = q
      /\ \A i \in 1..Len(applied[t]) :
            \/ applied[t][i] <= old.Ack
            \/ old.Replies[applied[t][i]] = i
  BY <1>1 DEF DedupInv, SessionInv
<1>3. CASE m.Ack > old.Ack
  <2>1. /\ session.Ack = m.Ack
        /\ session = [Ack |-> m.Ack, Replies |-> session.Replies]
        /\ session.Replies = [q \in Sequence |->
                                IF q <= m.Ack THEN NoReply ELSE old.Replies[q]]
    BY <1>3 DEF Acknowledged
  <2>2. session.Replies \in [Sequence -> Nat]
    BY <1>1, <2>1 DEF SessionType, NoReply
  <2>3. session \in SessionType
    BY <1>1, <2>1, <2>2 DEF SessionType
  <2>4. \A i \in 1..Len(applied[t]) : applied[t][i] \in Sequence
    BY <1>1
  <2>5. \A i \in 1..Len(applied[t]) :
            \/ applied[t][i] <= session.Ack
            \/ session.Replies[applied[t][i]] = i
    <3> SUFFICES ASSUME NEW i \in 1..Len(applied[t]), ~(applied[t][i] <= session.Ack)
                 PROVE  session.Replies[applied[t][i]] = i
      OBVIOUS
    <3>1. ~(applied[t][i] <= old.Ack)
      BY <1>1, <1>3, <2>1, <2>4, MaxSeqAssumption DEF SessionType, Sequence
    <3>2. old.Replies[applied[t][i]] = i
      BY <1>2, <3>1
    <3> QED BY <2>1, <2>4, <3>2
  <2>6. \A q \in Sequence : session.Replies[q] # NoReply =>
            session.Replies[q] = old.Replies[q]
    BY <2>1
  <2> QED BY <1>1, <1>2, <2>1, <2>3, <2>5, <2>6
<1>4. CASE ~(m.Ack > old.Ack)
  <2>1. session = old
    BY <1>4 DEF Acknowledged
  <2> QED BY <1>1, <1>2, <2>1
<1> QED BY <1>3, <1>4

\* What Table.Do does to a request: it answers from the record, refuses it
\* because of the watermark, or executes it for the first time.
LEMMA DoOutcome ==
    ASSUME TypeOK, DedupInv, NEW m \in sent
    PROVE  LET t == m.table
               q == m.Sequence
               session == Acknowledged(sessions[t], m)
               d == Do(m)
           IN  \/ /\ d.session = session /\ d.applied = applied[t]
                  /\ q <= session.Ack /\ d.answer = ErrStaleRequest
               \/ /\ d.session = session /\ d.applied = applied[t]
                  /\ q > session.Ack /\ session.Replies[q] # NoReply
                  /\ d.answer = session.Replies[q]
               \/ /\ q > session.Ack /\ session.Replies[q] = NoReply
                  /\ d.session = [session EXCEPT !.Replies[q] = Len(applied[t]) + 1]
                  /\ d.applied = Append(applied[t], q)
                  /\ d.answer = Len(applied[t]) + 1
<1> DEFINE t == m.table
           session == Acknowledged(sessions[t], m)
<1>1. /\ m.Ack \in Int /\ m.Sequence \in Int /\ m.Ack < m.Sequence
  BY MaxSeqAssumption DEF TypeOK, DedupInv, SentInv, Messages, Sequence
<1>2. session.Ack \in Int
  BY AcknowledgedSession DEF SessionType
<1>3. Stale(session, m) <=> m.Sequence <= session.Ack
  BY <1>1 DEF Stale
<1>4. ~(m.Ack >= m.Sequence)
  BY <1>1
<1> HIDE DEF session
<1>5. Do(m) =
        LET fresh == ~Stale(session, m) /\ session.Replies[m.Sequence] = NoReply
        IN  [session |-> IF fresh
                         THEN [session EXCEPT !.Replies[m.Sequence] =
                                                    Len(applied[t]) + 1]
                         ELSE session,
             applied |-> IF fresh THEN Append(applied[t], m.Sequence)
                         ELSE applied[t],
             answer |-> IF Stale(session, m) THEN ErrStaleRequest
                        ELSE IF fresh THEN Len(applied[t]) + 1
                        ELSE session.Replies[m.Sequence]]
  BY <1>4 DEF Do, Recorded, session
<1>6. CASE Stale(session, m)
  BY <1>3, <1>5, <1>6 DEF session
<1>7. CASE ~Stale(session, m) /\ session.Replies[m.Sequence] # NoReply
  BY <1>1, <1>2, <1>3, <1>5, <1>7 DEF session
<1>8. CASE ~Stale(session, m) /\ session.Replies[m.Sequence] = NoReply
  BY <1>1, <1>2, <1>3, <1>5, <1>8 DEF session
<1> QED BY <1>6, <1>7, <1>8

\* A first execution is of a request that the history does not contain.
LEMMA FirstExecutionIsNew ==
    ASSUME TypeOK, DedupInv, NEW m \in sent,
           m.Sequence > Acknowledged(sessions[m.table], m).Ack,
           Acknowledged(sessions[m.table], m).Replies[m.Sequence] = NoReply
    PROVE  \A i \in 1..Len(applied[m.table]) : applied[m.table][i] # m.Sequence
<1> DEFINE session == Acknowledged(sessions[m.table], m)
<1>1. /\ session \in SessionType /\ m.Sequence \in Sequence
      /\ applied[m.table] \in Seq(Sequence)
  BY AcknowledgedSession DEF TypeOK, Messages
<1>2. \A i \in 1..Len(applied[m.table]) :
            \/ applied[m.table][i] <= session.Ack
            \/ session.Replies[applied[m.table][i]] = i
  BY AcknowledgedSession
<1> SUFFICES ASSUME NEW i \in 1..Len(applied[m.table]),
                    applied[m.table][i] = m.Sequence
             PROVE  FALSE
  OBVIOUS
<1>3. m.Sequence \in Int /\ session.Ack \in Int
  BY <1>1, MaxSeqAssumption DEF SessionType, Sequence
<1>4. ~(m.Sequence <= session.Ack)
  BY <1>3
<1>5. session.Replies[m.Sequence] = i
  BY <1>2, <1>4
<1> QED BY <1>1, <1>5 DEF NoReply

\* Executing a request keeps the tables and histories typed; the history of its
\* state machine stays or grows by the request.
LEMMA ExecuteTypes ==
    ASSUME TypeOK, DedupInv, NEW m \in sent, Execute(m)
    PROVE  /\ sessions' \in [Table -> SessionType]
           /\ applied' \in [Table -> Seq(Sequence)]
           /\ Do(m).answer \in Int
<1> DEFINE t == m.table
           session == Acknowledged(sessions[t], m)
<1>1. /\ t \in Table /\ m.Sequence \in Sequence
      /\ session \in SessionType /\ applied[t] \in Seq(Sequence)
      /\ sessions \in [Table -> SessionType] /\ applied \in [Table -> Seq(Sequence)]
  BY AcknowledgedSession DEF TypeOK, Messages
<1> HIDE DEF session
<1>2. ASSUME NEW n \in Nat
      PROVE  [session EXCEPT !.Replies[m.Sequence] = n] \in SessionType
  BY <1>1 DEF SessionType
<1>3. Append(applied[t], m.Sequence) \in Seq(Sequence)
  BY <1>1
<1>4. Len(applied[t]) + 1 \in Nat
  BY <1>1
<1>5. /\ ErrStaleRequest \in Int
      /\ session.Replies[m.Sequence] \in Int
  BY <1>1 DEF ErrStaleRequest, SessionType
<1>6. \/ /\ Do(m).session = session /\ Do(m).applied = applied[t]
         /\ Do(m).answer \in {ErrStaleRequest, session.Replies[m.Sequence]}
      \/ /\ Do(m).session = [session EXCEPT !.Replies[m.Sequence] =
                                                    Len(applied[t]) + 1]
         /\ Do(m).applied = Append(applied[t], m.Sequence)
         /\ Do(m).answer = Len(applied[t]) + 1
  BY DoOutcome DEF session
<1>7. Do(m).session \in SessionType
  BY <1>1, <1>2, <1>4, <1>6
<1>8. Do(m).applied \in Seq(Sequence)
  BY <1>1, <1>3, <1>6
<1>9. Len(applied[t]) + 1 \in Int
  BY <1>4
<1>10. Do(m).answer \in Int
  BY <1>5, <1>6, <1>9
<1> QED BY <1>1, <1>7, <1>8, <1>10 DEF Execute

\* Histories only grow at their end.
LEMMA HistoryGrows ==
    ASSUME TypeOK, DedupInv, NEW m \in sent, Execute(m), NEW t \in Table
    PROVE  /\ Len(applied[t]) <= Len(applied'[t])
           /\ \A i \in 1..Len(applied[t]) : applied'[t][i] = applied[t][i]
<1>1. /\ m.Sequence \in Sequence /\ applied[t] \in Seq(Sequence)
      /\ applied \in [Table -> Seq(Sequence)] /\ m.table \in Table
  BY DEF TypeOK, Messages
<1>2. applied'[t] \in {applied[t], Append(applied[t], m.Sequence)}
  BY <1>1, DoOutcome DEF Execute
<1> QED BY <1>1, <1>2

\* Executing a request keeps every execution recorded or fenced, and unique.
LEMMA ExecuteKeepsSessions ==
    ASSUME TypeOK, DedupInv, AtMostOnce, NEW m \in sent, Execute(m), ack' = ack
    PROVE  SessionInv' /\ AtMostOnce'
<1> DEFINE s == m.table
           q == m.Sequence
           session == Acknowledged(sessions[s], m)
<1>1. /\ s \in Table /\ q \in Sequence
      /\ session \in SessionType /\ applied[s] \in Seq(Sequence)
      /\ sessions \in [Table -> SessionType] /\ applied \in [Table -> Seq(Sequence)]
  BY AcknowledgedSession DEF TypeOK, Messages
<1>2. /\ session.Ack <= ack
      /\ \A p \in Sequence : session.Replies[p] # NoReply =>
            /\ session.Replies[p] <= Len(applied[s])
            /\ applied[s][session.Replies[p]] = p
      /\ \A i \in 1..Len(applied[s]) :
            \/ applied[s][i] <= session.Ack
            \/ session.Replies[applied[s][i]] = i
  BY AcknowledgedSession
<1>3. /\ sessions'[s] = Do(m).session /\ applied'[s] = Do(m).applied
      /\ \A t \in Table : t # s => /\ sessions'[t] = sessions[t]
                                   /\ applied'[t] = applied[t]
  BY <1>1 DEF Execute
<1>4. ASSUME NEW t \in Table, t # s
      PROVE  /\ sessions'[t].Ack <= ack'
             /\ \A p \in Sequence : sessions'[t].Replies[p] # NoReply =>
                  /\ sessions'[t].Replies[p] <= Len(applied'[t])
                  /\ applied'[t][sessions'[t].Replies[p]] = p
             /\ \A i \in 1..Len(applied'[t]) :
                  \/ applied'[t][i] <= sessions'[t].Ack
                  \/ sessions'[t].Replies[applied'[t][i]] = i
             /\ \A i, j \in 1..Len(applied'[t]) :
                  applied'[t][i] = applied'[t][j] => i = j
  BY <1>3, <1>4 DEF DedupInv, SessionInv, AtMostOnce
<1>5. /\ sessions'[s].Ack <= ack'
      /\ \A p \in Sequence : sessions'[s].Replies[p] # NoReply =>
           /\ sessions'[s].Replies[p] <= Len(applied'[s])
           /\ applied'[s][sessions'[s].Replies[p]] = p
      /\ \A i \in 1..Len(applied'[s]) :
           \/ applied'[s][i] <= sessions'[s].Ack
           \/ sessions'[s].Replies[applied'[s][i]] = i
      /\ \A i, j \in 1..Len(applied'[s]) :
           applied'[s][i] = applied'[s][j] => i = j
  <2>1. \A i, j \in 1..Len(applied[s]) : applied[s][i] = applied[s][j] => i = j
    BY <1>1 DEF AtMostOnce
  <2>2. CASE Do(m).session = session /\ Do(m).applied = applied[s]
    BY <1>2, <1>3, <2>1, <2>2
  <2>3. CASE /\ q > session.Ack /\ session.Replies[q] = NoReply
             /\ Do(m).session = [session EXCEPT !.Replies[q] = Len(applied[s]) + 1]
             /\ Do(m).applied = Append(applied[s], q)
    <3>1. \A i \in 1..Len(applied[s]) : applied[s][i] # q
      BY <2>3, FirstExecutionIsNew
    <3> HIDE DEF session
    <3>2. /\ Len(applied'[s]) = Len(applied[s]) + 1 /\ Len(applied[s]) \in Nat
          /\ applied'[s][Len(applied[s]) + 1] = q
          /\ \A i \in 1..Len(applied[s]) : applied'[s][i] = applied[s][i]
          /\ \A i \in 1..Len(applied[s]) : applied[s][i] \in Sequence
      BY <1>1, <1>3, <2>3
    <3>3. /\ sessions'[s].Ack = session.Ack
          /\ sessions'[s].Replies[q] = Len(applied[s]) + 1
          /\ \A p \in Sequence : p # q =>
                sessions'[s].Replies[p] = session.Replies[p]
      BY <1>1, <1>3, <2>3 DEF SessionType
    <3>4. \A p \in Sequence : session.Replies[p] \in Nat
      BY <1>1 DEF SessionType
    <3>5. ASSUME NEW p \in Sequence, sessions'[s].Replies[p] # NoReply
          PROVE  /\ sessions'[s].Replies[p] <= Len(applied'[s])
                 /\ applied'[s][sessions'[s].Replies[p]] = p
      <4>1. CASE p = q
        BY <3>2, <3>3, <4>1
      <4>2. CASE p # q
        <5>1. session.Replies[p] \in 1..Len(applied[s])
          BY <1>2, <3>2, <3>3, <3>4, <3>5, <4>2 DEF NoReply
        <5>2. applied[s][session.Replies[p]] = p
          BY <1>2, <5>1, <3>2 DEF NoReply
        <5>3. sessions'[s].Replies[p] = session.Replies[p]
          BY <3>3, <4>2
        <5>4. applied'[s][session.Replies[p]] = applied[s][session.Replies[p]]
          BY <3>2, <5>1
        <5>5. session.Replies[p] <= Len(applied'[s])
          BY <3>2, <5>1
        <5> QED BY <5>2, <5>3, <5>4, <5>5
      <4> QED BY <4>1, <4>2
    <3>6. ASSUME NEW i \in 1..Len(applied'[s])
          PROVE  \/ applied'[s][i] <= sessions'[s].Ack
                 \/ sessions'[s].Replies[applied'[s][i]] = i
      <4>1. CASE i = Len(applied[s]) + 1
        BY <3>2, <3>3, <4>1
      <4>2. CASE i \in 1..Len(applied[s])
        BY <1>2, <3>1, <3>2, <3>3, <4>2
      <4> QED BY <3>2, <4>1, <4>2
    <3>7. ASSUME NEW i \in 1..Len(applied'[s]), NEW j \in 1..Len(applied'[s]),
                 applied'[s][i] = applied'[s][j]
          PROVE  i = j
      <4>1. CASE i \in 1..Len(applied[s]) /\ j \in 1..Len(applied[s])
        BY <2>1, <3>2, <3>7, <4>1
      <4>2. CASE i = Len(applied[s]) + 1 \/ j = Len(applied[s]) + 1
        BY <3>1, <3>2, <3>7, <4>2
      <4> QED BY <3>2, <4>1, <4>2
    <3> QED BY <1>2, <3>3, <3>5, <3>6, <3>7
  <2> QED BY <2>2, <2>3, DoOutcome
<1> QED BY <1>4, <1>5 DEF SessionInv, AtMostOnce

\* A call that waits lies above the clerk's acknowledgement.
LEMMA ActiveAboveAck ==
    ASSUME TypeOK, ClientInv, NEW q \in Sequence, calls[q].pc \in {"active", "answered"}
    PROVE  ack < q /\ q <= next
BY MaxSeqAssumption DEF ClientInv, TypeOK, Sequence

\* No answer that reaches a waiting call is ErrStaleRequest: it is the position at
\* which the call's own request stands in the history.
LEMMA HeardAnswer ==
    ASSUME TypeOK, DedupInv, NEW m \in sent, Execute(m),
           calls[m.Sequence].pc = "active"
    PROVE  /\ Do(m).answer # ErrStaleRequest
           /\ m.table \in Table
           /\ Do(m).answer \in 1..Len(applied'[m.table])
           /\ applied'[m.table][Do(m).answer] = m.Sequence
<1> DEFINE s == m.table
           q == m.Sequence
           session == Acknowledged(sessions[s], m)
<1>1. /\ s \in Table /\ q \in Sequence /\ ack \in Int
      /\ session \in SessionType /\ applied[s] \in Seq(Sequence)
      /\ applied \in [Table -> Seq(Sequence)]
  BY AcknowledgedSession DEF TypeOK, Messages
<1>2. q \in Int /\ session.Ack \in Int /\ session.Replies[q] \in Nat
  BY <1>1, MaxSeqAssumption DEF SessionType, Sequence
<1>3. ~(q <= session.Ack)
  BY <1>1, <1>2, ActiveAboveAck, AcknowledgedSession DEF DedupInv
<1>4. applied'[s] = Do(m).applied
  BY <1>1 DEF Execute
<1>5. CASE /\ Do(m).applied = applied[s] /\ session.Replies[q] # NoReply
           /\ Do(m).answer = session.Replies[q]
  <2>1. session.Replies[q] <= Len(applied[s]) /\ applied[s][session.Replies[q]] = q
    BY <1>1, <1>5, AcknowledgedSession
  <2> QED BY <1>1, <1>2, <1>4, <1>5, <2>1 DEF NoReply, ErrStaleRequest
<1>6. CASE /\ Do(m).applied = Append(applied[s], q)
           /\ Do(m).answer = Len(applied[s]) + 1
  BY <1>1, <1>4, <1>6 DEF ErrStaleRequest
<1> QED BY <1>1, <1>3, <1>5, <1>6, DoOutcome

\* The types of the clerk, the requests and the tables are preserved.
LEMMA TypesKept ==
    ASSUME TypeOK, DedupInv, [Next]_vars PROVE TypeOK'
<1>1. CASE UNCHANGED vars
  BY <1>1 DEF TypeOK, vars
<1>2. CASE Begin
  <2>1. next + 1 \in Sequence /\ next' \in 0..MaxSeq
    BY <1>2, MaxSeqAssumption DEF Begin, TypeOK, Sequence
  <2>2. calls' \in [Sequence -> [pc : {"idle", "active", "answered", "done", "panic"},
                                 answer : Int]]
    BY <1>2, <2>1 DEF Begin, TypeOK
  <2> QED BY <1>2, <2>1, <2>2 DEF Begin, TypeOK
<1>3. ASSUME NEW q \in Sequence, NEW t \in Table, Send(q, t) PROVE TypeOK'
  BY <1>3 DEF Send, TypeOK, Messages, clientVars
<1>4. ASSUME NEW m \in sent, ExecuteUnheard(m) PROVE TypeOK'
  BY <1>4, ExecuteTypes DEF ExecuteUnheard, TypeOK, clientVars
<1>5. ASSUME NEW m \in sent, ExecuteHeard(m) PROVE TypeOK'
  <2>1. m.Sequence \in Sequence
    BY DEF TypeOK, Messages
  <2>2. /\ Execute(m)
        /\ UNCHANGED <<clientVars, sent>>
        /\ calls' = [calls EXCEPT ![m.Sequence] =
              [pc |-> IF Do(m).answer = ErrStaleRequest THEN "panic" ELSE "answered",
               answer |-> Do(m).answer]]
    BY <1>5 DEF ExecuteHeard
  <2>3. Do(m).answer \in Int
    BY <2>2, ExecuteTypes
  <2>4. calls' \in [Sequence -> [pc : {"idle", "active", "answered", "done", "panic"},
                                 answer : Int]]
    BY <2>1, <2>2, <2>3 DEF TypeOK
  <2> QED BY <2>2, <2>4, ExecuteTypes DEF TypeOK, clientVars
<1>6. ASSUME NEW q \in Sequence, Complete(q) PROVE TypeOK'
  <2>1. ack' \in ack..next
    BY <1>6 DEF Complete
  <2>2. ack' \in 0..MaxSeq
    BY <2>1, MaxSeqAssumption DEF TypeOK
  <2>3. completed' \subseteq Sequence
    BY <1>6 DEF Complete, TypeOK
  <2>4. calls' \in [Sequence -> [pc : {"idle", "active", "answered", "done", "panic"},
                                 answer : Int]]
    BY <1>6 DEF Complete, TypeOK
  <2> QED BY <1>6, <2>2, <2>3, <2>4 DEF Complete, TypeOK
<1> QED BY <1>1, <1>2, <1>3, <1>4, <1>5, <1>6 DEF Next

\* The invariant of the clerk and its requests, the answers and the absence of a
\* panic are preserved by every step.
DedupFull ==
    TypeOK /\ DedupInv /\ AtMostOnce /\ ActiveIsNeverStale /\ AnswerIsOwnExecution

\* Begin and Send change the clerk only.
LEMMA CallSteps ==
    ASSUME DedupFull, \/ Begin
                      \/ \E q \in Sequence, t \in Table : Send(q, t)
    PROVE  DedupInv' /\ AtMostOnce' /\ ActiveIsNeverStale' /\ AnswerIsOwnExecution'
<1>1. CASE Begin
  <2>1. next' = next + 1 /\ next \in Int /\ next + 1 \in Sequence /\ ack \in Int
    BY <1>1, MaxSeqAssumption DEF Begin, DedupFull, TypeOK, Sequence
  <2>2. /\ \A q \in Sequence : q # next + 1 => calls'[q] = calls[q]
        /\ calls'[next + 1].pc = "active"
        /\ calls[next + 1].pc = "idle"
        /\ UNCHANGED <<ack, completed, sent, sessions, applied>>
    BY <1>1, <2>1 DEF Begin, DedupFull, TypeOK, DedupInv, ClientInv
  <2>3. ClientInv'
    BY <2>1, <2>2, MaxSeqAssumption
       DEF DedupFull, DedupInv, ClientInv, TypeOK, Sequence
  <2>4. SentInv'
    BY <2>1, <2>2, MaxSeqAssumption
       DEF DedupFull, DedupInv, SentInv, TypeOK, Messages, Sequence
  <2>5. SessionInv' /\ AtMostOnce'
    BY <2>2 DEF DedupFull, DedupInv, SessionInv, AtMostOnce
  <2>6. ActiveIsNeverStale' /\ AnswerIsOwnExecution'
    BY <2>1, <2>2 DEF DedupFull, ActiveIsNeverStale, AnswerIsOwnExecution
  <2> QED BY <2>3, <2>4, <2>5, <2>6 DEF DedupInv
<1>2. ASSUME NEW q \in Sequence, NEW t \in Table, Send(q, t)
      PROVE  DedupInv' /\ AtMostOnce' /\ ActiveIsNeverStale' /\ AnswerIsOwnExecution'
  <2>1. ack < q /\ q <= next
    BY <1>2, ActiveAboveAck DEF Send, DedupFull, DedupInv
  <2>2. SentInv'
    BY <1>2, <2>1 DEF Send, DedupFull, DedupInv, SentInv, TypeOK, clientVars
  <2>3. ClientInv' /\ SessionInv'
    BY <1>2 DEF Send, DedupFull, DedupInv, ClientInv, SessionInv, clientVars
  <2>4. AtMostOnce' /\ ActiveIsNeverStale' /\ AnswerIsOwnExecution'
    BY <1>2 DEF Send, DedupFull, AtMostOnce, ActiveIsNeverStale, AnswerIsOwnExecution
  <2> QED BY <2>2, <2>3, <2>4 DEF DedupInv
<1> QED BY <1>1, <1>2

\* An answered call keeps its answer when a history grows.
LEMMA AnswersKept ==
    ASSUME DedupFull, NEW m \in sent, Execute(m), NEW q \in Sequence,
           calls[q].pc \in {"answered", "done"}
    PROVE  \E t \in Table : /\ calls[q].answer \in 1..Len(applied'[t])
                            /\ applied'[t][calls[q].answer] = q
<1>1. PICK t \in Table : /\ calls[q].answer \in 1..Len(applied[t])
                         /\ applied[t][calls[q].answer] = q
  BY DEF DedupFull, AnswerIsOwnExecution
<1>2. /\ Len(applied[t]) <= Len(applied'[t])
      /\ \A i \in 1..Len(applied[t]) : applied'[t][i] = applied[t][i]
  BY HistoryGrows DEF DedupFull
<1>3. /\ applied[t] \in Seq(Sequence) /\ applied'[t] \in Seq(Sequence)
  BY ExecuteTypes DEF DedupFull, TypeOK
<1>4. calls[q].answer \in 1..Len(applied'[t])
  BY <1>1, <1>2, <1>3
<1> QED BY <1>1, <1>2, <1>4

\* Executing a request, heard or unheard.
LEMMA ExecuteSteps ==
    ASSUME DedupFull, NEW m \in sent, ExecuteUnheard(m) \/ ExecuteHeard(m)
    PROVE  DedupInv' /\ AtMostOnce' /\ ActiveIsNeverStale' /\ AnswerIsOwnExecution'
<1>1. Execute(m) /\ UNCHANGED <<next, ack, completed, sent>>
  BY DEF ExecuteUnheard, ExecuteHeard, clientVars
<1>2. SessionInv' /\ AtMostOnce'
  BY <1>1, ExecuteKeepsSessions DEF DedupFull
<1>3. SentInv'
  BY <1>1 DEF DedupFull, DedupInv, SentInv
<1>4. CASE ExecuteUnheard(m)
  <2>1. calls' = calls
    BY <1>4 DEF ExecuteUnheard
  <2>2. ClientInv' /\ ActiveIsNeverStale'
    BY <1>1, <2>1 DEF DedupFull, DedupInv, ClientInv, ActiveIsNeverStale
  <2>3. AnswerIsOwnExecution'
    BY <1>1, <2>1, AnswersKept DEF AnswerIsOwnExecution
  <2> QED BY <1>2, <1>3, <2>2, <2>3 DEF DedupInv
<1>5. CASE ExecuteHeard(m)
  <2>1. /\ calls[m.Sequence].pc = "active" /\ m.Sequence \in Sequence
        /\ Do(m).answer # ErrStaleRequest
        /\ m.table \in Table
        /\ Do(m).answer \in 1..Len(applied'[m.table])
        /\ applied'[m.table][Do(m).answer] = m.Sequence
    BY <1>1, <1>5, HeardAnswer DEF ExecuteHeard, DedupFull, TypeOK, Messages
  <2>2. /\ \A q \in Sequence : q # m.Sequence => calls'[q] = calls[q]
        /\ calls'[m.Sequence].pc = "answered"
        /\ calls'[m.Sequence].answer = Do(m).answer
    BY <1>5, <2>1 DEF ExecuteHeard, DedupFull, TypeOK
  <2>3. ack < m.Sequence /\ m.Sequence <= next
    BY <2>1, ActiveAboveAck DEF DedupFull, DedupInv
  <2>4. ClientInv'
    <3>1. m.Sequence \notin completed
      BY <2>1 DEF DedupFull, DedupInv, ClientInv
    <3> QED BY <1>1, <2>1, <2>2, <2>3, <3>1, MaxSeqAssumption
            DEF DedupFull, DedupInv, ClientInv, TypeOK, Sequence
  <2>5. ActiveIsNeverStale'
    BY <2>2 DEF DedupFull, ActiveIsNeverStale
  <2>6. AnswerIsOwnExecution'
    <3> SUFFICES ASSUME NEW q \in Sequence, calls'[q].pc \in {"answered", "done"}
                 PROVE  \E t \in Table : /\ calls'[q].answer \in 1..Len(applied'[t])
                                         /\ applied'[t][calls'[q].answer] = q
      BY DEF AnswerIsOwnExecution
    <3>1. CASE q = m.Sequence
      BY <2>1, <2>2, <3>1
    <3>2. CASE q # m.Sequence
      BY <1>1, <2>2, <3>2, AnswersKept
    <3> QED BY <3>1, <3>2
  <2> QED BY <1>2, <1>3, <2>4, <2>5, <2>6 DEF DedupInv
<1> QED BY <1>4, <1>5

\* Completing a call acknowledges completed calls only.
LEMMA CompleteStep ==
    ASSUME DedupFull, NEW q \in Sequence, Complete(q)
    PROVE  DedupInv' /\ AtMostOnce' /\ ActiveIsNeverStale' /\ AnswerIsOwnExecution'
<1> DEFINE done == completed \union {q}
<1>1. /\ calls[q].pc = "answered"
      /\ UNCHANGED <<next, sent, sessions, applied>>
      /\ ack \in Int /\ next \in Int /\ ack <= next
  BY DEF Complete, DedupFull, DedupInv, ClientInv, TypeOK
<1>2. ack < q /\ q <= next
  BY <1>1, ActiveAboveAck DEF DedupFull, DedupInv
<1>3. ~(q <= ack)
  BY <1>1, <1>2, MaxSeqAssumption DEF Sequence
<1>4. PICK a \in ack..next : /\ (ack + 1)..a \subseteq done
                             /\ ack' = a
                             /\ completed' = done \ 1..a
  BY <1>3 DEF Complete, Advanced
<1>5. /\ \A p \in Sequence : p # q => calls'[p] = calls[p]
      /\ calls'[q].pc = "done" /\ calls'[q].answer = calls[q].answer
  BY DEF Complete, DedupFull, TypeOK
<1>6. \A p \in done : calls'[p].pc = "done" /\ ack < p /\ p <= next /\ p \in Sequence
  BY <1>2, <1>5 DEF DedupFull, DedupInv, ClientInv, TypeOK
<1>7. ClientInv'
  <2>1. ack' <= next' /\ ack <= ack'
    BY <1>1, <1>4
  <2>2. ASSUME NEW p \in Sequence, p > next' PROVE calls'[p].pc = "idle"
    BY <1>1, <1>2, <1>5, <2>2 DEF DedupFull, DedupInv, ClientInv, Sequence
  <2>3. ASSUME NEW p \in Sequence, p <= ack' \/ p \in completed'
        PROVE  calls'[p].pc = "done"
    <3>1. CASE p \in done
      BY <1>6, <3>1
    <3>2. CASE p \notin done
      <4>1. p <= ack
        BY <1>1, <1>4, <2>3, <3>2, MaxSeqAssumption DEF Sequence
      <4> QED BY <1>3, <1>5, <4>1 DEF DedupFull, DedupInv, ClientInv
    <3> QED BY <3>1, <3>2
  <2>4. ASSUME NEW p \in completed' PROVE ack' < p /\ p <= next'
    <3>1. p \in done /\ p \notin 1..a /\ p \in 1..MaxSeq
      BY <1>4, <1>6, <2>4 DEF Sequence
    <3> QED BY <1>1, <1>4, <1>6, <3>1, MaxSeqAssumption
  <2> QED BY <2>1, <2>2, <2>3, <2>4 DEF ClientInv
<1>8. ack <= ack' /\ ack' \in Int
  BY <1>1, <1>4
<1>9. SentInv'
  <2>1. \A m \in sent : m.Ack \in Int
    BY DEF DedupFull, TypeOK, Messages
  <2> QED BY <1>1, <1>8, <2>1 DEF DedupFull, DedupInv, SentInv
<1>10. SessionInv'
  <2>1. \A t \in Table : sessions[t].Ack \in Int
    BY DEF DedupFull, TypeOK, SessionType
  <2> QED BY <1>1, <1>8, <2>1 DEF DedupFull, DedupInv, SessionInv
<1>11. AtMostOnce' /\ ActiveIsNeverStale'
  BY <1>1, <1>5 DEF DedupFull, AtMostOnce, ActiveIsNeverStale
<1>12. AnswerIsOwnExecution'
  BY <1>1, <1>5 DEF DedupFull, AnswerIsOwnExecution
<1> QED BY <1>7, <1>9, <1>10, <1>11, <1>12 DEF DedupInv

\* The inductive invariant holds in every state of the specification.
THEOREM DedupInvariant == Spec => []DedupFull
<1>1. Init => DedupFull
  BY MaxSeqAssumption
     DEF Init, DedupFull, TypeOK, SessionType, Sequence, NoReply, DedupInv, ClientInv,
         SentInv, SessionInv, AtMostOnce, ActiveIsNeverStale, AnswerIsOwnExecution
<1>2. DedupFull /\ [Next]_vars => DedupFull'
  <2> SUFFICES ASSUME DedupFull, [Next]_vars PROVE DedupFull'
    OBVIOUS
  <2>1. TypeOK'
    BY TypesKept DEF DedupFull
  <2>2. CASE UNCHANGED vars
    BY <2>1, <2>2
       DEF vars, DedupFull, DedupInv, ClientInv, SentInv, SessionInv, AtMostOnce,
           ActiveIsNeverStale, AnswerIsOwnExecution
  <2>3. CASE Next
    BY <2>1, <2>3, CallSteps, ExecuteSteps, CompleteStep DEF Next, DedupFull
  <2> QED BY <2>2, <2>3
<1> QED BY <1>1, <1>2, PTL DEF Spec

\* No request is executed twice.
THEOREM ExecutedAtMostOnce == Spec => []AtMostOnce
<1>1. DedupFull => AtMostOnce
  BY DEF DedupFull
<1> QED BY <1>1, DedupInvariant, PTL

\* The panic of the clerks on ErrStaleRequest is unreachable.
THEOREM NoStaleAnswer == Spec => []ActiveIsNeverStale
<1>1. DedupFull => ActiveIsNeverStale
  BY DEF DedupFull
<1> QED BY <1>1, DedupInvariant, PTL

\* A call returns the result of its own, only execution.
THEOREM TrueAnswers == Spec => []AnswerIsOwnExecution
<1>1. DedupFull => AnswerIsOwnExecution
  BY DEF DedupFull
<1> QED BY <1>1, DedupInvariant, PTL
=============================================================================
