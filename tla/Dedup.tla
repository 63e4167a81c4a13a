------------------------------- MODULE Dedup -------------------------------
(***************************************************************************)
(* Request deduplication, src/src/kvraft1/dedup/dedup.go: one clerk that   *)
(* issues Put calls from several goroutines, and the request tables of the *)
(* state machines they are executed by (one table in kvraft1/server.go,    *)
(* one per shard in shardkv1/shardgrp/server.go, all fed from the clerk's  *)
(* single sequence).                                                       *)
(*                                                                         *)
(* Every copy of a request that was ever sent can be committed at any      *)
(* later time and any number of times, because a clerk that gets no answer *)
(* sends again and an abandoned Raft proposal may still commit.  The       *)
(* result of executing a request is its position in the history of its     *)
(* state machine, which tells two executions apart.                        *)
(***************************************************************************)
EXTENDS Integers, Sequences

CONSTANTS
    Table,     \* the state machines, each with its request table
    MaxSeq     \* bound: number of Put calls

ASSUME MaxSeqAssumption == MaxSeq \in Nat

VARIABLES
    next, ack, completed,   \* the fields of dedup.Client
    calls,                  \* the Put calls, by sequence number
    sent,                   \* every request ever sent
    sessions,               \* per table, the Session of this clerk
    applied                 \* per state machine, the requests executed, in order

clientVars == <<next, ack, completed>>
vars == <<next, ack, completed, calls, sent, sessions, applied>>

Sequence == 1..MaxSeq
NoReply == 0
ErrStaleRequest == -1

Init ==
    /\ next = 0 /\ ack = 0 /\ completed = {}
    /\ calls = [q \in Sequence |-> [pc |-> "idle", answer |-> NoReply]]
    /\ sent = {}
    /\ sessions = [t \in Table |-> [Ack |-> 0, Replies |-> [q \in Sequence |-> NoReply]]]
    /\ applied = [t \in Table |-> << >>]

\* A Put call gets the next sequence number.
Begin ==
    /\ next < MaxSeq
    /\ next' = next + 1
    /\ calls' = [calls EXCEPT ![next + 1].pc = "active"]
    /\ UNCHANGED <<ack, completed, sent, sessions, applied>>

\* One attempt: it carries what the clerk has completed so far.
Send(q, t) ==
    /\ calls[q].pc = "active"
    /\ \A m \in sent : m.Sequence = q => m.table = t
    /\ sent' = sent \union {[Sequence |-> q, Ack |-> ack, table |-> t]}
    /\ UNCHANGED <<clientVars, calls, sessions, applied>>

\* The session after the clerk's acknowledgement is taken in.
Acknowledged(session, m) ==
    IF m.Ack > session.Ack
    THEN [Ack |-> m.Ack,
          Replies |-> [q \in Sequence |->
                         IF q <= m.Ack THEN NoReply ELSE session.Replies[q]]]
    ELSE session

\* Mutant: only the request's own acknowledgement is looked at.
StaleUnfenced(session, m) == m.Ack >= m.Sequence

\* Mutant: the watermark covers one request too many.
StaleInclusive(session, m) == m.Ack >= m.Sequence \/ m.Sequence <= session.Ack + 1

\* A request the clerk has given up on, as far as the watermark tells.
Stale(session, m) == m.Ack >= m.Sequence \/ m.Sequence <= session.Ack

\* Mutant: the latest answer of the session is repeated.
RecordedLatest(session, m) == Len(applied[m.table])

\* The answer of an earlier execution.
Recorded(session, m) == session.Replies[m.Sequence]

\* Table.Do: the session, the history and the answer after the request.
Do(m) ==
    LET session == IF m.Ack >= m.Sequence THEN sessions[m.table]
                   ELSE Acknowledged(sessions[m.table], m)
        fresh == ~Stale(session, m) /\ session.Replies[m.Sequence] = NoReply
        position == Len(applied[m.table]) + 1
    IN  [session |-> IF fresh
                     THEN [session EXCEPT !.Replies[m.Sequence] = position]
                     ELSE session,
         applied |-> IF fresh THEN Append(applied[m.table], m.Sequence)
                     ELSE applied[m.table],
         answer |-> IF Stale(session, m) THEN ErrStaleRequest
                    ELSE IF fresh THEN position
                    ELSE Recorded(session, m)]

\* A copy of a request is committed and executed, unheard.
Execute(m) ==
    /\ sessions' = [sessions EXCEPT ![m.table] = Do(m).session]
    /\ applied' = [applied EXCEPT ![m.table] = Do(m).applied]

ExecuteUnheard(m) ==
    /\ Execute(m)
    /\ UNCHANGED <<clientVars, calls, sent>>

\* ... or its answer reaches the call; ErrStaleRequest makes the clerk panic.
ExecuteHeard(m) ==
    /\ calls[m.Sequence].pc = "active"
    /\ Execute(m)
    /\ calls' = [calls EXCEPT ![m.Sequence] =
            [pc |-> IF Do(m).answer = ErrStaleRequest THEN "panic" ELSE "answered",
             answer |-> Do(m).answer]]
    /\ UNCHANGED <<clientVars, sent>>

\* The acknowledgement moves over every completed call that follows it.
Advanced(done, a) ==
    /\ a \in ack..next
    /\ (ack + 1)..a \subseteq done
    /\ a + 1 \notin done

\* The Put call returns: deferred Complete.
Complete(q) ==
    LET done == IF q <= ack THEN completed ELSE completed \union {q}
    IN  /\ calls[q].pc = "answered"
        /\ calls' = [calls EXCEPT ![q].pc = "done"]
        /\ \E a \in ack..next :
            /\ Advanced(done, a)
            /\ ack' = a
            /\ completed' = done \ 1..a
        /\ UNCHANGED <<next, sent, sessions, applied>>

Next ==
    \/ Begin
    \/ \E q \in Sequence, t \in Table : Send(q, t)
    \/ \E m \in sent : ExecuteUnheard(m) \/ ExecuteHeard(m)
    \/ \E q \in Sequence : Complete(q)

Spec == Init /\ [][Next]_vars

-----------------------------------------------------------------------------
SessionType == [Ack : 0..MaxSeq, Replies : [Sequence -> Nat]]
Messages == [Sequence : Sequence, Ack : 0..MaxSeq, table : Table]

TypeOK ==
    /\ next \in 0..MaxSeq /\ ack \in 0..MaxSeq /\ completed \subseteq Sequence
    /\ calls \in [Sequence -> [pc : {"idle", "active", "answered", "done", "panic"},
                               answer : Int]]
    /\ sent \subseteq Messages
    /\ sessions \in [Table -> SessionType]
    /\ applied \in [Table -> Seq(Sequence)]

\* No request is executed twice by a state machine, however many copies of it
\* are committed before, between and after the clean-ups of the table.
AtMostOnce ==
    \A t \in Table : \A i, j \in 1..Len(applied[t]) :
        applied[t][i] = applied[t][j] => i = j

\* A call that is still waiting is never told that its request is stale, which
\* the clerks treat as impossible ("active request was acknowledged before
\* completion").
ActiveIsNeverStale == \A q \in Sequence : calls[q].pc # "panic"

\* The answer a call returns is the result of its own execution, also when it
\* was executed by an earlier copy and answered from the table.
AnswerIsOwnExecution ==
    \A q \in Sequence : calls[q].pc \in {"answered", "done"} =>
        \E t \in Table :
            /\ calls[q].answer \in 1..Len(applied[t])
            /\ applied[t][calls[q].answer] = q

(***************************************************************************)
(* The inductive invariant.                                                *)
(***************************************************************************)
\* Only completed calls are acknowledged.
ClientInv ==
    /\ ack <= next
    /\ \A q \in Sequence :
        /\ q > next => calls[q].pc = "idle"
        /\ q <= ack \/ q \in completed => calls[q].pc = "done"
    /\ \A q \in completed : ack < q /\ q <= next

\* A request acknowledges less than itself and nothing that is still active.
SentInv ==
    \A m \in sent : m.Sequence <= next /\ m.Ack < m.Sequence /\ m.Ack <= ack

\* Every execution is remembered by its answer or fenced off by the watermark.
SessionInv ==
    \A t \in Table :
        /\ sessions[t].Ack <= ack
        /\ \A q \in Sequence : sessions[t].Replies[q] # NoReply =>
            /\ sessions[t].Replies[q] <= Len(applied[t])
            /\ applied[t][sessions[t].Replies[q]] = q
        /\ \A i \in 1..Len(applied[t]) :
            \/ applied[t][i] <= sessions[t].Ack
            \/ sessions[t].Replies[applied[t][i]] = i

DedupInv == ClientInv /\ SentInv /\ SessionInv
=============================================================================
