-------------------------------- MODULE Rsm --------------------------------
(***************************************************************************)
(* The replicated state machine of src/src/kvraft1/rsm/rsm.go: Submit      *)
(* calls that propose an operation and wait for the applier to execute it, *)
(* on servers that win and lose elections, time out, are killed and start  *)
(* again from their snapshot and log.                                      *)
(*                                                                         *)
(* Raft appears only by what Raft.tla shows of it (external here): one     *)
(* leader per term, one agreed log with terms that never decrease, in      *)
(* which a proposal of an earlier term may still turn up, or never.  The   *)
(* reply of an operation is its position in that log, so that the replies  *)
(* of two operations differ.                                               *)
(***************************************************************************)
EXTENDS Integers, Sequences, FiniteSets, FiniteSetsExt

CONSTANTS
    Server,
    MaxCalls,     \* bound: Submit calls
    MaxTerm,      \* bound: terms with a leader
    MaxEpoch,     \* bound: starts of a server
    Restarting    \* bound: the servers that are killed

ASSUME BoundAssumption == MaxCalls \in Nat /\ MaxTerm \in Nat /\ MaxEpoch \in Nat

VARIABLES
    term, leader,           \* what GetState answers, per server
    proposals, log,         \* Raft: what was proposed, what is committed
    alive, epoch, nextSequence, waiters,   \* per server, the RSM
    applied, snapshotIndex, \* per server: the state machine and its snapshot
    inHand,                 \* the log index whose reply the applier has to pass on
    calls                   \* the Submit calls

raft == <<term, leader, proposals, log>>
machine == <<applied, snapshotIndex, inHand>>
vars == <<term, leader, proposals, log, alive, epoch, nextSequence, waiters,
          applied, snapshotIndex, inHand, calls>>

Call == 1..MaxCalls
None == 0
ErrWrongLeader == -1

Idle == [pc |-> "idle", server |-> None, epoch |-> 0, sequence |-> 0,
         term |-> 0, waiter |-> None, answer |-> None]

Init ==
    /\ term = [s \in Server |-> 0] /\ leader = [s \in Server |-> FALSE]
    /\ proposals = {} /\ log = << >>
    /\ alive = [s \in Server |-> TRUE]
    /\ epoch = [s \in Server |-> 1]
    /\ nextSequence = [s \in Server |-> 0]
    /\ waiters = [s \in Server |-> {}]
    /\ applied = [s \in Server |-> 0] /\ snapshotIndex = [s \in Server |-> 0]
    /\ inHand = [s \in Server |-> None]
    /\ calls = [c \in Call |-> Idle]

opID(op) == <<op.server, op.epoch, op.sequence>>

(***************************************************************************)
(* Submit.  Every return also runs the deferred removeWaiter.              *)
(***************************************************************************)
\* The entries of a server that was started again are gone with its process.
removeWaiter(c) ==
    [waiters EXCEPT ![calls[c].server] = {w \in @ : w.call # c}]

Return(c, answer) ==
    /\ calls' = [calls EXCEPT ![c].pc = "returned", ![c].answer = answer]
    /\ waiters' = removeWaiter(c)
    /\ UNCHANGED <<raft, alive, epoch, nextSequence, machine>>

\* The call gets an identity and registers before anything is proposed.
Submit(c, s) ==
    LET n == nextSequence[s] + 1
        call == [Idle EXCEPT !.pc = "registered", !.server = s,
                             !.epoch = epoch[s], !.sequence = n]
    IN
    /\ calls[c].pc = "idle" /\ \A d \in 1..(c - 1) : calls[d].pc # "idle"
    /\ alive[s]
    /\ nextSequence' = [nextSequence EXCEPT ![s] = n]
    /\ calls' = [calls EXCEPT ![c] = call]
    /\ waiters' = [waiters EXCEPT ![s] = @ \union {[id |-> opID(call), call |-> c]}]
    /\ UNCHANGED <<raft, alive, epoch, machine>>

\* The process the call runs in has been killed, and perhaps replaced.
Stopped(c) ==
    LET s == calls[c].server IN ~alive[s] \/ epoch[s] # calls[c].epoch

Start(c) ==
    LET s == calls[c].server IN
    /\ calls[c].pc = "registered"
    /\ \/ /\ Stopped(c) \/ ~leader[s]
          /\ Return(c, ErrWrongLeader)
       \/ /\ ~Stopped(c) /\ leader[s]
          /\ proposals' = proposals \union {[id |-> opID(calls[c]), call |-> c, term |-> term[s]]}
          /\ calls' = [calls EXCEPT ![c].pc = "waiting", ![c].term = term[s]]
          /\ UNCHANGED <<term, leader, log, alive, epoch, nextSequence, waiters, machine>>

\* The select prefers a result that is there when it gives up.
GiveUp(c) ==
    Return(c, IF calls[c].waiter # None THEN calls[c].waiter ELSE ErrWrongLeader)

TakeResult(c) ==
    /\ calls[c].pc = "waiting" /\ calls[c].waiter # None
    /\ Return(c, calls[c].waiter)

Deadline(c) ==
    /\ calls[c].pc = "waiting"
    /\ GiveUp(c)

\* Mutant: the term of the proposal is forgotten.
LostLeadershipAnyTerm(c) == ~leader[calls[c].server]

LostLeadership(c) ==
    LET s == calls[c].server IN term[s] # calls[c].term \/ ~leader[s]

LeadershipTicker(c) ==
    /\ calls[c].pc = "waiting" /\ LostLeadership(c)
    /\ GiveUp(c)

RaftDone(c) ==
    /\ calls[c].pc = "waiting" /\ Stopped(c)
    /\ Return(c, ErrWrongLeader)

(***************************************************************************)
(* The applier: execute, perhaps snapshot, then wake the waiter.  A killed *)
(* server's applier may do so once more before it sees raftDone.           *)
(***************************************************************************)
DoOp(s) ==
    /\ inHand[s] = None /\ applied[s] < Len(log)
    /\ applied' = [applied EXCEPT ![s] = @ + 1]
    /\ inHand' = [inHand EXCEPT ![s] = applied[s] + 1]
    /\ snapshotIndex' \in {snapshotIndex, [snapshotIndex EXCEPT ![s] = applied[s] + 1]}
    /\ UNCHANGED <<raft, alive, epoch, nextSequence, waiters, calls>>

\* The channel holds one result and the applier never waits for its reader.
Notify(s) ==
    /\ inHand[s] # None
    /\ calls' = [c \in Call |->
         IF /\ \E w \in waiters[s] : w.call = c /\ w.id = log[inHand[s]].id
            /\ calls[c].waiter = None
         THEN [calls[c] EXCEPT !.waiter = inHand[s]] ELSE calls[c]]
    /\ inHand' = [inHand EXCEPT ![s] = None]
    /\ UNCHANGED <<raft, alive, epoch, nextSequence, waiters, applied, snapshotIndex>>

\* A snapshot of another server replaces the state: the operations it covers
\* are not executed here, and nobody is woken for them.
Restore(s, index) ==
    /\ inHand[s] = None
    /\ applied[s] < index /\ \E u \in Server : snapshotIndex[u] = index
    /\ leader[s] => \A j \in (applied[s] + 1)..index : log[j].term < term[s]
    /\ applied' = [applied EXCEPT ![s] = index]
    /\ snapshotIndex' = [snapshotIndex EXCEPT ![s] = index]
    /\ UNCHANGED <<raft, alive, epoch, nextSequence, waiters, inHand, calls>>

Kill(s) ==
    /\ s \in Restarting /\ alive[s] /\ epoch[s] < MaxEpoch
    /\ alive' = [alive EXCEPT ![s] = FALSE]
    /\ UNCHANGED <<raft, epoch, nextSequence, waiters, machine, calls>>

\* Mutant: operations are numbered from one again under the same epoch.
MakeRSMSameEpoch(s) ==
    /\ ~alive[s]
    /\ alive' = [alive EXCEPT ![s] = TRUE]
    /\ nextSequence' = [nextSequence EXCEPT ![s] = 0]
    /\ waiters' = [waiters EXCEPT ![s] = {}]
    /\ applied' = [applied EXCEPT ![s] = snapshotIndex[s]]
    /\ inHand' = [inHand EXCEPT ![s] = None]
    /\ leader' = [leader EXCEPT ![s] = FALSE]
    /\ UNCHANGED <<term, proposals, log, epoch, snapshotIndex, calls>>

\* The server starts from its snapshot; the random epoch is a fresh one.
MakeRSM(s) ==
    /\ ~alive[s]
    /\ alive' = [alive EXCEPT ![s] = TRUE]
    /\ epoch' = [epoch EXCEPT ![s] = @ + 1]
    /\ nextSequence' = [nextSequence EXCEPT ![s] = 0]
    /\ waiters' = [waiters EXCEPT ![s] = {}]
    /\ applied' = [applied EXCEPT ![s] = snapshotIndex[s]]
    /\ inHand' = [inHand EXCEPT ![s] = None]
    /\ leader' = [leader EXCEPT ![s] = FALSE]
    /\ UNCHANGED <<term, proposals, log, snapshotIndex, calls>>

(***************************************************************************)
(* Raft, seen from above.                                                  *)
(***************************************************************************)
LatestTerm == Max({term[s] : s \in Server})

Elected(s) ==
    /\ alive[s] /\ LatestTerm < MaxTerm
    /\ term' = [term EXCEPT ![s] = LatestTerm + 1]
    /\ leader' = [leader EXCEPT ![s] = TRUE]
    /\ UNCHANGED <<proposals, log, alive, epoch, nextSequence, waiters, machine, calls>>

HearTerm(s) ==
    /\ alive[s] /\ term[s] < LatestTerm
    /\ term' = [term EXCEPT ![s] = LatestTerm]
    /\ leader' = [leader EXCEPT ![s] = FALSE]
    /\ UNCHANGED <<proposals, log, alive, epoch, nextSequence, waiters, machine, calls>>

Commit(p) ==
    /\ log # << >> => p.term >= log[Len(log)].term
    /\ proposals' = proposals \ {p}
    /\ log' = Append(log, p)
    /\ UNCHANGED <<term, leader, alive, epoch, nextSequence, waiters, machine, calls>>

\* The leader of the latest term commits what it has proposed.
LeaderCommit(s) ==
    \E p \in proposals :
        leader[s] /\ alive[s] /\ p.term = term[s] /\ term[s] = LatestTerm /\ Commit(p)

CallStep(c) ==
    Start(c) \/ TakeResult(c) \/ LeadershipTicker(c) \/ RaftDone(c)

Next ==
    \/ \E c \in Call : (\E s \in Server : Submit(c, s)) \/ CallStep(c) \/ Deadline(c)
    \/ \E s \in Server :
         \/ DoOp(s) \/ Notify(s) \/ Kill(s) \/ MakeRSM(s) \/ Elected(s) \/ HearTerm(s)
         \/ \E index \in 1..Len(log) : Restore(s, index)
    \/ \E p \in proposals : Commit(p)

Spec == Init /\ [][Next]_vars

\* Threads run, a leader that can reach a majority commits, and a leader that
\* was replaced hears of it.  No call has to have a deadline.
FairSpec ==
    /\ Spec
    /\ \A c \in Call : WF_vars(CallStep(c))
    /\ \A s \in Server :
         /\ WF_vars(DoOp(s)) /\ WF_vars(Notify(s))
         /\ WF_vars(HearTerm(s)) /\ WF_vars(LeaderCommit(s))

-----------------------------------------------------------------------------
\* Submit's OK answers its own operation: the reply comes from the execution of
\* the committed operation this very call proposed, never from the replay of
\* one that had the same number before a restart, or from another server's.
\* So a Get, which is a Submit too, is answered from its own place in the log,
\* after everything that was answered before it began.
ReplyIsOwnExecution ==
    \A c \in Call : calls[c].pc = "returned" /\ calls[c].answer # ErrWrongLeader =>
        log[calls[c].answer].call = c

\* A Submit that waits returns, also without a deadline: the wake-up cannot be
\* missed, and an operation that was overwritten, or covered by a snapshot that
\* was installed, is given up even if the server leads again by then.
SubmitReturns ==
    \A c \in Call : calls[c].pc = "waiting" ~> calls[c].pc = "returned"
=============================================================================
