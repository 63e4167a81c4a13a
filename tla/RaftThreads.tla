---------------------------- MODULE RaftThreads ----------------------------
(***************************************************************************)
(* The goroutines of one Raft server, src/src/raft1/raft.go: Make starts a *)
(* replication worker per peer, two tickers and the applier; the tickers   *)
(* start short-lived goroutines with launch; Kill stops them all and       *)
(* closes "stopped" when the last one is gone.                             *)
(*                                                                         *)
(* Raft lets any of their steps happen at any time.  Here is what makes    *)
(* them happen: a notify channel of one slot per peer, the flag that a     *)
(* worker is busy, the condition variable of the applier, and the tick     *)
(* that goes around a worker whose call does not return.  A log is its     *)
(* length and what a follower answers is chosen freely: the contents, the  *)
(* elections and what the server does while it follows are Raft's subject. *)
(***************************************************************************)
EXTENDS Integers, FiniteSets, FiniteSetsExt

CONSTANTS
    Peer,       \* the other servers of the group
    MaxTerm,    \* bound: elections this server wins
    MaxLog,     \* bound: length of the log
    MaxSaved,   \* bound: length of the log the persister holds
    MaxLost     \* bound: calls that are lost or answered by a stopped peer

ASSUME PeerAssumption == IsFiniteSet(Peer) /\ Peer # {}

VARIABLES
    dead, stopped, workers,        \* rf.dead and rf.done, rf.stopped, rf.workers
    state, currentTerm,            \* the role; the number of elections won
    lastLog, lastIncludedIndex, commitIndex, lastApplied,
    termStart,                     \* length of the log when it began to lead
    nextIndex, matchIndex,
    replicateNotify, replicateBusy,
    rescueDue,                     \* 500 ms have passed since lastRescueSent
    applier,                       \* where the applier is
    applied,                       \* the last index the service has received
    ticker, heartbeatTicker,       \* on or off
    launching,                     \* the goroutines the ticker is about to launch
    pc, call,                      \* per goroutine: where it is, the call it waits for
    notifying,                     \* Start or a won election has not notified yet
    lost                           \* calls lost so far

leader  == <<state, currentTerm, termStart>>
log     == <<lastLog, lastIncludedIndex, commitIndex, lastApplied>>
indices == <<nextIndex, matchIndex>>
deliver == <<applier, applied>>
tick    == <<ticker, heartbeatTicker, launching, rescueDue>>
notify  == <<replicateNotify, replicateBusy>>
threads == <<workers, pc, call>>
threadVars == <<dead, stopped, leader, log, indices, notify, deliver, tick, threads,
                notifying, lost>>

\* The goroutines that replicate to a peer: its worker and, bounded here to one
\* at a time, its rescue goroutine.
Thread == {"worker", "rescue"} \X Peer
IsWorker(t) == t[1] = "worker"

NoCall == [type |-> "none"]
CallRecord == {NoCall}
          \cup [type : {"AppendEntries", "InstallSnapshot"}, term : 1..MaxTerm,
                next : 1..MaxLog + 1, through : 0..MaxLog, probes : BOOLEAN]

ThreadTypeOK ==
    /\ dead \in BOOLEAN /\ stopped \in BOOLEAN /\ workers \in Nat
    /\ state \in {"Follower", "Leader"} /\ currentTerm \in 0..MaxTerm
    /\ lastLog \in 0..MaxLog /\ lastIncludedIndex \in 0..lastLog
    /\ commitIndex \in lastIncludedIndex..lastLog /\ lastApplied \in 0..commitIndex
    /\ termStart \in 0..MaxLog
    /\ nextIndex \in [Peer -> 1..MaxLog + 1] /\ matchIndex \in [Peer -> 0..MaxLog]
    /\ replicateNotify \in [Peer -> BOOLEAN] /\ replicateBusy \in [Peer -> BOOLEAN]
    /\ rescueDue \in [Peer -> BOOLEAN]
    /\ applier \in {"check", "waiting", "sending", "off"} /\ applied \in 0..MaxLog
    /\ ticker \in {"on", "off"} /\ heartbeatTicker \in {"on", "off"}
    /\ launching \subseteq Peer
    /\ pc \in [Thread -> {"off", "wait", "woken", "build", "calling", "lost",
                          "notifyMore", "notifyDone", "release"}]
    /\ call \in [Thread -> CallRecord]
    /\ notifying \in BOOLEAN /\ lost \in 0..MaxLost

----------------------------------------------------------------------------
\* Make, with what the persister holds: a snapshot and the log after it.
ThreadInit ==
    /\ dead = FALSE /\ stopped = FALSE
    /\ workers = Cardinality(Peer) + 3
    /\ state = "Follower" /\ currentTerm = 0
    /\ lastLog \in 0..MaxSaved /\ lastIncludedIndex \in 0..lastLog
    /\ commitIndex = lastIncludedIndex /\ lastApplied = lastIncludedIndex
    /\ termStart = 0
    /\ nextIndex = [p \in Peer |-> 1] /\ matchIndex = [p \in Peer |-> 0]
    /\ replicateNotify = [p \in Peer |-> FALSE]
    /\ replicateBusy = [p \in Peer |-> FALSE]
    /\ rescueDue = [p \in Peer |-> TRUE]
    /\ applier = "check" /\ applied = lastIncludedIndex
    /\ ticker = "on" /\ heartbeatTicker = "on" /\ launching = {}
    /\ pc = [t \in Thread |-> IF IsWorker(t) THEN "wait" ELSE "off"]
    /\ call = [t \in Thread |-> NoCall]
    /\ notifying = FALSE /\ lost = 0

IsMajority(n) == n >= (Cardinality(Peer) + 1) \div 2 + 1

\* rf.applyCond.Signal(): only the applier ever waits.
Signal == applier' = IF applier = "waiting" THEN "check" ELSE applier

\* fn() returns and the deferred workers.Done() runs.
Exit(t) ==
    /\ pc' = [pc EXCEPT ![t] = "off"]
    /\ workers' = workers - 1

\* The function a goroutine runs returns: the worker goes on, others end.
ReplicateReturns(t) ==
    /\ call' = [call EXCEPT ![t] = NoCall]
    /\ IF IsWorker(t)
       THEN pc' = [pc EXCEPT ![t] = "release"] /\ UNCHANGED workers
       ELSE Exit(t)

Continue(t, where) ==
    /\ call' = [call EXCEPT ![t] = NoCall]
    /\ pc' = [pc EXCEPT ![t] = where]
    /\ UNCHANGED workers

----------------------------------------------------------------------------
(***************************************************************************)
(* The replication worker of a peer.                                       *)
(***************************************************************************)
WorkerWakes(p) ==
    /\ pc[<<"worker", p>>] = "wait" /\ replicateNotify[p]
    /\ replicateNotify' = [replicateNotify EXCEPT ![p] = FALSE]
    /\ pc' = [pc EXCEPT ![<<"worker", p>>] = "woken"]
    /\ UNCHANGED <<dead, stopped, leader, log, indices, replicateBusy, deliver, tick,
                   workers, call, notifying, lost>>

\* select may take <-rf.done even when there is a notification.
WorkerStops(p) ==
    /\ pc[<<"worker", p>>] = "wait" /\ dead
    /\ Exit(<<"worker", p>>)
    /\ UNCHANGED <<dead, stopped, leader, log, indices, notify, deliver, tick, call,
                   notifying, lost>>

WorkerTakes(p) ==
    /\ pc[<<"worker", p>>] = "woken"
    /\ IF dead
       THEN Exit(<<"worker", p>>) /\ UNCHANGED replicateBusy
       ELSE /\ replicateBusy' = [replicateBusy EXCEPT ![p] = TRUE]
            /\ pc' = [pc EXCEPT ![<<"worker", p>>] = "build"]
            /\ UNCHANGED workers
    /\ UNCHANGED <<dead, stopped, leader, log, indices, replicateNotify, deliver, tick,
                   call, notifying, lost>>

WorkerReleases(p) ==
    /\ pc[<<"worker", p>>] = "release"
    /\ replicateBusy' = [replicateBusy EXCEPT ![p] = FALSE]
    /\ pc' = [pc EXCEPT ![<<"worker", p>>] = "wait"]
    /\ UNCHANGED <<dead, stopped, leader, log, indices, replicateNotify, deliver, tick,
                   workers, call, notifying, lost>>

----------------------------------------------------------------------------
(***************************************************************************)
(* replicateUntilStable, in a worker or in a rescue goroutine.  nextIndex  *)
(* never passes the end of the log while the server leads, so the early    *)
(* return for a missing previous entry does not arise.                     *)
(***************************************************************************)
Args(p) ==
    [type |-> IF nextIndex[p] <= lastIncludedIndex THEN "InstallSnapshot"
              ELSE "AppendEntries",
     term |-> currentTerm, next |-> nextIndex[p],
     through |-> IF nextIndex[p] <= lastIncludedIndex THEN lastIncludedIndex
                 ELSE lastLog,
     probes |-> nextIndex[p] > matchIndex[p] + 1]

BuildRequest(t) ==
    /\ pc[t] = "build"
    /\ \/ /\ dead \/ state # "Leader"
          /\ ReplicateReturns(t)
       \/ /\ ~dead /\ state = "Leader"
          /\ call' = [call EXCEPT ![t] = Args(t[2])]
          /\ pc' = [pc EXCEPT ![t] = "calling"]
          /\ UNCHANGED workers
    /\ UNCHANGED <<dead, stopped, leader, log, indices, notify, deliver, tick, notifying,
                   lost>>

\* An answer can be used only by the leader that made the call.
IsCurrent(t) == ~dead /\ state = "Leader" /\ call[t].term = currentTerm

Outdated(t) ==
    /\ pc[t] = "calling" /\ ~IsCurrent(t)
    /\ ReplicateReturns(t)
    /\ UNCHANGED <<dead, stopped, leader, log, indices, notify, deliver, tick, notifying,
                   lost>>

\* Both indices only move forward.
Replicated(t) ==
    /\ matchIndex' = [matchIndex EXCEPT ![t[2]] = Max({@, call[t].through})]
    /\ nextIndex' = [nextIndex EXCEPT ![t[2]] = Max({@, call[t].through + 1})]

SnapshotInstalled(t) ==
    /\ pc[t] = "calling" /\ call[t].type = "InstallSnapshot" /\ IsCurrent(t)
    /\ Replicated(t)
    /\ Continue(t, "build")
    /\ UNCHANGED <<dead, stopped, leader, log, notify, deliver, tick, notifying, lost>>

\* The entries of this leader's own term, not yet committed, that a majority holds.
Committable ==
    {n \in Max({commitIndex, termStart}) + 1..lastLog :
        IsMajority(1 + Cardinality({p \in Peer : matchIndex'[p] >= n}))}

advanceCommitIndex ==
    /\ commitIndex' = Max({commitIndex} \cup Committable)
    /\ IF Committable # {} THEN Signal ELSE UNCHANGED applier

\* caughtUp is computed under the lock, before the others are notified.
Appended(t) ==
    /\ pc[t] = "calling" /\ call[t].type = "AppendEntries" /\ IsCurrent(t)
    /\ Replicated(t)
    /\ IF matchIndex'[t[2]] > matchIndex[t[2]]
       THEN advanceCommitIndex ELSE UNCHANGED <<commitIndex, applier>>
    /\ LET caughtUp == nextIndex'[t[2]] > lastLog
       IN  IF commitIndex' > commitIndex
           THEN Continue(t, IF caughtUp THEN "notifyDone" ELSE "notifyMore")
           ELSE IF caughtUp THEN ReplicateReturns(t) ELSE Continue(t, "build")
    /\ UNCHANGED <<dead, stopped, leader, lastLog, lastIncludedIndex, lastApplied, notify,
                   applied, tick, notifying, lost>>

\* The follower does not hold the previous entry, which was a guess: back off,
\* but not below what another goroutine has found to match meanwhile; the answer
\* is ignored if that one has moved nextIndex.
Conflicted(t) ==
    /\ pc[t] = "calling" /\ call[t].type = "AppendEntries" /\ IsCurrent(t)
    /\ call[t].probes
    /\ \/ /\ nextIndex[t[2]] # call[t].next
          /\ ReplicateReturns(t)
          /\ UNCHANGED nextIndex
       \/ /\ nextIndex[t[2]] = call[t].next
          /\ \E newNext \in 1..call[t].next - 1 :
                nextIndex' = [nextIndex EXCEPT ![t[2]] =
                                Max({newNext, matchIndex[t[2]] + 1})]
          /\ Continue(t, "build")
    /\ UNCHANGED <<dead, stopped, leader, log, matchIndex, notify, deliver, tick,
                   notifying, lost>>

\* Any answer may carry a higher term.
HigherTerm(t) ==
    /\ pc[t] = "calling" /\ ~dead /\ state = "Leader"
    /\ state' = "Follower"
    /\ ReplicateReturns(t)
    /\ UNCHANGED <<dead, stopped, currentTerm, termStart, log, indices, notify, deliver,
                   tick, notifying, lost>>

\* labrpc loses the request or its answer, or the peer answers Stopped.
LoseCall(t) ==
    /\ pc[t] = "calling" /\ lost < MaxLost
    /\ pc' = [pc EXCEPT ![t] = "lost"]
    /\ call' = [call EXCEPT ![t] = NoCall]
    /\ lost' = lost + 1
    /\ UNCHANGED <<dead, stopped, leader, log, indices, notify, deliver, tick, workers,
                   notifying>>

\* Call returns false, possibly a long time later.
CallReturnsFalse(t) ==
    /\ pc[t] = "lost"
    /\ ReplicateReturns(t)
    /\ UNCHANGED <<dead, stopped, leader, log, indices, notify, deliver, tick, notifying,
                   lost>>

\* broadcastAppendEntries, called without the lock; a slot that is full stays full.
broadcastAppendEntries ==
    replicateNotify' = IF dead \/ state # "Leader" THEN replicateNotify
                       ELSE [p \in Peer |-> TRUE]

NotifyOthers(t) ==
    /\ pc[t] \in {"notifyMore", "notifyDone"}
    /\ broadcastAppendEntries
    /\ IF pc[t] = "notifyMore" THEN Continue(t, "build") ELSE ReplicateReturns(t)
    /\ UNCHANGED <<dead, stopped, leader, log, indices, replicateBusy, deliver, tick,
                   notifying, lost>>

----------------------------------------------------------------------------
(***************************************************************************)
(* The heartbeat ticker: a notification for an idle worker; for a busy one *)
(* a heartbeat of its own and, every 500 ms, a rescue goroutine.  The time *)
(* between two rescues is abstracted to one tick.                          *)
(***************************************************************************)
BusyPeers == {p \in Peer : replicateBusy[p]}

\* Mutant: a busy worker is left to itself, only heartbeats go around it.
RescuedNone == {}

Rescued == {p \in BusyPeers : rescueDue[p]}

heartbeatOrNotifyReplication ==
    /\ heartbeatTicker = "on" /\ launching = {} /\ ~dead /\ state = "Leader"
    /\ replicateNotify' = [p \in Peer |-> replicateNotify[p] \/ ~replicateBusy[p]]
    /\ rescueDue' = [p \in Peer |-> p \notin Rescued]
    /\ launching' = Rescued
    /\ UNCHANGED <<dead, stopped, leader, log, indices, replicateBusy, deliver,
                   ticker, heartbeatTicker, threads, notifying, lost>>

\* Mutant: the goroutine is started without workers.Add(1).
StartedUncounted(t) == pc' = [pc EXCEPT ![t] = "build"] /\ UNCHANGED workers

Started(t) == pc' = [pc EXCEPT ![t] = "build"] /\ workers' = workers + 1

\* One call of launch.  The bound of one rescue goroutine at a time is met here:
\* a further one is not started.
launch(p) ==
    /\ p \in launching
    /\ launching' = launching \ {p}
    /\ IF dead \/ pc[<<"rescue", p>>] # "off"
       THEN UNCHANGED <<pc, workers>>
       ELSE Started(<<"rescue", p>>)
    /\ UNCHANGED <<dead, stopped, leader, log, indices, notify, deliver, rescueDue,
                   ticker, heartbeatTicker, call, notifying, lost>>

----------------------------------------------------------------------------
(***************************************************************************)
(* The applier.  A server that leads has no pending snapshot.              *)
(***************************************************************************)
ApplierExits == applier' = "off" /\ workers' = workers - 1

ApplierChecks ==
    /\ applier = "check"
    /\ \/ /\ dead
          /\ ApplierExits
          /\ UNCHANGED lastApplied
       \/ /\ ~dead /\ lastApplied >= commitIndex
          /\ applier' = "waiting"
          /\ UNCHANGED <<lastApplied, workers>>
       \/ /\ ~dead /\ lastApplied < commitIndex
          /\ lastApplied' = commitIndex
          /\ applier' = "sending"
          /\ UNCHANGED workers
    /\ UNCHANGED <<dead, stopped, leader, lastLog, lastIncludedIndex, commitIndex, indices,
                   notify, applied, tick, pc, call, notifying, lost>>

\* The service receives the next message of the batch.
ApplierSends ==
    /\ applier = "sending"
    /\ applied' = applied + 1
    /\ applier' = IF applied' = lastApplied THEN "check" ELSE "sending"
    /\ UNCHANGED <<dead, stopped, leader, log, indices, notify, tick, threads, notifying,
                   lost>>

ApplierStops ==
    /\ applier = "sending" /\ dead
    /\ ApplierExits
    /\ UNCHANGED <<dead, stopped, leader, log, indices, notify, applied, tick, pc, call,
                   notifying, lost>>

----------------------------------------------------------------------------
(***************************************************************************)
(* What the service and the other servers do to this one.                  *)
(***************************************************************************)
\* The election is won in a goroutine of startElection, which then notifies.
becomeLeader ==
    /\ ~dead /\ state # "Leader" /\ currentTerm < MaxTerm /\ ~notifying
    /\ state' = "Leader"
    /\ currentTerm' = currentTerm + 1
    /\ nextIndex' = [p \in Peer |-> lastLog + 1]
    /\ matchIndex' = [p \in Peer |-> 0]
    /\ rescueDue' = [p \in Peer |-> TRUE]
    /\ termStart' = lastLog
    /\ notifying' = TRUE
    /\ UNCHANGED <<dead, stopped, log, notify, deliver, ticker, heartbeatTicker, launching,
                   threads, lost>>

Start ==
    /\ ~dead /\ state = "Leader" /\ lastLog < MaxLog /\ ~notifying
    /\ lastLog' = lastLog + 1
    /\ notifying' = TRUE
    /\ UNCHANGED <<dead, stopped, leader, lastIncludedIndex, commitIndex, lastApplied,
                   indices, notify, deliver, tick, threads, lost>>

\* Without the lock in between: broadcastAppendEntries of Start and startElection.
Notify ==
    /\ notifying
    /\ notifying' = FALSE
    /\ broadcastAppendEntries
    /\ UNCHANGED <<dead, stopped, leader, log, indices, replicateBusy, deliver, tick,
                   threads, lost>>

----------------------------------------------------------------------------
(***************************************************************************)
(* Kill.                                                                   *)
(***************************************************************************)
\* Mutant: Kill wakes nobody.
WakeNobody == UNCHANGED applier

\* rf.applyCond.Broadcast()
WakeAll == Signal

Kill ==
    /\ ~dead
    /\ dead' = TRUE
    /\ state' = "Follower"
    /\ WakeAll
    /\ UNCHANGED <<stopped, currentTerm, termStart, log, indices, notify, applied, tick,
                   threads, notifying, lost>>

HeartbeatTickerStops ==
    /\ heartbeatTicker = "on" /\ launching = {} /\ dead
    /\ heartbeatTicker' = "off" /\ workers' = workers - 1
    /\ UNCHANGED <<dead, stopped, leader, log, indices, notify, deliver, ticker,
                   launching, rescueDue, pc, call, notifying, lost>>

\* The election ticker, which does nothing else here: becomeLeader is its outcome.
ElectionTickerStops ==
    /\ ticker = "on" /\ dead
    /\ ticker' = "off" /\ workers' = workers - 1
    /\ UNCHANGED <<dead, stopped, leader, log, indices, notify, deliver, heartbeatTicker,
                   launching, rescueDue, pc, call, notifying, lost>>

\* The goroutine of Kill: workers.Wait() returns, close(rf.stopped).
Stop ==
    /\ dead /\ ~stopped /\ workers = 0
    /\ stopped' = TRUE
    /\ UNCHANGED <<dead, leader, log, indices, notify, deliver, tick, threads, notifying,
                   lost>>

----------------------------------------------------------------------------
\* What the network's answer makes of a call that is not lost.
Answered(t) ==
    \/ Outdated(t) \/ SnapshotInstalled(t) \/ Appended(t) \/ Conflicted(t)
    \/ HigherTerm(t)

GoroutineStep(t) ==
    \/ BuildRequest(t) \/ Answered(t) \/ NotifyOthers(t)
    \/ /\ IsWorker(t)
       /\ \/ WorkerWakes(t[2]) \/ WorkerStops(t[2])
          \/ WorkerTakes(t[2]) \/ WorkerReleases(t[2])

ApplierStep == ApplierChecks \/ ApplierSends \/ ApplierStops
TickerStep  == 
    \/ heartbeatOrNotifyReplication \/ HeartbeatTickerStops
    \/ \E p \in Peer : launch(p)

ThreadNext ==
    \/ \E t \in Thread : GoroutineStep(t) \/ LoseCall(t) \/ CallReturnsFalse(t)
    \/ ApplierStep \/ TickerStep \/ ElectionTickerStops \/ Notify \/ Stop
    \/ becomeLeader \/ Start \/ Kill

(***************************************************************************)
(* Go runs every goroutine that can run, the ticker ticks, a call that is  *)
(* not lost is answered.  A lost call is only assumed to return once the   *)
(* server was killed: until then it may take longer than anything else.    *)
(***************************************************************************)
Fairness ==
    /\ \A t \in Thread : WF_threadVars(GoroutineStep(t) \/ (dead /\ CallReturnsFalse(t)))
    /\ WF_threadVars(ApplierStep) /\ WF_threadVars(TickerStep)
    /\ WF_threadVars(ElectionTickerStops) /\ WF_threadVars(Notify) /\ WF_threadVars(Stop)

ThreadSpec == ThreadInit /\ [][ThreadNext]_threadVars /\ Fairness

----------------------------------------------------------------------------
(***************************************************************************)
(* Properties.                                                             *)
(***************************************************************************)
(* A leader that stays one brings its whole log to every peer, and its own *)
(* entries to its service, although a call is lost and its worker may wait *)
(* for it for ever: a notification that finds the slot full, the flag      *)
(* replicateBusy, the check caughtUp that is older than the last Start and *)
(* the rescue goroutine of heartbeatOrNotifyReplication leave no gap       *)
(* between them.                                                           *)
LeaderReplicates ==
    []<>(\/ state # "Leader"
         \/ /\ \A p \in Peer : matchIndex[p] = lastLog
            /\ lastLog > termStart => applied = lastLog)

(* After Kill every goroutine of the server ends and stopped is closed,    *)
(* whichever of them waits on the condition, on a channel or in a call.    *)
KillStops == dead ~> stopped

(* When stopped is closed none of the server's goroutines runs any more,   *)
(* so that the owner of applyCh and of the peers may dispose of them.      *)
StoppedIsQuiet ==
    stopped => /\ applier = "off" /\ ticker = "off" /\ heartbeatTicker = "off"
               /\ \A t \in Thread : pc[t] = "off"
=============================================================================
