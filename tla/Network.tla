------------------------------ MODULE Network -------------------------------
(***************************************************************************)
(* The simulated network of src/src/labrpc/labrpc.go between the clients   *)
(* of one server and its successive processes, which the harness of        *)
(* src/src/tester1 (group.go, srv.go, daemonclnt.go, daemonsrv.go) shuts   *)
(* down and starts again from the persister of the process before.         *)
(*                                                                         *)
(* Demux is the socket to a process.  An RPC's effect is that its call is  *)
(* in the persister when the handler returns, which is what Raft shows of  *)
(* its handlers (PersistBeforeReply).  Delays are the freedom to take a    *)
(* step later; the random loss of a request or an answer is a choice.      *)
(***************************************************************************)
EXTENDS Demux, Integers

CONSTANTS
    MaxEpoch,   \* bound: processes of the server
    MaxSwitch   \* bound: times the test disables or enables the clients' end

ASSUME EpochAssumption == Conn = 1..MaxEpoch /\ MaxEpoch \in Nat \ {0}
ASSUME SwitchAssumption == MaxSwitch \in Nat

VARIABLES
    done,       \* the Network has been cleaned up
    enabled,    \* the clients' end is enabled
    servers,    \* the process AddServer has registered under the name, or NoConn
    epoch,      \* the latest process
    process,    \* its state: running, checkpointed or dead
    persister,  \* per process: the calls its persister holds
    saved,      \* the persister the tester holds
    req,        \* per call: where Call and processReq are
    switched

network == <<done, enabled, servers, switched>>
harness == <<epoch, process, saved>>
netVars == <<demux, network, harness, persister, req>>

NetTypeOK ==
    /\ done \in BOOLEAN /\ enabled \in BOOLEAN /\ switched \in 0..MaxSwitch
    /\ servers \in Conn \cup {NoConn} /\ epoch \in Conn
    /\ process \in {"running", "checkpointed", "dead"}
    /\ persister \in [Conn -> SUBSET Call] /\ saved \subseteq Call
    /\ req \in [Call -> [pc : {"idle", "calling", "taken", "delay", "waiting", "replied",
                               "answering", "returned"},
                         server : Conn \cup {NoConn}, ok : BOOLEAN]]
    /\ sr \in [Call -> [pc : {"idle", "put", "write", "wait", "done"},
                        conn : Conn \cup {NoConn}, ok : BOOLEAN]]
    /\ calls \in [Conn -> SUBSET Call] /\ closed \in [Conn -> BOOLEAN]
    /\ up \in [Conn -> BOOLEAN] /\ reader \in [Conn -> {"reading", "closed", "failing"}]
    /\ requests \in [Conn -> SUBSET Call] /\ handled \in [Conn -> SUBSET Call]
    /\ replies \in [Conn -> SUBSET Call] /\ outstanding \in [Conn -> SUBSET Call]

NetInit ==
    /\ DemuxInit
    /\ done = FALSE /\ enabled = TRUE /\ switched = 0
    /\ epoch = 1 /\ process = "running" /\ servers = 1
    /\ persister = [n \in Conn |-> {}] /\ saved = {}
    /\ req = [c \in Call |-> [pc |-> "idle", server |-> NoConn, ok |-> FALSE]]

----------------------------------------------------------------------------
(***************************************************************************)
(* ClientEnd.Call and Network.processReq.                                  *)
(***************************************************************************)
Goto(c, pc) == req' = [req EXCEPT ![c].pc = pc]

\* The value Call will return, perhaps after a delay.
Answer(c, ok) == req' = [req EXCEPT ![c].pc = "answering", ![c].ok = ok]

BeginCall(c) ==
    /\ req[c].pc = "idle"
    /\ Goto(c, "calling")
    /\ UNCHANGED <<demux, network, harness, persister>>

\* The goroutine of MakeNetwork takes the request; when done is closed, each
\* select may choose either way.
Take(c) ==
    /\ req[c].pc = "calling"
    /\ \/ Goto(c, "taken")
       \/ done /\ req' = [req EXCEPT ![c].pc = "returned", ![c].ok = FALSE]
    /\ UNCHANGED <<demux, network, harness, persister>>

readEndnameInfo(c) ==
    /\ req[c].pc = "taken"
    /\ IF enabled /\ servers # NoConn
       THEN req' = [req EXCEPT ![c].pc = "delay", ![c].server = servers]
       ELSE Answer(c, FALSE)
    /\ UNCHANGED <<demux, network, harness, persister>>

DropRequest(c) ==
    /\ req[c].pc = "delay"
    /\ Answer(c, FALSE)
    /\ UNCHANGED <<demux, network, harness, persister>>

\* server.dispatch, which is DaemonClnt.forward, in a goroutine of its own.
Dispatch(c) ==
    /\ req[c].pc = "delay"
    /\ Goto(c, "waiting")
    /\ Send(c, req[c].server)
    /\ UNCHANGED <<network, harness, persister>>

\* Mutant: only that no server is registered counts.
isServerDeadNow(c) == ~enabled \/ servers = NoConn

isServerDead(c) == ~enabled \/ servers # req[c].server

HandlerReturns(c) ==
    /\ req[c].pc = "waiting" /\ sr[c].pc = "done"
    /\ Goto(c, "replied")
    /\ UNCHANGED <<demux, network, harness, persister>>

\* Mutant: processReq waits for the handler however long it takes.
StopsWaitingNever(c) == FALSE

\* Every 100 ms; the goroutine of the dispatch is drained.
StopsWaiting(c) == req[c].pc = "waiting" /\ isServerDead(c)

ServerDead(c) ==
    /\ StopsWaiting(c)
    /\ Answer(c, FALSE)
    /\ UNCHANGED <<demux, network, harness, persister>>

\* The second look at the server, and the loss of the answer.
Reply(c) ==
    /\ req[c].pc = "replied"
    /\ \/ isServerDead(c) /\ Answer(c, FALSE)
       \/ ~isServerDead(c) /\ \E ok \in {FALSE, sr[c].ok} : Answer(c, ok)
    /\ UNCHANGED <<demux, network, harness, persister>>

Return(c) ==
    /\ req[c].pc = "answering"
    /\ Goto(c, "returned")
    /\ UNCHANGED <<demux, network, harness, persister>>

----------------------------------------------------------------------------
(***************************************************************************)
(* The server process.                                                     *)
(***************************************************************************)
\* The handler saves what it did before it returns.  Also after the persister
\* was copied: rpcs.Close() closes the listener, not the connections.
Handle(n, c) ==
    /\ ServeRequest(n, c)
    /\ persister' = [persister EXCEPT ![n] = @ \cup {c}]
    /\ UNCHANGED <<network, harness, req>>

Socket ==
    /\ DemuxStep
    /\ UNCHANGED <<network, harness, persister, req>>

----------------------------------------------------------------------------
(***************************************************************************)
(* The test and its harness.                                               *)
(***************************************************************************)
Enable ==
    /\ switched < MaxSwitch
    /\ switched' = switched + 1
    /\ enabled' = ~enabled
    /\ UNCHANGED <<demux, done, servers, harness, persister, req>>

\* The first step of ShutdownServer that the clients of the server notice.
DeleteServer ==
    /\ servers # NoConn
    /\ servers' = NoConn
    /\ UNCHANGED <<demux, done, enabled, switched, harness, persister, req>>

CheckpointPersister ==
    /\ servers = NoConn /\ process = "running"
    /\ process' = "checkpointed"
    /\ saved' = persister[epoch]
    /\ UNCHANGED <<demux, network, epoch, persister, req>>

shutdownServer ==
    /\ process = "checkpointed"
    /\ process' = "dead"
    /\ Break(epoch)
    /\ UNCHANGED <<network, epoch, saved, persister, req>>

\* runDaemon, Init with the saved persister, InitWait, and only then AddServer.
StartServer ==
    /\ process = "dead" /\ epoch < MaxEpoch
    /\ epoch' = epoch + 1
    /\ process' = "running"
    /\ persister' = [persister EXCEPT ![epoch + 1] = saved]
    /\ servers' = epoch + 1
    /\ UNCHANGED <<demux, done, enabled, switched, saved, req>>

Cleanup ==
    /\ ~done
    /\ done' = TRUE
    /\ UNCHANGED <<demux, enabled, servers, switched, harness, persister, req>>

----------------------------------------------------------------------------
CallStep(c) ==
    \/ Take(c) \/ readEndnameInfo(c) \/ Dispatch(c) \/ HandlerReturns(c)
    \/ ServerDead(c) \/ Reply(c) \/ Return(c)

NetNext ==
    \/ \E c \in Call : BeginCall(c) \/ CallStep(c) \/ DropRequest(c)
    \/ \E n \in Conn, c \in Call : Handle(n, c)
    \/ Socket
    \/ Enable \/ DeleteServer \/ CheckpointPersister \/ shutdownServer
    \/ StartServer \/ Cleanup

\* Goroutines run.  A handler need not return, and a test need not go on.
NetSpec ==
    /\ NetInit /\ [][NetNext]_netVars
    /\ \A c \in Call : WF_netVars(CallStep(c))
    /\ WF_netVars(Socket)

----------------------------------------------------------------------------
(***************************************************************************)
(* Properties.                                                             *)
(***************************************************************************)
\* What survives: the persister of the process that runs, unless it was copied.
Durable == IF process = "running" THEN persister[epoch] ELSE saved

(* A Call that returned true is in the persister the next process of the   *)
(* server starts from: processReq looks at the server again after the      *)
(* handler, and DeleteServer comes before the persister is copied.         *)
AckedIsDurable ==
    \A c \in Call : req[c].pc = "returned" /\ req[c].ok => c \in Durable

(* Call returns, except if the handler on the server side does not, and    *)
(* then too if the end is disabled or the server is deleted.               *)
CallReturns ==
    \A c \in Call : <>[](\/ req[c].pc \in {"idle", "returned"}
                         \/ /\ req[c].pc = "waiting" /\ ~isServerDead(c)
                            /\ \E n \in Conn : c \in requests[n])
=============================================================================
