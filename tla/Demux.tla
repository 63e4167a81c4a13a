------------------------------- MODULE Demux --------------------------------
(***************************************************************************)
(* Calls multiplexed over the socket between the tester and a server       *)
(* process: DemuxClnt with its callMap, and DemuxSrv, of                   *)
(* src/src/tester1/demux, as src/src/tester1/sockrpc uses them.            *)
(*                                                                         *)
(* tag() numbers the calls of a connection and a number is used once, so a *)
(* call stands for its tag here.  A handler may take for ever; its process *)
(* may die, which breaks the connection.                                   *)
(***************************************************************************)
EXTENDS FiniteSets

CONSTANTS
    Call,       \* the calls of SendReceive
    Conn,       \* the connections, one for every server process
    NoConn

ASSUME ConnAssumption == NoConn \notin Conn

VARIABLES
    calls,      \* per connection: the map of outstanding calls
    closed,     \* per connection: callMap.closed
    up,         \* per connection: the process at the other end runs
    requests,   \* per connection: the calls in the socket or in their handler
    handled,    \* per connection: the calls whose handler has returned
    replies,    \* per connection: the answers in the socket
    reader,     \* per connection: where the client's reader is
    outstanding,\* per connection: the calls the reader still has to fail
    sr          \* per call: where SendReceive is, and what it returns

demux == <<calls, closed, up, requests, handled, replies, reader, outstanding, sr>>

DemuxInit ==
    /\ calls = [n \in Conn |-> {}]
    /\ closed = [n \in Conn |-> FALSE]
    /\ up = [n \in Conn |-> TRUE]
    /\ requests = [n \in Conn |-> {}]
    /\ handled = [n \in Conn |-> {}]
    /\ replies = [n \in Conn |-> {}]
    /\ reader = [n \in Conn |-> "reading"]
    /\ outstanding = [n \in Conn |-> {}]
    /\ sr = [c \in Call |-> [pc |-> "idle", conn |-> NoConn, ok |-> FALSE]]

----------------------------------------------------------------------------
(***************************************************************************)
(* SendReceive.                                                            *)
(***************************************************************************)
Send(c, n) ==
    /\ sr[c].pc = "idle"
    /\ sr' = [sr EXCEPT ![c].pc = "put", ![c].conn = n]
    /\ UNCHANGED <<calls, closed, up, requests, handled, replies, reader, outstanding>>

\* Mutant: put also accepts calls when the connection is closed.
acceptsAlways(n) == TRUE

accepts(n) == ~closed[n]

put(c) ==
    LET n == sr[c].conn
    IN  /\ sr[c].pc = "put"
        /\ \/ /\ accepts(n)
              /\ calls' = [calls EXCEPT ![n] = @ \cup {c}]
              /\ sr' = [sr EXCEPT ![c].pc = "write"]
           \/ /\ ~accepts(n)
              /\ sr' = [sr EXCEPT ![c].pc = "done"]
              /\ UNCHANGED calls
        /\ UNCHANGED <<closed, up, requests, handled, replies, reader, outstanding>>

\* The error of WriteCall is ignored: the reader will fail the call.
WriteCall(c) ==
    LET n == sr[c].conn
    IN  /\ sr[c].pc = "write"
        /\ requests' = IF up[n] THEN [requests EXCEPT ![n] = @ \cup {c}] ELSE requests
        /\ sr' = [sr EXCEPT ![c].pc = "wait"]
        /\ UNCHANGED <<calls, closed, up, handled, replies, reader, outstanding>>

\* reply(): the channel has no buffer, so the reader waits for the caller.
reply(n, c, ok) ==
    /\ c \in calls[n] /\ sr[c].pc = "wait"
    /\ calls' = [calls EXCEPT ![n] = @ \ {c}]
    /\ sr' = [sr EXCEPT ![c].pc = "done", ![c].ok = ok]

----------------------------------------------------------------------------
(***************************************************************************)
(* The reader of the client.  What is in the socket when the process dies  *)
(* can still be read, unless the error comes first.                        *)
(***************************************************************************)
Read(n, c) ==
    /\ reader[n] = "reading" /\ c \in replies[n]
    /\ reply(n, c, TRUE)
    /\ replies' = [replies EXCEPT ![n] = @ \ {c}]
    /\ UNCHANGED <<closed, up, requests, handled, reader, outstanding>>

ReadFails(n) ==
    /\ reader[n] = "reading" /\ ~up[n]
    /\ closed' = [closed EXCEPT ![n] = TRUE]
    /\ replies' = [replies EXCEPT ![n] = {}]
    /\ reader' = [reader EXCEPT ![n] = "closed"]
    /\ UNCHANGED <<calls, up, requests, handled, outstanding, sr>>

Outstanding(n) ==
    /\ reader[n] = "closed"
    /\ outstanding' = [outstanding EXCEPT ![n] = calls[n]]
    /\ reader' = [reader EXCEPT ![n] = "failing"]
    /\ UNCHANGED <<calls, closed, up, requests, handled, replies, sr>>

FailCall(n, c) ==
    /\ reader[n] = "failing" /\ c \in outstanding[n]
    /\ reply(n, c, FALSE)
    /\ outstanding' = [outstanding EXCEPT ![n] = @ \ {c}]
    /\ UNCHANGED <<closed, up, requests, handled, replies, reader>>

----------------------------------------------------------------------------
(***************************************************************************)
(* The process: DemuxSrv runs every request in a goroutine of its own.     *)
(***************************************************************************)
ServeRequest(n, c) ==
    /\ up[n] /\ c \in requests[n]
    /\ requests' = [requests EXCEPT ![n] = @ \ {c}]
    /\ handled' = [handled EXCEPT ![n] = @ \cup {c}]
    /\ UNCHANGED <<calls, closed, up, replies, reader, outstanding, sr>>

WriteReply(n, c) ==
    /\ up[n] /\ c \in handled[n]
    /\ handled' = [handled EXCEPT ![n] = @ \ {c}]
    /\ replies' = [replies EXCEPT ![n] = @ \cup {c}]
    /\ UNCHANGED <<calls, closed, up, requests, reader, outstanding, sr>>

\* The process dies, with the requests it works on.
Break(n) ==
    /\ up[n]
    /\ up' = [up EXCEPT ![n] = FALSE]
    /\ requests' = [requests EXCEPT ![n] = {}]
    /\ handled' = [handled EXCEPT ![n] = {}]
    /\ UNCHANGED <<calls, closed, replies, reader, outstanding, sr>>

----------------------------------------------------------------------------
\* The steps that need nobody's consent: every one is a goroutine that can run.
DemuxStep ==
    \/ \E c \in Call : put(c) \/ WriteCall(c)
    \/ \E n \in Conn : ReadFails(n) \/ Outstanding(n)
    \/ \E n \in Conn, c \in Call : Read(n, c) \/ FailCall(n, c) \/ WriteReply(n, c)

(* SendReceive returns, or the process runs and its handler of the call    *)
(* has not returned: a call that is put while the connection breaks is     *)
(* either refused or failed by the reader.                                 *)
SendReceiveReturns ==
    \A c \in Call : <>[](\/ sr[c].pc \in {"idle", "done"}
                         \/ \E n \in Conn : c \in requests[n])
=============================================================================
