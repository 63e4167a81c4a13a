------------------------------- MODULE KvSrv -------------------------------
(***************************************************************************)
(* The versioned key/value server (src/src/kvsrv1/server.go) and what its  *)
(* clerk makes of an answer (src/src/kvsrv1/client.go), for one key.  The  *)
(* server handles a request under one mutex, so a request is an operator   *)
(* on the entry; Version 0 stands for a key that does not exist.           *)
(*                                                                         *)
(* A request whose answer was lost may still be executed after its clerk   *)
(* has given up on it.  It can only succeed while the entry still has the  *)
(* version it names.  A clerk's Put does not return before some copy of    *)
(* the request has been answered, and by then the version has moved on, so *)
(* the users of this module need to consider such copies only while the    *)
(* Put is being retried.                                                   *)
(***************************************************************************)
EXTENDS Integers

\* The error KVServer.Put answers with.
PutErr(entry, version) ==
    IF entry.Version = 0
    THEN IF version = 0 THEN "OK" ELSE "ErrNoKey"
    ELSE IF entry.Version # version THEN "ErrVersion" ELSE "OK"

\* The entry KVServer.Put leaves behind.
PutEntry(entry, version, value) ==
    IF PutErr(entry, version) = "OK"
    THEN [Version |-> entry.Version + 1, Value |-> value]
    ELSE entry

\* The error Clerk.Put returns: after a retry a version conflict may be the
\* echo of the clerk's own write.
ClerkErr(err, resent) == IF err = "ErrVersion" /\ resent THEN "ErrMaybe" ELSE err
=============================================================================
