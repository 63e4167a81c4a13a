------------------------------ MODULE KvLock ------------------------------
(***************************************************************************)
(* The lock built on the key/value server: src/src/kvsrv1/lock/lock.go     *)
(* over src/src/kvsrv1/client.go and server.go.  The lock is one key whose *)
(* value is the id of its holder or the empty string.                      *)
(*                                                                         *)
(* A step is one request that the server executes, together with what the  *)
(* client does before its next request.                                    *)
(***************************************************************************)
EXTENDS KvSrv, FiniteSets

CONSTANTS
    Client,        \* the Lock objects, by their random ids
    Free,          \* the empty string
    MaxVersion     \* bound: no Acquire starts from this version on

ASSUME FreeAssumption == Free \notin Client
ASSUME VersionAssumption == MaxVersion \in Nat

VARIABLES
    key,    \* the lock's entry at the server
    lk      \* per client: the stage of its call and the Put it retries

lockVars == <<key, lk>>

LockInit ==
    /\ key = [Version |-> 0, Value |-> Free]
    /\ lk = [c \in Client |-> [pc |-> "idle", version |-> 0, resent |-> FALSE]]

At(c, pc) == lk' = [lk EXCEPT ![c] = [pc |-> pc, version |-> 0, resent |-> FALSE]]
AtPut(c, pc, version) ==
    lk' = [lk EXCEPT ![c] = [pc |-> pc, version |-> version, resent |-> FALSE]]

\* Acquire and Release are called.
Acquire(c) ==
    /\ lk[c].pc = "idle" /\ key.Version < MaxVersion
    /\ At(c, "acquire")
    /\ UNCHANGED key

Release(c) ==
    /\ lk[c].pc = "held"
    /\ At(c, "release")
    /\ UNCHANGED key

\* Mutant: an absent key is not a free lock.
AcquireGetExisting(c) ==
    /\ lk[c].pc = "acquire"
    /\ key.Version # 0 /\ key.Value = Free
    /\ AtPut(c, "take", key.Version)
    /\ UNCHANGED key

\* Acquire reads the key: it is absent or free, or somebody holds the lock and
\* the loop goes round.
AcquireGet(c) ==
    /\ lk[c].pc = "acquire"
    /\ key.Version = 0 \/ key.Value = Free
    /\ AtPut(c, "take", key.Version)
    /\ UNCHANGED key

\* Mutant: any later version counts as the client's own write.
TookAfterRetry(c) == key.Version > lk[c].version

\* After ErrMaybe the value tells whether the Put took the lock.
Took(c) == key.Version # 0 /\ key.Value = c

AcquireConfirm(c) ==
    /\ lk[c].pc = "confirm"
    /\ At(c, IF Took(c) THEN "held" ELSE "acquire")
    /\ UNCHANGED key

\* Release reads the key, and returns if the lock is not its own.
ReleaseGet(c) ==
    /\ lk[c].pc = "release"
    /\ IF key.Version # 0 /\ key.Value = c
       THEN AtPut(c, "give", key.Version)
       ELSE At(c, "idle")
    /\ UNCHANGED key

Putting == {"take", "give"}
Written(c) == IF lk[c].pc = "take" THEN c ELSE Free

\* What the client does with the result of its Put.
AfterPut(c, err) ==
    IF lk[c].pc = "take"
    THEN At(c, CASE err = "OK" -> "held"
                 [] err = "ErrMaybe" -> "confirm"
                 [] OTHER -> "acquire")
    ELSE At(c, IF err = "OK" THEN "idle" ELSE "release")

\* The server executes the Put and the answer arrives.
PutAnswered(c) ==
    /\ lk[c].pc \in Putting
    /\ key' = PutEntry(key, lk[c].version, Written(c))
    /\ AfterPut(c, ClerkErr(PutErr(key, lk[c].version), lk[c].resent))

\* Mutant: a Release whose Put is lost returns.
PutLostGivesUp(c) ==
    /\ lk[c].pc \in Putting
    /\ key' \in {key, PutEntry(key, lk[c].version, Written(c))}
    /\ IF lk[c].pc = "give" THEN At(c, "idle")
       ELSE lk' = [lk EXCEPT ![c].resent = TRUE]

\* The request or its answer is lost; the clerk sends the Put again.
PutLost(c) ==
    /\ lk[c].pc \in Putting
    /\ key' \in {key, PutEntry(key, lk[c].version, Written(c))}
    /\ lk' = [lk EXCEPT ![c].resent = TRUE]

\* What a client that was called does by itself.
Step(c) ==
    \/ AcquireGet(c)
    \/ AcquireConfirm(c)
    \/ ReleaseGet(c)
    \/ PutAnswered(c)

LockNext ==
    \E c \in Client :
        Acquire(c) \/ Release(c) \/ Step(c) \/ PutLost(c)

LockSpec == LockInit /\ [][LockNext]_lockVars

\* A client that called Acquire or Release keeps running and its requests are
\* answered in the end.
LockFairSpec == LockSpec /\ \A c \in Client : WF_lockVars(Step(c))

-----------------------------------------------------------------------------
LockTypeOK ==
    /\ key \in [Version : Nat, Value : Client \union {Free}]
    /\ lk \in [Client ->
            [pc : {"idle", "acquire", "take", "confirm", "held", "release", "give"},
             version : Nat, resent : BOOLEAN]]

\* No two clients are between the return of Acquire and the call of Release,
\* whatever requests and answers were lost on the way.
MutualExclusion ==
    \A c, d \in Client : lk[c].pc = "held" /\ lk[d].pc = "held" => c = d

\* A lock is not orphaned: the server names as its holder only a client that
\* has the lock or is about to find out, never one whose Release has returned or
\* that competes for it again and would wait for itself.
HolderKnows == key.Value # Free => lk[key.Value].pc \notin {"idle", "acquire"}

\* While somebody wants the lock it does not stay free: one of them gets it.
FreeLockIsTaken ==
    (\E c \in Client : lk[c].pc = "acquire") ~> (\E c \in Client : lk[c].pc = "held")

\* The inductive invariant behind MutualExclusion and HolderKnows.  A client that
\* has the lock is named at the server; one that retries a Put either has it
\* still ahead, or has marked it as resent.
PutPending(c) ==
    /\ lk[c].version <= key.Version
    /\ lk[c].pc = "take" /\ lk[c].version = key.Version => key.Value = Free
LockInv ==
    /\ key.Version = 0 => key.Value = Free
    /\ \A c \in Client :
        /\ lk[c].pc = "held" => key.Value = c
        /\ lk[c].pc = "give" =>
            /\ PutPending(c)
            /\ lk[c].version = key.Version => key.Value = c
            /\ lk[c].version # key.Version => key.Value # c
        /\ lk[c].pc = "take" =>
            /\ PutPending(c)
            /\ key.Value = c => lk[c].resent
        /\ key.Value = c =>
            lk[c].pc \in {"take", "confirm", "held", "release", "give"}
=============================================================================
