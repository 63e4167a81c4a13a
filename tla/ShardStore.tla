---------------------------- MODULE ShardStore ----------------------------
(***************************************************************************)
(* What the sharded store promises its clients, whatever moves underneath: *)
(* one copy of each shard, on which every Put request takes effect at most *)
(* once and whose recorded outcome is the only answer its client ever      *)
(* gets.  The one licence to forget is a published configuration that      *)
(* assigns the shard to nobody.  ShardMigration implements this.           *)
(***************************************************************************)
EXTENDS Integers, Sequences

CONSTANTS Shard, Write, ShardOf, None, MaxVersion

VARIABLES
    data,       \* per shard: the writes applied, and each request's outcome
    assigned,   \* per shard: whether the published configuration assigns it
    call        \* per request: its stage, its version and its answer

storeVars == <<data, assigned, call>>

Blank == [Values |-> << >>, Requests |-> [w \in Write |-> None]]

StoreInit ==
    /\ data = [s \in Shard |-> Blank]
    /\ assigned = [s \in Shard |-> TRUE]
    /\ call = [w \in Write |-> [pc |-> "idle", version |-> 0, answer |-> None]]

Begin(w, version) ==
    /\ call[w].pc = "idle"
    /\ call' = [call EXCEPT ![w].pc = "active", ![w].version = version]
    /\ UNCHANGED <<data, assigned>>

\* A conditional write: it needs the version the key has now.
Outcome(d, version) ==
    IF Len(d.Values) = version THEN "OK"
    ELSE IF d.Values = << >> THEN "ErrNoKey" ELSE "ErrVersion"

\* The request takes effect, which it can do once.
Effect(w) ==
    LET d == data[ShardOf[w]]
        outcome == Outcome(d, call[w].version)
    IN  /\ d.Requests[w] = None
        /\ data' = [data EXCEPT ![ShardOf[w]] =
                [Values |-> IF outcome = "OK" THEN Append(d.Values, w) ELSE d.Values,
                 Requests |-> [d.Requests EXCEPT ![w] = outcome]]]

\* Its client is told the outcome.
Told(w, outcome) ==
    /\ call[w].pc = "active"
    /\ outcome # None
    /\ call' = [call EXCEPT ![w].pc = "done", ![w].answer = outcome]

Perform(w) == call[w].pc # "idle" /\ Effect(w) /\ UNCHANGED <<assigned, call>>
Tell(w) ==
    Told(w, data[ShardOf[w]].Requests[w]) /\ UNCHANGED <<data, assigned>>
PerformAndTell(w) ==
    /\ Effect(w)
    /\ Told(w, Outcome(data[ShardOf[w]], call[w].version))
    /\ UNCHANGED assigned

Publish == assigned' \in [Shard -> BOOLEAN] /\ UNCHANGED <<data, call>>

Forget(s) ==
    /\ ~assigned[s]
    /\ data' = [data EXCEPT ![s] = Blank]
    /\ UNCHANGED <<assigned, call>>

StoreNext ==
    \/ \E w \in Write :
        \/ \E version \in 0..MaxVersion : Begin(w, version)
        \/ Perform(w)
        \/ Tell(w)
        \/ PerformAndTell(w)
    \/ Publish
    \/ \E s \in Shard : Forget(s)

StoreSpec == StoreInit /\ [][StoreNext]_storeVars
=============================================================================
