----------------------------- MODULE MapReduce -----------------------------
(***************************************************************************)
(* The MapReduce job of src/src/mr: the coordinator (coordinator.go) hands *)
(* out map tasks, then reduce tasks, and hands a task out again when ten   *)
(* seconds have passed without a report; workers (worker.go) can be slow   *)
(* or crash at any point and communicate through files that are renamed    *)
(* into place.                                                             *)
(*                                                                         *)
(* A step is one RPC of the coordinator, or one file read or renamed by a  *)
(* worker.  Which tasks have timed out is decided by the clock: any task   *)
(* in progress may have.  Map and reduce functions are deterministic, so a *)
(* file under its final name is absent or complete.                        *)
(***************************************************************************)
EXTENDS Integers, FiniteSets

CONSTANTS
    Worker,       \* worker processes
    Reliable,     \* the workers that do not crash and whose calls do not fail
    NMap,         \* number of input files, which is the number of map tasks
    NReduce       \* number of reduce tasks

MapID == 1..NMap
ReduceID == 1..NReduce

ASSUME TaskAssumption == NMap \in Nat /\ NReduce \in Nat \ {0}
ASSUME WorkerAssumption == Reliable \subseteq Worker

VARIABLES
    phase,          \* MapPhase, ReducePhase or DonePhase
    mapTasks, reduceTasks,   \* the status of every task
    worker,         \* per worker: the task it works on and how far it got
    intermediate,   \* the files mr-X-Y
    output          \* the files mr-out-Y

coordinator == <<phase, mapTasks, reduceTasks>>
files == <<intermediate, output>>
vars == <<phase, mapTasks, reduceTasks, worker, intermediate, output>>

NoTask == [type |-> "Ask", id |-> 0, step |-> 0]

Init ==
    /\ phase = "MapPhase"
    /\ mapTasks = [i \in MapID |-> "Idle"]
    /\ reduceTasks = [i \in ReduceID |-> "Idle"]
    /\ worker = [w \in Worker |-> NoTask]
    /\ intermediate = [i \in MapID |-> [r \in ReduceID |-> "absent"]]
    /\ output = [r \in ReduceID |-> "absent"]

AllDone(tasks) == \A i \in DOMAIN tasks : tasks[i] = "Completed"
First(S) == CHOOSE i \in S : \A j \in S : i <= j

\* Mutant: no task is handed out twice.
AvailableIdle(tasks, late) == {i \in DOMAIN tasks : tasks[i] = "Idle"}

\* The tasks that can be handed out when those in late have timed out.
Available(tasks, late) ==
    {i \in DOMAIN tasks : tasks[i] = "Idle" \/ (tasks[i] = "InProgress" /\ i \in late)}

Works(w, type, id) ==
    worker' = [worker EXCEPT ![w] = [type |-> type, id |-> id, step |-> 1]]

Advance(w) == worker' = [worker EXCEPT ![w].step = @ + 1]

(***************************************************************************)
(* RequestTask, one action per answer; the answer WaitTask changes nothing *)
(* and the worker asks again.                                              *)
(***************************************************************************)
\* The phase the request finds or, when the last map is done, moves to.
MapsOver == AllDone(mapTasks)

RequestMap(w, late) ==
    /\ worker[w].type = "Ask"
    /\ phase = "MapPhase" /\ ~MapsOver
    /\ Available(mapTasks, late) # {}
    /\ LET i == First(Available(mapTasks, late))
       IN  mapTasks' = [mapTasks EXCEPT ![i] = "InProgress"] /\ Works(w, "Map", i)
    /\ UNCHANGED <<phase, reduceTasks, files>>

Reducing == phase = "ReducePhase" \/ (phase = "MapPhase" /\ MapsOver)

RequestReduce(w, late) ==
    /\ worker[w].type = "Ask"
    /\ Reducing /\ ~AllDone(reduceTasks)
    /\ phase' = "ReducePhase"
    /\ IF Available(reduceTasks, late) = {}
       THEN UNCHANGED <<reduceTasks, worker>>
       ELSE LET i == First(Available(reduceTasks, late))
            IN  /\ reduceTasks' = [reduceTasks EXCEPT ![i] = "InProgress"]
                /\ Works(w, "Reduce", i)
    /\ UNCHANGED <<mapTasks, files>>

RequestExit(w) ==
    /\ worker[w].type = "Ask"
    /\ phase = "DonePhase" \/ (Reducing /\ AllDone(reduceTasks))
    /\ phase' = "DonePhase"
    /\ worker' = [worker EXCEPT ![w] = [NoTask EXCEPT !.type = "Exited"]]
    /\ UNCHANGED <<mapTasks, reduceTasks, files>>

(***************************************************************************)
(* ReportTask.                                                             *)
(***************************************************************************)
\* A report completes a task in progress, whoever was handed it last.
Reported(tasks, i, during) ==
    IF phase = during /\ tasks[i] = "InProgress"
    THEN [tasks EXCEPT ![i] = "Completed"]
    ELSE tasks

ReportMap(w) ==
    /\ worker[w].type = "Map" /\ worker[w].step = NReduce + 1
    /\ mapTasks' = Reported(mapTasks, worker[w].id, "MapPhase")
    /\ phase' = IF phase = "MapPhase" /\ AllDone(mapTasks') THEN "ReducePhase" ELSE phase
    /\ worker' = [worker EXCEPT ![w] = NoTask]
    /\ UNCHANGED <<reduceTasks, files>>

\* Mutant: the reducer reports before its output is renamed into place.
ReportReduceEarly(w) ==
    /\ worker[w].type = "Reduce" /\ worker[w].step = NMap + 1
    /\ reduceTasks' = Reported(reduceTasks, worker[w].id, "ReducePhase")
    /\ phase' = IF phase = "ReducePhase" /\ AllDone(reduceTasks') THEN "DonePhase"
                ELSE phase
    /\ Advance(w)
    /\ UNCHANGED <<mapTasks, files>>

ReportReduce(w) ==
    /\ worker[w].type = "Reduce" /\ worker[w].step = NMap + 2
    /\ reduceTasks' = Reported(reduceTasks, worker[w].id, "ReducePhase")
    /\ phase' = IF phase = "ReducePhase" /\ AllDone(reduceTasks') THEN "DonePhase"
                ELSE phase
    /\ worker' = [worker EXCEPT ![w] = NoTask]
    /\ UNCHANGED <<mapTasks, files>>

(***************************************************************************)
(* The workers.                                                            *)
(***************************************************************************)
\* Mutant: the file is written in place, in two steps that others can see.
WriteInPlace(w) ==
    LET i == worker[w].id
        r == worker[w].step
    IN  /\ worker[w].type = "Map" /\ r <= NReduce
        /\ IF intermediate[i][r] = "half"
           THEN intermediate' = [intermediate EXCEPT ![i][r] = "complete"] /\ Advance(w)
           ELSE intermediate' = [intermediate EXCEPT ![i][r] = "half"]
                /\ UNCHANGED worker
        /\ UNCHANGED <<coordinator, output>>

\* doMapTask renames the next of its NReduce files into place.
WriteIntermediate(w) ==
    LET i == worker[w].id
        r == worker[w].step
    IN  /\ worker[w].type = "Map" /\ r <= NReduce
        /\ intermediate' = [intermediate EXCEPT ![i][r] = "complete"]
        /\ Advance(w)
        /\ UNCHANGED <<coordinator, output>>

\* doReduceTask reads the next of its NMap files; it dies if it cannot.
ReadIntermediate(w) ==
    LET i == worker[w].step
        r == worker[w].id
    IN  /\ worker[w].type = "Reduce" /\ i <= NMap
        /\ IF intermediate[i][r] = "complete" THEN Advance(w)
           ELSE worker' = [worker EXCEPT ![w] = [NoTask EXCEPT !.type = "Fatal"]]
        /\ UNCHANGED <<coordinator, files>>

\* ... and renames its output into place.
WriteOutput(w) ==
    /\ worker[w].type = "Reduce" /\ worker[w].step = NMap + 1
    /\ output' = [output EXCEPT ![worker[w].id] = "complete"]
    /\ Advance(w)
    /\ UNCHANGED <<coordinator, intermediate>>

\* A worker process dies at any point.
Crash(w) ==
    /\ w \notin Reliable
    /\ worker[w].type \in {"Ask", "Map", "Reduce"}
    /\ worker' = [worker EXCEPT ![w] = [NoTask EXCEPT !.type = "Crashed"]]
    /\ UNCHANGED <<coordinator, files>>

\* A call fails: the answer with a task is lost, or the report of one; the
\* worker asks again.
CallFails(w) ==
    /\ w \notin Reliable
    /\ \/ worker[w].type = "Map" /\ worker[w].step \in {1, NReduce + 1}
       \/ worker[w].type = "Reduce" /\ worker[w].step \in {1, NMap + 2}
    /\ worker' = [worker EXCEPT ![w] = NoTask]
    /\ UNCHANGED <<coordinator, files>>

Request(w) ==
    \/ \E late \in SUBSET MapID : RequestMap(w, late)
    \/ \E late \in SUBSET ReduceID : RequestReduce(w, late)
    \/ RequestExit(w)

Work(w) ==
    \/ WriteIntermediate(w)
    \/ ReportMap(w)
    \/ ReadIntermediate(w)
    \/ WriteOutput(w)
    \/ ReportReduce(w)

Next == \E w \in Worker : Request(w) \/ Work(w) \/ Crash(w) \/ CallFails(w)

Spec == Init /\ [][Next]_vars

\* A reliable worker keeps asking and working; asking long enough, it finds
\* every unfinished task idle or timed out.
FairSpec == Spec /\ \A w \in Reliable : WF_vars(Request(w)) /\ WF_vars(Work(w))

-----------------------------------------------------------------------------
\* A reducer always finds complete input: log.Fatalf "cannot open" or "cannot
\* decode intermediate file" is unreachable, whatever crashed, timed out or was
\* executed twice before.
ReducersFindInput == \A w \in Worker : worker[w].type # "Fatal"

\* When Done() says so the whole output is there.
DoneMeansOutput == phase = "DonePhase" => \A r \in ReduceID : output[r] = "complete"

\* The job finishes if one worker does not crash and reaches the coordinator,
\* whatever the others leave behind.
JobFinishes == <>(phase = "DonePhase")
=============================================================================
