------------------------- MODULE SingleServerProofs -------------------------
(***************************************************************************)
(* The parts of the system in which one process serves many: the           *)
(* coordinator of a MapReduce job, the key/value server with a lock at it, *)
(* the network to a server that is killed and started again, and the       *)
(* goroutines of one Raft server.  They share no constant and no variable, *)
(* and each has a specification of its own.                                *)
(***************************************************************************)
EXTENDS MapReduce, KvLock, Network, RaftThreads,
        FiniteSetTheorems, WellFoundedInduction, TLAPS

----------------------------------------------------------------------------
(***************************************************************************)
(* MapReduce.  Reducers find their input and Done means output, for any    *)
(* number of workers and of tasks.  A task counts as completed only after  *)
(* a worker that had all its files in place reported it, and files are     *)
(* never removed: so it does not matter whose report it was, how often the *)
(* task was handed out, or how late the others are.                        *)
(***************************************************************************)
Status == {"Idle", "InProgress", "Completed"}
File == {"absent", "complete"}
Process == [type : {"Ask", "Map", "Reduce", "Exited", "Fatal", "Crashed"},
            id : Nat, step : Nat]

JobTypes ==
    /\ phase \in {"MapPhase", "ReducePhase", "DonePhase"}
    /\ mapTasks \in [MapID -> Status] /\ reduceTasks \in [ReduceID -> Status]
    /\ worker \in [Worker -> Process]
    /\ intermediate \in [MapID -> [ReduceID -> File]]
    /\ output \in [ReduceID -> File]

\* A map worker has renamed the files of the reducers before its step.
Mapping(w) ==
    worker[w].type = "Map" =>
      /\ worker[w].id \in MapID /\ worker[w].step \in 1..NReduce + 1
      /\ \A r \in ReduceID :
           r < worker[w].step => intermediate[worker[w].id][r] = "complete"

\* A reduce worker was handed its task after the maps were over.
ReducingTask(w) ==
    worker[w].type = "Reduce" =>
      /\ worker[w].id \in ReduceID /\ worker[w].step \in 1..NMap + 2
      /\ phase # "MapPhase"
      /\ worker[w].step = NMap + 2 => output[worker[w].id] = "complete"

\* What is completed is in the file system.
CompletedMaps ==
    \A i \in MapID : mapTasks[i] = "Completed" =>
      \A r \in ReduceID : intermediate[i][r] = "complete"

CompletedReduces ==
    \A r \in ReduceID : reduceTasks[r] = "Completed" => output[r] = "complete"

\* A phase begins when the tasks of the one before are completed.
PhasesInOrder ==
    /\ phase # "MapPhase" => AllDone(mapTasks)
    /\ phase = "DonePhase" => AllDone(reduceTasks)

JobInv ==
    /\ JobTypes
    /\ \A w \in Worker : Mapping(w) /\ ReducingTask(w) /\ worker[w].type # "Fatal"
    /\ CompletedMaps /\ CompletedReduces
    /\ PhasesInOrder

----------------------------------------------------------------------------
\* The task RequestTask picks, the first available one, is an available one.
LEMMA FirstIsAvailable ==
    ASSUME NEW S, S \subseteq Nat, S # {}
    PROVE  First(S) \in S
<1> DEFINE R == OpToRel(<, Nat)
<1>1. IsWellFoundedOn(R, Nat)
  BY NatLessThanWellFounded
<1>2. R = {ss \in Nat \X Nat : ss[1] < ss[2]}
  BY Zenon DEF OpToRel
<1> HIDE DEF R
<1>3. PICK x \in S : \A y \in S : ~(<<y, x>> \in R)
  BY <1>1, WFMin
<1>4. ASSUME NEW y \in S PROVE x <= y
  <2>1. <<y, x>> \in Nat \X Nat /\ ~(<<y, x>> \in {ss \in Nat \X Nat : ss[1] < ss[2]})
    BY <1>2, <1>3
  <2>2. ~(<<y, x>>[1] < <<y, x>>[2])
    BY <2>1
  <2> QED BY <2>2
<1> QED BY <1>4 DEF First

\* Available tasks are tasks.
LEMMA AvailableTasks ==
    ASSUME NEW n \in Nat, NEW tasks \in [1..n -> Status], NEW late,
           Available(tasks, late) # {}
    PROVE  First(Available(tasks, late)) \in 1..n
<1>1. Available(tasks, late) \subseteq 1..n
  BY DEF Available
<1>2. First(Available(tasks, late)) \in Available(tasks, late)
  BY <1>1, FirstIsAvailable
<1> QED BY <1>1, <1>2

\* At the start nothing is completed.
LEMMA JobInit == Init => JobInv
  BY TaskAssumption DEF Init, JobInv, JobTypes, Mapping, ReducingTask, CompletedMaps,
     CompletedReduces, PhasesInOrder, NoTask, Status, File, Process, MapID, ReduceID,
     AllDone

\* Handing out a map task.
LEMMA JobRequestMap ==
    ASSUME JobInv, NEW w \in Worker, NEW late \in SUBSET MapID, RequestMap(w, late)
    PROVE  JobInv'
<1> DEFINE i == First(Available(mapTasks, late))
<1>1. i \in MapID
  BY AvailableTasks, TaskAssumption DEF RequestMap, JobInv, JobTypes, MapID
<1>2. /\ mapTasks' = [mapTasks EXCEPT ![i] = "InProgress"]
      /\ worker' = [worker EXCEPT ![w] = [type |-> "Map", id |-> i, step |-> 1]]
      /\ UNCHANGED <<phase, reduceTasks, intermediate, output>>
      /\ phase = "MapPhase"
  BY DEF RequestMap, Works, files
<1> HIDE DEF i
<1>3. [type |-> "Map", id |-> i, step |-> 1] \in Process
  BY <1>1 DEF Process, MapID
<1>4. JobTypes'
  BY <1>1, <1>2, <1>3 DEF JobInv, JobTypes, Status
<1>5. ASSUME NEW v \in Worker
      PROVE  Mapping(v)' /\ ReducingTask(v)' /\ worker'[v].type # "Fatal"
  <2>1. CASE v = w
    <3>1. worker'[v] = [type |-> "Map", id |-> i, step |-> 1]
      BY <2>1, <1>2 DEF JobInv, JobTypes
    <3> QED BY <3>1, <1>1, TaskAssumption DEF Mapping, ReducingTask, ReduceID
  <2>2. CASE v # w
    BY <2>2, <1>2 DEF JobInv, JobTypes, Mapping, ReducingTask
  <2> QED BY <2>1, <2>2
<1>6. CompletedMaps' /\ CompletedReduces' /\ PhasesInOrder'
  BY <1>1, <1>2 DEF JobInv, JobTypes, CompletedMaps, CompletedReduces, PhasesInOrder
<1> QED BY <1>4, <1>5, <1>6 DEF JobInv

\* Handing out a reduce task, which may first end the map phase.
LEMMA JobRequestReduce ==
    ASSUME JobInv, NEW w \in Worker, NEW late \in SUBSET ReduceID,
           RequestReduce(w, late)
    PROVE  JobInv'
<1> DEFINE i == First(Available(reduceTasks, late))
<1>1. /\ phase' = "ReducePhase" /\ AllDone(mapTasks)
      /\ UNCHANGED <<mapTasks, intermediate, output>>
  BY DEF RequestReduce, Reducing, MapsOver, JobInv, PhasesInOrder, files
<1>2. CASE Available(reduceTasks, late) = {}
  <2>1. UNCHANGED <<reduceTasks, worker>>
    BY <1>2 DEF RequestReduce
  <2> QED BY <1>1, <2>1 DEF JobInv, JobTypes, Mapping, ReducingTask, CompletedMaps,
             CompletedReduces, PhasesInOrder
<1>3. CASE Available(reduceTasks, late) # {}
  <2>1. i \in ReduceID
    BY <1>3, AvailableTasks, TaskAssumption DEF JobInv, JobTypes, ReduceID
  <2>2. /\ reduceTasks' = [reduceTasks EXCEPT ![i] = "InProgress"]
        /\ worker' = [worker EXCEPT ![w] = [type |-> "Reduce", id |-> i, step |-> 1]]
    BY <1>3 DEF RequestReduce, Works
  <2> HIDE DEF i
  <2>3. [type |-> "Reduce", id |-> i, step |-> 1] \in Process
    BY <2>1 DEF Process, ReduceID
  <2>4. JobTypes'
    BY <1>1, <2>1, <2>2, <2>3 DEF JobInv, JobTypes, Status
  <2>5. ASSUME NEW v \in Worker
        PROVE  Mapping(v)' /\ ReducingTask(v)' /\ worker'[v].type # "Fatal"
    <3>1. CASE v = w
      <4>1. worker'[v] = [type |-> "Reduce", id |-> i, step |-> 1]
        BY <3>1, <2>2 DEF JobInv, JobTypes
      <4> QED BY <4>1, <1>1, <2>1, TaskAssumption DEF Mapping, ReducingTask
    <3>2. CASE v # w
      BY <3>2, <1>1, <2>2 DEF JobInv, JobTypes, Mapping, ReducingTask
    <3> QED BY <3>1, <3>2
  <2>6. CompletedMaps' /\ CompletedReduces' /\ PhasesInOrder'
    BY <1>1, <2>1, <2>2
       DEF JobInv, JobTypes, CompletedMaps, CompletedReduces, PhasesInOrder
  <2> QED BY <2>4, <2>5, <2>6 DEF JobInv
<1> QED BY <1>2, <1>3

\* A worker that stops working, for whatever reason, takes nothing with it.
LEMMA WorkerGone ==
    ASSUME JobInv, NEW w \in Worker, NEW type \in {"Ask", "Exited", "Crashed"},
           worker' = [worker EXCEPT ![w] = [NoTask EXCEPT !.type = type]],
           UNCHANGED <<intermediate, output>>,
           phase # "MapPhase" => phase' # "MapPhase"
    PROVE  /\ worker' \in [Worker -> Process]
           /\ \A v \in Worker :
                Mapping(v)' /\ ReducingTask(v)' /\ worker'[v].type # "Fatal"
<1>1. [NoTask EXCEPT !.type = type] = [type |-> type, id |-> 0, step |-> 0]
  BY DEF NoTask
<1>2. [type |-> type, id |-> 0, step |-> 0] \in Process
  BY DEF Process
<1>3. worker \in [Worker -> Process]
  BY DEF JobInv, JobTypes
<1>4. worker' \in [Worker -> Process]
  BY <1>1, <1>2, <1>3
<1>5. worker'[w].type = type /\ \A v \in Worker \ {w} : worker'[v] = worker[v]
  BY <1>1, <1>3
<1> QED BY <1>4, <1>5 DEF JobInv, Mapping, ReducingTask

\* The same when it asks for a new task.
LEMMA WorkerAsks ==
    ASSUME JobInv, NEW w \in Worker, worker' = [worker EXCEPT ![w] = NoTask],
           UNCHANGED <<intermediate, output>>,
           phase # "MapPhase" => phase' # "MapPhase"
    PROVE  /\ worker' \in [Worker -> Process]
           /\ \A v \in Worker :
                Mapping(v)' /\ ReducingTask(v)' /\ worker'[v].type # "Fatal"
<1>1. NoTask = [NoTask EXCEPT !.type = "Ask"]
  BY DEF NoTask
<1> QED BY <1>1, WorkerGone

\* A worker that leaves or whose call fails changes no task.
LEMMA JobLeave ==
    ASSUME JobInv, NEW w \in Worker, RequestExit(w) \/ Crash(w) \/ CallFails(w)
    PROVE  JobInv'
<1>1. /\ UNCHANGED <<mapTasks, reduceTasks, intermediate, output>>
      /\ \/ phase' = phase
         \/ phase' = "DonePhase" /\ AllDone(mapTasks) /\ AllDone(reduceTasks)
  BY DEF RequestExit, Crash, CallFails, Reducing, MapsOver, JobInv, PhasesInOrder,
         coordinator, files
<1>2. /\ worker' \in [Worker -> Process]
      /\ \A v \in Worker :
           Mapping(v)' /\ ReducingTask(v)' /\ worker'[v].type # "Fatal"
  <2>1. CASE CallFails(w)
    BY <2>1, <1>1, WorkerAsks DEF CallFails
  <2>2. CASE RequestExit(w)
    BY <2>2, <1>1, WorkerGone DEF RequestExit
  <2>3. CASE Crash(w)
    BY <2>3, <1>1, WorkerGone DEF Crash
  <2> QED BY <2>1, <2>2, <2>3
<1>3. JobTypes'
  BY <1>1, <1>2 DEF JobInv, JobTypes
<1>4. CompletedMaps' /\ CompletedReduces' /\ PhasesInOrder'
  BY <1>1 DEF JobInv, CompletedMaps, CompletedReduces, PhasesInOrder
<1> QED BY <1>2, <1>3, <1>4 DEF JobInv

\* The report of a map task: its worker has renamed all its files.
LEMMA JobReportMap ==
    ASSUME JobInv, NEW w \in Worker, ReportMap(w)
    PROVE  JobInv'
<1> DEFINE i == worker[w].id
<1>1. /\ i \in MapID /\ \A r \in ReduceID : intermediate[i][r] = "complete"
      /\ worker[w].step = NReduce + 1
  BY TaskAssumption DEF ReportMap, JobInv, Mapping, ReduceID
<1>2. /\ mapTasks' = mapTasks \/ mapTasks' = [mapTasks EXCEPT ![i] = "Completed"]
      /\ UNCHANGED <<reduceTasks, intermediate, output>>
      /\ worker' = [worker EXCEPT ![w] = NoTask]
      /\ phase' = phase \/ (phase' = "ReducePhase" /\ AllDone(mapTasks'))
      /\ phase # "MapPhase" => phase' = phase
  BY DEF ReportMap, Reported, files
<1> HIDE DEF i
<1>3. /\ worker' \in [Worker -> Process]
      /\ \A v \in Worker :
           Mapping(v)' /\ ReducingTask(v)' /\ worker'[v].type # "Fatal"
  BY <1>2, WorkerAsks
<1>4. JobTypes'
  BY <1>1, <1>2, <1>3 DEF JobInv, JobTypes, Status
<1>5. CompletedMaps' /\ CompletedReduces'
  BY <1>1, <1>2 DEF JobInv, JobTypes, CompletedMaps, CompletedReduces
<1>6. \A k \in MapID : mapTasks[k] = "Completed" => mapTasks'[k] = "Completed"
  BY <1>1, <1>2 DEF JobInv, JobTypes
<1>7. AllDone(mapTasks) => AllDone(mapTasks')
  BY <1>4, <1>6 DEF AllDone, JobInv, JobTypes
<1>8. PhasesInOrder'
  BY <1>2, <1>7 DEF JobInv, PhasesInOrder
<1> QED BY <1>3, <1>4, <1>5, <1>8 DEF JobInv

\* The report of a reduce task: its worker has renamed its output.
LEMMA JobReportReduce ==
    ASSUME JobInv, NEW w \in Worker, ReportReduce(w)
    PROVE  JobInv'
<1> DEFINE i == worker[w].id
<1>1. i \in ReduceID /\ output[i] = "complete"
  BY DEF ReportReduce, JobInv, ReducingTask
<1>2. /\ \/ reduceTasks' = reduceTasks
         \/ reduceTasks' = [reduceTasks EXCEPT ![i] = "Completed"]
      /\ UNCHANGED <<mapTasks, intermediate, output>>
      /\ worker' = [worker EXCEPT ![w] = NoTask]
      /\ \/ phase' = phase
         \/ phase = "ReducePhase" /\ phase' = "DonePhase" /\ AllDone(reduceTasks')
  BY DEF ReportReduce, Reported, files
<1> HIDE DEF i
<1>3. /\ worker' \in [Worker -> Process]
      /\ \A v \in Worker :
           Mapping(v)' /\ ReducingTask(v)' /\ worker'[v].type # "Fatal"
  BY <1>2, WorkerAsks
<1>4. JobTypes'
  BY <1>1, <1>2, <1>3 DEF JobInv, JobTypes, Status
<1>5. CompletedMaps' /\ CompletedReduces'
  BY <1>1, <1>2 DEF JobInv, JobTypes, CompletedMaps, CompletedReduces
<1>6. \A k \in ReduceID : reduceTasks[k] = "Completed" => reduceTasks'[k] = "Completed"
  BY <1>1, <1>2 DEF JobInv, JobTypes
<1>7. AllDone(reduceTasks) => AllDone(reduceTasks')
  BY <1>4, <1>6 DEF AllDone, JobInv, JobTypes
<1>8. PhasesInOrder'
  BY <1>2, <1>7 DEF JobInv, PhasesInOrder
<1> QED BY <1>3, <1>4, <1>5, <1>8 DEF JobInv

\* Advance moves one worker and leaves its task alone.
LEMMA AdvanceEffect ==
    ASSUME JobTypes, NEW w \in Worker, Advance(w)
    PROVE  /\ worker' \in [Worker -> Process]
           /\ \A v \in Worker : /\ worker'[v].type = worker[v].type
                                /\ worker'[v].id = worker[v].id
                                /\ v # w => worker'[v].step = worker[v].step
           /\ worker'[w].step = worker[w].step + 1
  BY DEF JobTypes, Advance, Process

\* A map worker renames one more file.
LEMMA JobWriteIntermediate ==
    ASSUME JobInv, NEW w \in Worker, WriteIntermediate(w)
    PROVE  JobInv'
<1> DEFINE i == worker[w].id
           r == worker[w].step
<1>1. /\ i \in MapID /\ r \in ReduceID
      /\ intermediate' = [intermediate EXCEPT ![i][r] = "complete"]
      /\ UNCHANGED <<phase, mapTasks, reduceTasks, output>>
      /\ Advance(w) /\ worker[w].type = "Map"
  BY TaskAssumption DEF WriteIntermediate, JobInv, Mapping, ReduceID, coordinator
<1>2. /\ worker' \in [Worker -> Process]
      /\ \A v \in Worker : /\ worker'[v].type = worker[v].type
                           /\ worker'[v].id = worker[v].id
                           /\ v # w => worker'[v].step = worker[v].step
      /\ worker'[w].step = r + 1
  BY <1>1, AdvanceEffect DEF JobInv
<1>3. /\ intermediate' \in [MapID -> [ReduceID -> File]]
      /\ intermediate'[i][r] = "complete"
      /\ \A k \in MapID, q \in ReduceID :
           intermediate[k][q] = "complete" => intermediate'[k][q] = "complete"
  BY <1>1 DEF JobInv, JobTypes, File
<1>4. JobTypes'
  BY <1>1, <1>2, <1>3 DEF JobInv, JobTypes
<1>5. ASSUME NEW v \in Worker
      PROVE  Mapping(v)' /\ ReducingTask(v)' /\ worker'[v].type # "Fatal"
  <2>1. CASE v = w
    <3>1. \A q \in ReduceID : q < r + 1 => q < r \/ q = r
      BY <1>1 DEF ReduceID
    <3>2. r + 1 \in 1..NReduce + 1
      BY <1>1, TaskAssumption DEF ReduceID
    <3>3. \A q \in ReduceID : q < r + 1 => intermediate'[i][q] = "complete"
      BY <3>1, <1>1, <1>3 DEF JobInv, Mapping
    <3> QED BY <2>1, <1>1, <1>2, <3>2, <3>3 DEF Mapping, ReducingTask
  <2>2. CASE v # w
    BY <2>2, <1>1, <1>2, <1>3 DEF JobInv, Mapping, ReducingTask
  <2> QED BY <2>1, <2>2
<1>6. CompletedMaps' /\ CompletedReduces' /\ PhasesInOrder'
  BY <1>1, <1>3 DEF JobInv, CompletedMaps, CompletedReduces, PhasesInOrder
<1> QED BY <1>4, <1>5, <1>6 DEF JobInv

\* A reduce worker reads one more file, which is there.
LEMMA JobReadIntermediate ==
    ASSUME JobInv, NEW w \in Worker, ReadIntermediate(w)
    PROVE  JobInv'
<1> DEFINE i == worker[w].step
           r == worker[w].id
<1>1. /\ i \in MapID /\ r \in ReduceID /\ phase # "MapPhase"
      /\ worker[w].type = "Reduce"
  BY TaskAssumption DEF ReadIntermediate, JobInv, ReducingTask, MapID
<1>2. intermediate[i][r] = "complete"
  BY <1>1 DEF JobInv, JobTypes, PhasesInOrder, AllDone, CompletedMaps
<1>3. Advance(w) /\ UNCHANGED <<phase, mapTasks, reduceTasks, intermediate, output>>
  BY <1>2 DEF ReadIntermediate, coordinator, files
<1>4. /\ worker' \in [Worker -> Process]
      /\ \A v \in Worker : /\ worker'[v].type = worker[v].type
                           /\ worker'[v].id = worker[v].id
                           /\ v # w => worker'[v].step = worker[v].step
      /\ worker'[w].step = i + 1
  BY <1>3, AdvanceEffect DEF JobInv
<1>5. ASSUME NEW v \in Worker
      PROVE  Mapping(v)' /\ ReducingTask(v)' /\ worker'[v].type # "Fatal"
  <2>1. CASE v = w
    <3>1. i + 1 \in 1..NMap + 2 /\ i + 1 # NMap + 2
      BY <1>1, TaskAssumption DEF MapID
    <3> QED BY <2>1, <1>1, <1>3, <1>4, <3>1 DEF Mapping, ReducingTask
  <2>2. CASE v # w
    BY <2>2, <1>3, <1>4 DEF JobInv, Mapping, ReducingTask
  <2> QED BY <2>1, <2>2
<1>6. JobTypes' /\ CompletedMaps' /\ CompletedReduces' /\ PhasesInOrder'
  BY <1>3, <1>4 DEF JobInv, JobTypes, CompletedMaps, CompletedReduces, PhasesInOrder
<1> QED BY <1>5, <1>6 DEF JobInv

\* A reduce worker renames its output.
LEMMA JobWriteOutput ==
    ASSUME JobInv, NEW w \in Worker, WriteOutput(w)
    PROVE  JobInv'
<1> DEFINE r == worker[w].id
<1>1. /\ r \in ReduceID /\ phase # "MapPhase" /\ worker[w].type = "Reduce"
      /\ worker[w].step = NMap + 1
      /\ output' = [output EXCEPT ![r] = "complete"]
      /\ Advance(w) /\ UNCHANGED <<phase, mapTasks, reduceTasks, intermediate>>
  BY DEF WriteOutput, JobInv, ReducingTask, coordinator
<1>2. /\ worker' \in [Worker -> Process]
      /\ \A v \in Worker : /\ worker'[v].type = worker[v].type
                           /\ worker'[v].id = worker[v].id
                           /\ v # w => worker'[v].step = worker[v].step
      /\ worker'[w].step = NMap + 2
  BY <1>1, AdvanceEffect, TaskAssumption DEF JobInv
<1>3. /\ output' \in [ReduceID -> File] /\ output'[r] = "complete"
      /\ \A q \in ReduceID : output[q] = "complete" => output'[q] = "complete"
  BY <1>1 DEF JobInv, JobTypes, File
<1>4. ASSUME NEW v \in Worker
      PROVE  Mapping(v)' /\ ReducingTask(v)' /\ worker'[v].type # "Fatal"
  <2>1. CASE v = w
    <3>1. NMap + 2 \in 1..NMap + 2
      BY TaskAssumption
    <3> QED BY <2>1, <1>1, <1>2, <1>3, <3>1 DEF Mapping, ReducingTask
  <2>2. CASE v # w
    BY <2>2, <1>1, <1>2, <1>3 DEF JobInv, Mapping, ReducingTask
  <2> QED BY <2>1, <2>2
<1>5. JobTypes' /\ CompletedMaps' /\ CompletedReduces' /\ PhasesInOrder'
  BY <1>1, <1>2, <1>3
     DEF JobInv, JobTypes, CompletedMaps, CompletedReduces, PhasesInOrder
<1> QED BY <1>4, <1>5 DEF JobInv

----------------------------------------------------------------------------
\* The inductive invariant of the job: what the coordinator calls completed is
\* in the file system, and phases follow one another.
THEOREM JobInvariant == Spec => []JobInv
<1>1. JobInv /\ [Next]_vars => JobInv'
  <2> SUFFICES ASSUME JobInv, [Next]_vars PROVE JobInv'
    OBVIOUS
  <2>1. CASE UNCHANGED vars
    BY <2>1 DEF vars, JobInv, JobTypes, Mapping, ReducingTask, CompletedMaps,
                CompletedReduces, PhasesInOrder
  <2>2. ASSUME NEW w \in Worker, Request(w) PROVE JobInv'
    BY <2>2, JobRequestMap, JobRequestReduce, JobLeave DEF Request
  <2>3. ASSUME NEW w \in Worker, Work(w) PROVE JobInv'
    BY <2>3, JobWriteIntermediate, JobReportMap, JobReadIntermediate, JobWriteOutput,
       JobReportReduce DEF Work
  <2>4. ASSUME NEW w \in Worker, Crash(w) \/ CallFails(w) PROVE JobInv'
    BY <2>4, JobLeave
  <2> QED BY <2>1, <2>2, <2>3, <2>4 DEF Next
<1> QED BY <1>1, JobInit, PTL DEF Spec

\* A reducer never fails to open or to decode an intermediate file, whoever
\* wrote it and however often its map task was executed.
THEOREM InputIsThere == Spec => []ReducersFindInput
<1>1. JobInv => ReducersFindInput
  BY DEF JobInv, ReducersFindInput
<1> QED BY <1>1, JobInvariant, PTL

\* When Done() returns true every output file is in place.
THEOREM OutputIsThere == Spec => []DoneMeansOutput
<1>1. JobInv => DoneMeansOutput
  BY DEF JobInv, JobTypes, PhasesInOrder, AllDone, CompletedReduces, DoneMeansOutput
<1> QED BY <1>1, JobInvariant, PTL

----------------------------------------------------------------------------
(***************************************************************************)
(* The lock.  Mutual exclusion for any number of clients.  LockInv is      *)
(* inductive relative to the types: whoever has the lock is named at the   *)
(* server, and a Put that is being retried can only hit the version it was *)
(* computed from.                                                          *)
(***************************************************************************)
LockStages == {"idle", "acquire", "take", "confirm", "held", "release", "give"}
ClientState == [pc : LockStages, version : Nat, resent : BOOLEAN]

\* Replacing one client's state by a typed one keeps the clients typed.
LEMMA ClientUpdate ==
    ASSUME NEW f \in [Client -> ClientState], NEW c \in Client,
           NEW st \in ClientState
    PROVE  [f EXCEPT ![c] = st] \in [Client -> ClientState]
OBVIOUS

\* The state At and AtPut leave a client in is typed.
LEMMA FreshState ==
    ASSUME NEW stage \in LockStages, NEW version \in Nat
    PROVE  [pc |-> stage, version |-> version, resent |-> FALSE] \in ClientState
<1>1. \A resent \in BOOLEAN :
        [pc |-> stage, version |-> version, resent |-> resent] \in ClientState
  BY DEF ClientState
<1> QED BY <1>1

\* The types of the key and of the clients hold in every state.
LEMMA LockTypes == LockSpec => []LockTypeOK
<1>1. LockInit => LockTypeOK
  BY DEF LockInit, LockTypeOK
<1>2. LockTypeOK /\ [LockNext]_lockVars => LockTypeOK'
  <2> SUFFICES ASSUME LockTypeOK, [LockNext]_lockVars PROVE LockTypeOK'
    OBVIOUS
  <2>1. CASE UNCHANGED lockVars
    BY <2>1 DEF LockTypeOK, lockVars
  <2>2. ASSUME NEW c \in Client,
               \/ Acquire(c) \/ Release(c) \/ AcquireGet(c)
               \/ AcquireConfirm(c) \/ ReleaseGet(c)
        PROVE  LockTypeOK'
    <3>1. \E stage \in LockStages, version \in Nat :
            lk' = [lk EXCEPT ![c] = [pc |-> stage, version |-> version,
                                     resent |-> FALSE]]
      BY <2>2 DEF LockTypeOK, Acquire, Release, AcquireGet,
                  AcquireConfirm, ReleaseGet, At, AtPut, LockStages
    <3>2. key' = key
      BY <2>2 DEF Acquire, Release, AcquireGet, AcquireConfirm,
                  ReleaseGet
    <3>3. lk \in [Client -> ClientState]
      BY DEF LockTypeOK, ClientState, LockStages
    <3>4. lk' \in [Client -> ClientState]
      BY <3>1, <3>3, FreshState, ClientUpdate
    <3> QED BY <3>2, <3>4 DEF LockTypeOK, ClientState, LockStages
  <2>3. ASSUME NEW c \in Client, PutAnswered(c) \/ PutLost(c)
        PROVE  LockTypeOK'
    <3>1. Written(c) \in Client \union {Free}
      BY DEF Written
    <3>2. PutEntry(key, lk[c].version, Written(c))
              \in [Version : Nat, Value : Client \union {Free}]
      BY <3>1 DEF PutEntry, LockTypeOK
    <3>3. key' \in [Version : Nat, Value : Client \union {Free}]
      BY <2>3, <3>2 DEF PutAnswered, PutLost, LockTypeOK
    <3>4. lk \in [Client -> ClientState]
      BY DEF LockTypeOK, ClientState, LockStages
    <3>5. CASE PutLost(c)
      <4>1. \A b \in BOOLEAN : [lk EXCEPT ![c].resent = b] \in [Client -> ClientState]
        BY <3>4 DEF ClientState
      <4>2. lk' \in [Client -> ClientState]
        BY <3>5, <4>1 DEF PutLost
      <4> QED BY <3>3, <4>2 DEF LockTypeOK, ClientState, LockStages
    <3>6. CASE PutAnswered(c)
      <4>1. \E stage \in LockStages :
              lk' = [lk EXCEPT ![c] = [pc |-> stage, version |-> 0, resent |-> FALSE]]
        BY <3>6 DEF PutAnswered, AfterPut, At, LockStages
      <4>2. lk' \in [Client -> ClientState]
        BY <3>4, <4>1, FreshState, ClientUpdate
      <4> QED BY <3>3, <4>2 DEF LockTypeOK, ClientState, LockStages
    <3> QED BY <2>3, <3>5, <3>6
  <2> QED BY <2>1, <2>2, <2>3 DEF LockNext, Step
<1> QED BY <1>1, <1>2, PTL DEF LockSpec

\* What a Put does to the key: it hits the version it names, or nothing.
LEMMA PutHitsItsVersion ==
    ASSUME NEW entry \in [Version : Nat, Value : Client \union {Free}],
           NEW version \in Nat, NEW value \in Client \union {Free},
           version <= entry.Version
    PROVE  LET new == PutEntry(entry, version, value)
           IN  \/ /\ version = entry.Version
                  /\ new.Version = entry.Version + 1
                  /\ new.Value = value
                  /\ PutErr(entry, version) = "OK"
               \/ /\ version < entry.Version
                  /\ new = entry
                  /\ PutErr(entry, version) = "ErrVersion"
BY DEF PutEntry, PutErr

\* The invariant that carries the proof: the holder is named at the server, and a
\* pending Put is marked as resent once it may have succeeded.
THEOREM LockInvariant == LockSpec => []LockInv
<1>1. LockInit => LockInv
  BY FreeAssumption DEF LockInit, LockInv
<1>2. LockTypeOK /\ LockInv /\ [LockNext]_lockVars => LockInv'
  <2> SUFFICES ASSUME LockTypeOK, LockInv, [LockNext]_lockVars PROVE LockInv'
    OBVIOUS
  <2>1. CASE UNCHANGED lockVars
    BY <2>1 DEF LockInv, PutPending, lockVars
  <2>2. ASSUME NEW c \in Client,
               \/ Acquire(c) \/ Release(c) \/ AcquireGet(c)
               \/ AcquireConfirm(c) \/ ReleaseGet(c)
        PROVE  LockInv'
    BY <2>2, FreeAssumption
       DEF LockInv, PutPending, LockTypeOK, Acquire, Release,
           AcquireGet, AcquireConfirm, ReleaseGet, Took, At,
           AtPut
  <2>3. ASSUME NEW c \in Client, PutAnswered(c) \/ PutLost(c)
        PROVE  LockInv'
    <3>1. /\ lk[c].pc \in Putting
          /\ lk[c].version \in Nat /\ lk[c].version <= key.Version
          /\ key \in [Version : Nat, Value : Client \union {Free}]
      BY <2>3 DEF LockInv, PutPending, LockTypeOK, PutAnswered,
                  PutLost, Putting
    <3>2. Written(c) \in Client \union {Free}
      BY DEF Written
    <3>3. \/ /\ lk[c].version = key.Version
             /\ PutEntry(key, lk[c].version, Written(c)).Version = key.Version + 1
             /\ PutEntry(key, lk[c].version, Written(c)).Value = Written(c)
             /\ PutErr(key, lk[c].version) = "OK"
          \/ /\ lk[c].version < key.Version
             /\ PutEntry(key, lk[c].version, Written(c)) = key
             /\ PutErr(key, lk[c].version) = "ErrVersion"
      BY <3>1, <3>2, PutHitsItsVersion
    <3>4. CASE PutLost(c)
      <4>1. \A d \in Client : /\ d # c => lk'[d] = lk[d]
                              /\ lk'[c].pc = lk[c].pc
                              /\ lk'[c].version = lk[c].version
                              /\ lk'[c].resent
        BY <3>4 DEF PutLost, LockTypeOK
      <4>2. CASE key' = key
        BY <4>1, <4>2 DEF LockInv, PutPending
      <4>3. CASE key' # key
        <5>1. /\ lk[c].version = key.Version
              /\ key'.Version = key.Version + 1
              /\ key'.Value = Written(c)
          BY <3>3, <3>4, <4>3 DEF PutLost
        <5> QED BY <3>1, <4>1, <5>1, FreeAssumption
                DEF LockInv, PutPending, Written, Putting, LockTypeOK
      <4> QED BY <4>2, <4>3
    <3>5. CASE PutAnswered(c)
      <4>1. \A d \in Client : d # c => lk'[d] = lk[d]
        BY <3>5 DEF PutAnswered, AfterPut, At, LockTypeOK
      <4>2. key' = PutEntry(key, lk[c].version, Written(c))
        BY <3>5 DEF PutAnswered
      <4>3. CASE lk[c].version = key.Version
        <5>1. lk'[c].pc = IF lk[c].pc = "take" THEN "held" ELSE "idle"
          BY <3>3, <3>5, <4>3 DEF PutAnswered, AfterPut, At,
                                  LockTypeOK, ClerkErr
        <5>2. key'.Version = key.Version + 1 /\ key'.Value = Written(c)
          BY <3>1, <3>3, <4>2, <4>3
        <5> QED BY <3>1, <4>1, <4>3, <5>1, <5>2, FreeAssumption
                DEF LockInv, PutPending, Written, Putting, LockTypeOK
      <4>4. CASE lk[c].version < key.Version
        <5>1. key' = key
          BY <3>1, <3>3, <4>2, <4>4
        <5>2. lk'[c].pc = IF lk[c].pc = "take"
                          THEN IF lk[c].resent THEN "confirm" ELSE "acquire"
                          ELSE "release"
          BY <3>1, <3>3, <3>5, <4>4 DEF PutAnswered, AfterPut, At,
                                        LockTypeOK, ClerkErr
        <5> QED BY <3>1, <4>1, <4>4, <5>1, <5>2, FreeAssumption
                DEF LockInv, PutPending, Putting, LockTypeOK
      <4> QED BY <3>1, <4>3, <4>4
    <3> QED BY <2>3, <3>4, <3>5
  <2> QED BY <2>1, <2>2, <2>3 DEF LockNext, Step
<1> QED BY <1>1, <1>2, LockTypes, PTL DEF LockSpec

\* At most one client is between Acquire and Release.
THEOREM LockExcludes == LockSpec => []MutualExclusion
<1>1. LockInv => MutualExclusion
  BY DEF LockInv, MutualExclusion
<1> QED BY <1>1, LockInvariant, PTL

\* The server never names a client that has released the lock or that competes
\* for it again.
THEOREM LockNotOrphaned == LockSpec => []HolderKnows
<1>1. LockTypeOK /\ LockInv => HolderKnows
  BY DEF LockInv, HolderKnows, LockTypeOK
<1> QED BY <1>1, LockInvariant, LockTypes, PTL

----------------------------------------------------------------------------
(***************************************************************************)
(* The network.  A call answered with true is durable, for any number of   *)
(* calls, of processes of the server and of times the end is disabled.  A  *)
(* call stays on one connection, a process that has handled it has saved   *)
(* it, and a kill hands the persister to the next process.                 *)
(***************************************************************************)
ReqState == [pc : {"idle", "calling", "taken", "delay", "waiting", "replied",
                   "answering", "returned"},
             server : Conn \cup {NoConn}, ok : BOOLEAN]

SrState == [pc : {"idle", "put", "write", "wait", "done"},
            conn : Conn \cup {NoConn}, ok : BOOLEAN]

\* A server that is registered is the one that runs.
RegisteredRuns == servers # NoConn => servers = epoch /\ process = "running"

\* A call is on one connection, to a process that has been started.
OnOneConn ==
    \A c \in Call :
        /\ req[c].pc \in {"delay", "waiting", "replied"} => req[c].server \in 1..epoch
        /\ req[c].pc \in {"waiting", "replied"} =>
               sr[c].pc # "idle" /\ sr[c].conn = req[c].server
        /\ sr[c].pc # "idle" => sr[c].conn \in 1..epoch
        /\ \A n \in Conn :
               c \in calls[n] \cup requests[n] \cup handled[n] \cup replies[n] =>
                   sr[c].pc # "idle" /\ sr[c].conn = n

\* What a process has handled is in its persister.
HandledIsSaved ==
    \A c \in Call :
        /\ \A n \in Conn : c \in handled[n] \cup replies[n] => c \in persister[n]
        /\ sr[c].ok => sr[c].pc = "done" /\ c \in persister[sr[c].conn]

\* What will be, or was, answered with true survives.
AnswerIsDurable == \A c \in Call : req[c].ok => c \in Durable

NetInv ==
    /\ NetTypeOK /\ RegisteredRuns /\ OnOneConn /\ HandledIsSaved /\ AnswerIsDurable

\* What Call and processReq do for one call, without the socket.
LEMMA CallMoves ==
  ASSUME NetInv, NEW c \in Call, NEW r \in ReqState, req' = [req EXCEPT ![c] = r],
         UNCHANGED <<demux, network, harness, persister>>,
         r.pc \in {"delay", "waiting", "replied"} => r.server \in 1..epoch,
         r.pc \in {"waiting", "replied"} => sr[c].pc # "idle" /\ sr[c].conn = r.server,
         r.ok => c \in Durable
  PROVE  NetInv'
<1> USE DEF demux, network, harness
<1>1. NetTypeOK'
  <2>1. req' \in [Call -> ReqState]
    BY DEF NetInv, NetTypeOK, ReqState
  <2> QED BY <2>1 DEF NetInv, NetTypeOK, ReqState
<1>2. RegisteredRuns'
  BY DEF NetInv, RegisteredRuns
<1>3. \A k \in Call : req'[k] = IF k = c THEN r ELSE req[k]
  BY DEF NetInv, NetTypeOK
<1>4. OnOneConn'
  BY <1>3 DEF NetInv, OnOneConn
<1>5. HandledIsSaved'
  BY DEF NetInv, HandledIsSaved
<1>6. AnswerIsDurable'
  BY <1>3 DEF NetInv, AnswerIsDurable, Durable
<1> QED BY <1>1, <1>2, <1>4, <1>5, <1>6 DEF NetInv

LEMMA CallKeeps ==
  ASSUME NetInv, NEW c \in Call,
         \/ BeginCall(c) \/ Take(c) \/ readEndnameInfo(c) \/ DropRequest(c)
         \/ HandlerReturns(c) \/ ServerDead(c) \/ Reply(c) \/ Return(c)
  PROVE  NetInv'
<1> DEFINE atState(to, server, ok) == [pc |-> to, server |-> server, ok |-> ok]
<1>1. /\ req \in [Call -> ReqState] /\ req[c] \in ReqState
      /\ sr \in [Call -> SrState] /\ servers \in Conn \cup {NoConn}
  BY DEF NetInv, NetTypeOK, ReqState, SrState
<1>2. /\ req[c] = atState(req[c].pc, req[c].server, req[c].ok)
      /\ req[c].server \in Conn \cup {NoConn}
      /\ req[c].ok \in BOOLEAN /\ sr[c].ok \in BOOLEAN
  BY <1>1 DEF ReqState, SrState
<1>3. ASSUME NEW to \in {"idle", "calling", "taken", "delay", "waiting", "replied",
                         "answering", "returned"},
             NEW server \in Conn \cup {NoConn}, NEW ok \in BOOLEAN
      PROVE  atState(to, server, ok) \in ReqState
  BY DEF ReqState
<1>4. ASSUME NEW to PROVE [req EXCEPT ![c].pc = to] =
                          [req EXCEPT ![c] = atState(to, req[c].server, req[c].ok)]
  <2>1. [req[c] EXCEPT !.pc = to] = atState(to, req[c].server, req[c].ok)
    BY <1>1 DEF ReqState
  <2>2. [req EXCEPT ![c].pc = to] = [req EXCEPT ![c] = [req[c] EXCEPT !.pc = to]]
    BY <1>1
  <2> QED BY <2>1, <2>2
<1>5. ASSUME NEW to, NEW ok PROVE [req EXCEPT ![c].pc = to, ![c].ok = ok] =
                                  [req EXCEPT ![c] = atState(to, req[c].server, ok)]
  <2>1. [req[c] EXCEPT !.pc = to, !.ok = ok] = atState(to, req[c].server, ok)
    <3>1. PICK q : q = [req[c] EXCEPT !.pc = to]
      OBVIOUS
    <3>2. q = atState(to, req[c].server, req[c].ok)
      BY <1>1, <3>1 DEF ReqState
    <3>3. [req[c] EXCEPT !.pc = to, !.ok = ok] = [q EXCEPT !.ok = ok]
      BY <3>1
    <3>4. [q EXCEPT !.ok = ok] = atState(to, req[c].server, ok)
      BY <3>2
    <3> QED BY <3>3, <3>4
  <2>2. [req EXCEPT ![c].pc = to, ![c].ok = ok] =
        [req EXCEPT ![c] = [req[c] EXCEPT !.pc = to, !.ok = ok]]
    BY <1>1
  <2> QED BY <2>1, <2>2
<1>6. AnswerIsDurable /\ OnOneConn /\ HandledIsSaved /\ RegisteredRuns
  BY DEF NetInv
<1>7. req[c].ok => c \in Durable
  BY <1>6 DEF AnswerIsDurable
<1>8. CASE BeginCall(c)
  <2>1. PICK r : r = atState("calling", req[c].server, req[c].ok)
    OBVIOUS
  <2>2. r \in ReqState /\ r.pc = "calling" /\ r.ok = req[c].ok
    BY <1>2, <1>3, <2>1
  <2>3. /\ req' = [req EXCEPT ![c] = r]
        /\ UNCHANGED <<demux, network, harness, persister>>
    BY <1>4, <1>8, <2>1 DEF BeginCall, Goto
  <2> QED BY <1>7, <2>2, <2>3, CallMoves
<1>9. CASE Take(c)
  <2>1. UNCHANGED <<demux, network, harness, persister>>
    BY <1>9 DEF Take
  <2>2. CASE Goto(c, "taken")
    <3>1. PICK r : r = atState("taken", req[c].server, req[c].ok)
      OBVIOUS
    <3>2. r \in ReqState /\ r.pc = "taken" /\ r.ok = req[c].ok
      BY <1>2, <1>3, <3>1
    <3>3. req' = [req EXCEPT ![c] = r]
      BY <1>4, <2>2, <3>1 DEF Goto
    <3> QED BY <1>7, <2>1, <3>2, <3>3, CallMoves
  <2>3. CASE req' = [req EXCEPT ![c].pc = "returned", ![c].ok = FALSE]
    <3>1. PICK r : r = atState("returned", req[c].server, FALSE)
      OBVIOUS
    <3>2. r \in ReqState /\ r.pc = "returned" /\ ~r.ok
      BY <1>2, <1>3, <3>1
    <3>3. [req EXCEPT ![c].pc = "returned", ![c].ok = FALSE] =
          [req EXCEPT ![c] = atState("returned", req[c].server, FALSE)]
      BY <1>5
    <3>4. req' = [req EXCEPT ![c] = r]
      BY <2>3, <3>1, <3>3
    <3> QED BY <2>1, <3>2, <3>4, CallMoves
  <2> QED BY <1>9, <2>2, <2>3 DEF Take
<1>10. CASE readEndnameInfo(c)
  <2>1. UNCHANGED <<demux, network, harness, persister>>
    BY <1>10 DEF readEndnameInfo
  <2>2. CASE enabled /\ servers # NoConn
    <3>1. PICK r : r = atState("delay", servers, req[c].ok)
      OBVIOUS
    <3>2. r \in ReqState /\ r.pc = "delay" /\ r.ok = req[c].ok /\ r.server = servers
      BY <1>1, <1>2, <1>3, <3>1
    <3>3. req' = [req EXCEPT ![c] = r]
      BY <1>1, <1>2, <1>10, <2>2, <3>1 DEF readEndnameInfo
    <3>4. r.server \in 1..epoch
      BY <1>6, <2>2, <3>2, EpochAssumption DEF RegisteredRuns, NetInv, NetTypeOK
    <3> QED BY <1>7, <2>1, <3>2, <3>3, <3>4, CallMoves
  <2>3. CASE ~(enabled /\ servers # NoConn)
    <3>1. PICK r : r = atState("answering", req[c].server, FALSE)
      OBVIOUS
    <3>2. r \in ReqState /\ r.pc = "answering" /\ ~r.ok
      BY <1>2, <1>3, <3>1
    <3>3. req' = [req EXCEPT ![c] = r]
      BY <1>5, <1>10, <2>3, <3>1 DEF readEndnameInfo, Answer
    <3> QED BY <2>1, <3>2, <3>3, CallMoves
  <2> QED BY <2>2, <2>3
<1>11. CASE DropRequest(c) \/ ServerDead(c)
  <2>1. PICK r : r = atState("answering", req[c].server, FALSE)
    OBVIOUS
  <2>2. r \in ReqState /\ r.pc = "answering" /\ ~r.ok
    BY <1>2, <1>3, <2>1
  <2>3. /\ req' = [req EXCEPT ![c] = r]
        /\ UNCHANGED <<demux, network, harness, persister>>
    BY <1>5, <1>11, <2>1 DEF DropRequest, ServerDead, Answer
  <2> QED BY <2>2, <2>3, CallMoves
<1>12. CASE HandlerReturns(c)
  <2>1. PICK r : r = atState("replied", req[c].server, req[c].ok)
    OBVIOUS
  <2>2. r \in ReqState /\ r.pc = "replied" /\ r.ok = req[c].ok /\ r.server = req[c].server
    BY <1>2, <1>3, <2>1
  <2>3. /\ req' = [req EXCEPT ![c] = r]
        /\ UNCHANGED <<demux, network, harness, persister>>
    BY <1>4, <1>12, <2>1 DEF HandlerReturns, Goto
  <2>4. /\ r.server \in 1..epoch
        /\ sr[c].pc # "idle" /\ sr[c].conn = r.server
    BY <1>6, <1>12, <2>2 DEF HandlerReturns, OnOneConn
  <2> QED BY <1>7, <2>2, <2>3, <2>4, CallMoves
<1>13. CASE Reply(c)
  <2>1. PICK ok \in {FALSE, sr[c].ok} :
          /\ ok => ~isServerDead(c)
          /\ req' = [req EXCEPT ![c] = atState("answering", req[c].server, ok)]
    BY <1>5, <1>13 DEF Reply, Answer
  <2>2. PICK r : r = atState("answering", req[c].server, ok)
    OBVIOUS
  <2>3. r \in ReqState /\ r.pc = "answering" /\ r.ok = ok
    BY <1>2, <1>3, <2>2
  <2>4. UNCHANGED <<demux, network, harness, persister>>
    BY <1>13 DEF Reply
  <2>5. ASSUME ok PROVE c \in Durable
    <3>1. servers = req[c].server /\ sr[c].ok
      BY <2>1, <2>5 DEF isServerDead
    <3>2. sr[c].conn = servers /\ servers \in 1..epoch
      BY <1>6, <1>13, <3>1 DEF OnOneConn, Reply
    <3>3. servers # NoConn
      BY <3>2, EpochAssumption, ConnAssumption DEF NetInv, NetTypeOK
    <3>4. process = "running" /\ servers = epoch
      BY <1>6, <3>3 DEF RegisteredRuns
    <3>5. c \in persister[epoch]
      BY <1>6, <3>1, <3>2, <3>4 DEF HandledIsSaved
    <3> QED BY <3>4, <3>5 DEF Durable
  <2> QED BY <2>1, <2>2, <2>3, <2>4, <2>5, CallMoves
<1>14. CASE Return(c)
  <2>1. PICK r : r = atState("returned", req[c].server, req[c].ok)
    OBVIOUS
  <2>2. r \in ReqState /\ r.pc = "returned" /\ r.ok = req[c].ok
    BY <1>2, <1>3, <2>1
  <2>3. /\ req' = [req EXCEPT ![c] = r]
        /\ UNCHANGED <<demux, network, harness, persister>>
    BY <1>4, <1>14, <2>1 DEF Return, Goto
  <2> QED BY <1>7, <2>2, <2>3, CallMoves
<1> QED BY <1>8, <1>9, <1>10, <1>11, <1>12, <1>13, <1>14

\* DaemonClnt.forward puts the call on the connection it was routed to.
LEMMA DispatchKeeps ==
  ASSUME NetInv, NEW c \in Call, Dispatch(c)
  PROVE  NetInv'
<1> USE DEF demux, network, harness
<1>1. req \in [Call -> ReqState] /\ sr \in [Call -> SrState]
  BY DEF NetInv, NetTypeOK, ReqState, SrState
<1>2. PICK n : n = req[c].server
  OBVIOUS
<1>3. n \in 1..epoch /\ n \in Conn /\ epoch \in Nat
  BY <1>2, EpochAssumption DEF NetInv, OnOneConn, Dispatch, NetTypeOK
<1>4. /\ sr[c].pc = "idle"
      /\ sr' = [sr EXCEPT ![c] = [pc |-> "put", conn |-> n, ok |-> sr[c].ok]]
      /\ req' = [req EXCEPT ![c] = [pc |-> "waiting", server |-> n, ok |-> req[c].ok]]
      /\ UNCHANGED <<calls, closed, up, requests, handled, replies, reader, outstanding,
                     network, harness, persister>>
  <2>1. [sr[c] EXCEPT !.pc = "put", !.conn = n] = [pc |-> "put", conn |-> n, ok |-> sr[c].ok]
    <3>1. PICK q : q = [sr[c] EXCEPT !.pc = "put"]
      OBVIOUS
    <3>2. q = [pc |-> "put", conn |-> sr[c].conn, ok |-> sr[c].ok]
      BY <1>1, <3>1 DEF SrState
    <3>3. [sr[c] EXCEPT !.pc = "put", !.conn = n] = [q EXCEPT !.conn = n]
      BY <3>1
    <3>4. [q EXCEPT !.conn = n] = [pc |-> "put", conn |-> n, ok |-> sr[c].ok]
      BY <3>2
    <3> QED BY <3>3, <3>4
  <2>2. sr' = [sr EXCEPT ![c] = [sr[c] EXCEPT !.pc = "put", !.conn = n]]
    BY <1>1, <1>2 DEF Dispatch, Send
  <2>3. [req[c] EXCEPT !.pc = "waiting"] = [pc |-> "waiting", server |-> n, ok |-> req[c].ok]
    BY <1>1, <1>2 DEF ReqState
  <2>4. req' = [req EXCEPT ![c] = [req[c] EXCEPT !.pc = "waiting"]]
    BY <1>1 DEF Dispatch, Goto
  <2> QED BY <2>1, <2>2, <2>3, <2>4 DEF Dispatch, Send
<1>5. /\ \A k \in Call : sr'[k] = IF k = c THEN [pc |-> "put", conn |-> n, ok |-> sr[c].ok]
                                  ELSE sr[k]
      /\ \A k \in Call : req'[k] = IF k = c THEN [pc |-> "waiting", server |-> n, ok |-> req[c].ok]
                                   ELSE req[k]
  BY <1>1, <1>4
<1>6. NetTypeOK'
  <2>1. /\ [pc |-> "put", conn |-> n, ok |-> sr[c].ok] \in SrState
        /\ [pc |-> "waiting", server |-> n, ok |-> req[c].ok] \in ReqState
    BY <1>1, <1>3 DEF SrState, ReqState
  <2>2. sr' \in [Call -> SrState] /\ req' \in [Call -> ReqState]
    BY <1>1, <1>4, <2>1
  <2> QED BY <1>4, <2>2 DEF NetInv, NetTypeOK, SrState, ReqState
<1>7. RegisteredRuns'
  BY <1>4 DEF NetInv, RegisteredRuns
<1>8. OnOneConn'
  BY <1>3, <1>4, <1>5 DEF NetInv, OnOneConn
<1>9. HandledIsSaved'
  BY <1>4, <1>5 DEF NetInv, HandledIsSaved
<1>10. AnswerIsDurable'
  BY <1>4, <1>5 DEF NetInv, AnswerIsDurable, Durable
<1> QED BY <1>6, <1>7, <1>8, <1>9, <1>10 DEF NetInv

\* A step puts nothing on a connection but the call c, on connection n.
PutsOnly(c, n) ==
    \A m \in Conn, k \in Call :
        /\ k \in handled'[m] \cup replies'[m] => k \in handled[m] \cup replies[m]
        /\ k \in calls'[m] \cup requests'[m] =>
               k \in calls[m] \cup requests[m] \/ (k = c /\ m = n)

\* What SendReceive, the reader and the process do with one call on the socket.
LEMMA SocketMoves ==
  ASSUME NetInv, NEW c \in Call, NEW x \in SrState, sr' = [sr EXCEPT ![c] = x],
         UNCHANGED <<network, harness, persister, req>>,
         calls' \in [Conn -> SUBSET Call], requests' \in [Conn -> SUBSET Call],
         handled' \in [Conn -> SUBSET Call], replies' \in [Conn -> SUBSET Call],
         outstanding' \in [Conn -> SUBSET Call],
         UNCHANGED <<closed, up, reader>>,
         sr[c].pc # "idle", x.pc # "idle", x.conn = sr[c].conn,
         x.ok => x.pc = "done" /\ c \in persister[x.conn],
         PutsOnly(c, x.conn)
  PROVE  NetInv'
<1> USE DEF network, harness
<1>1. sr \in [Call -> SrState]
  BY DEF NetInv, NetTypeOK, SrState
<1>2. sr' \in [Call -> SrState] /\ \A k \in Call : sr'[k] = IF k = c THEN x ELSE sr[k]
  BY <1>1
<1>3. NetTypeOK'
  BY <1>2 DEF NetInv, NetTypeOK, SrState
<1>4. RegisteredRuns'
  BY DEF NetInv, RegisteredRuns
<1>5. OnOneConn'
  <2>1. OnOneConn
    BY DEF NetInv
  <2>2. ASSUME NEW k \in Call
        PROVE  /\ req'[k].pc \in {"delay", "waiting", "replied"} => req'[k].server \in 1..epoch'
               /\ req'[k].pc \in {"waiting", "replied"} =>
                      sr'[k].pc # "idle" /\ sr'[k].conn = req'[k].server
               /\ sr'[k].pc # "idle" => sr'[k].conn \in 1..epoch'
    BY <1>2, <2>1 DEF OnOneConn
  <2>3. ASSUME NEW k \in Call, NEW n \in Conn,
               k \in calls'[n] \cup requests'[n] \cup handled'[n] \cup replies'[n]
        PROVE  sr'[k].pc # "idle" /\ sr'[k].conn = n
    <3>1. \/ k \in calls[n] \cup requests[n] \cup handled[n] \cup replies[n]
          \/ k = c /\ n = x.conn
      BY <2>3 DEF PutsOnly
    <3> QED BY <1>2, <2>1, <3>1 DEF OnOneConn
  <2> QED BY <2>2, <2>3 DEF OnOneConn
<1>6. HandledIsSaved'
  <2>1. ASSUME NEW k \in Call, NEW n \in Conn, k \in handled'[n] \cup replies'[n]
        PROVE  k \in persister'[n]
    BY <2>1 DEF PutsOnly, NetInv, HandledIsSaved
  <2>2. ASSUME NEW k \in Call, sr'[k].ok
        PROVE  sr'[k].pc = "done" /\ k \in persister'[sr'[k].conn]
    BY <1>2, <2>2 DEF NetInv, HandledIsSaved
  <2> QED BY <2>1, <2>2 DEF HandledIsSaved
<1>7. AnswerIsDurable'
  BY DEF NetInv, AnswerIsDurable, Durable
<1> QED BY <1>3, <1>4, <1>5, <1>6, <1>7 DEF NetInv

LEMMA SendReceiveKeeps ==
  ASSUME NetInv, NEW c \in Call, put(c) \/ WriteCall(c),
         UNCHANGED <<network, harness, persister, req>>
  PROVE  NetInv'
<1>1. PICK n : n = sr[c].conn
  OBVIOUS
<1>2. /\ sr \in [Call -> SrState]
      /\ calls \in [Conn -> SUBSET Call] /\ requests \in [Conn -> SUBSET Call]
      /\ handled \in [Conn -> SUBSET Call] /\ replies \in [Conn -> SUBSET Call]
      /\ outstanding \in [Conn -> SUBSET Call]
  BY DEF NetInv, NetTypeOK, SrState
<1>3. sr[c].pc \in {"put", "write"}
  BY DEF put, WriteCall
<1>4. n \in Conn
  BY <1>1, <1>3, EpochAssumption DEF NetInv, OnOneConn, NetTypeOK
<1>5. ASSUME NEW to \in {"put", "write", "wait", "done"}
      PROVE  /\ [sr EXCEPT ![c].pc = to] =
                    [sr EXCEPT ![c] = [pc |-> to, conn |-> n, ok |-> sr[c].ok]]
             /\ [pc |-> to, conn |-> n, ok |-> sr[c].ok] \in SrState
  <2>1. [sr[c] EXCEPT !.pc = to] = [pc |-> to, conn |-> n, ok |-> sr[c].ok]
    BY <1>1, <1>2 DEF SrState
  <2>2. [sr EXCEPT ![c].pc = to] = [sr EXCEPT ![c] = [sr[c] EXCEPT !.pc = to]]
    BY <1>2
  <2>3. [pc |-> to, conn |-> n, ok |-> sr[c].ok] \in SrState
    BY <1>2, <1>4 DEF SrState
  <2> QED BY <2>1, <2>2, <2>3
<1>6. ~sr[c].ok
  BY <1>3 DEF NetInv, HandledIsSaved
<1>7. PICK to \in {"write", "wait", "done"} : sr' = [sr EXCEPT ![c].pc = to]
  BY DEF put, WriteCall
<1>8. PICK x \in SrState : x = [pc |-> to, conn |-> n, ok |-> sr[c].ok]
  BY <1>5
<1>9. /\ sr' = [sr EXCEPT ![c] = x] /\ x.pc # "idle" /\ x.conn = sr[c].conn /\ x.conn = n
      /\ ~x.ok
  BY <1>1, <1>5, <1>6, <1>7, <1>8
<1>10. UNCHANGED <<closed, up, reader, handled, replies, outstanding>>
  BY DEF put, WriteCall
<1>11. /\ calls' = calls \/ calls' = [calls EXCEPT ![n] = @ \cup {c}]
       /\ requests' = requests \/ requests' = [requests EXCEPT ![n] = @ \cup {c}]
  BY <1>1 DEF put, WriteCall
<1>12. calls' \in [Conn -> SUBSET Call] /\ requests' \in [Conn -> SUBSET Call]
  BY <1>2, <1>4, <1>11
<1>13. ASSUME NEW m \in Conn, NEW k \in Call, k \in calls'[m] \cup requests'[m]
       PROVE  k \in calls[m] \cup requests[m] \/ (k = c /\ m = x.conn)
  BY <1>2, <1>4, <1>9, <1>11, <1>13
<1>14. PutsOnly(c, x.conn)
  BY <1>10, <1>13 DEF PutsOnly
<1> QED BY <1>2, <1>3, <1>9, <1>10, <1>12, <1>14, SocketMoves

LEMMA ReaderKeeps ==
  ASSUME NetInv, NEW n \in Conn, NEW c \in Call, Read(n, c) \/ FailCall(n, c),
         UNCHANGED <<network, harness, persister, req>>
  PROVE  NetInv'
<1>1. /\ sr \in [Call -> SrState]
      /\ calls \in [Conn -> SUBSET Call] /\ requests \in [Conn -> SUBSET Call]
      /\ handled \in [Conn -> SUBSET Call] /\ replies \in [Conn -> SUBSET Call]
      /\ outstanding \in [Conn -> SUBSET Call]
  BY DEF NetInv, NetTypeOK, SrState
<1>2. PICK ok \in BOOLEAN : reply(n, c, ok) /\ (ok => c \in replies[n])
  BY DEF Read, FailCall
<1>3. c \in calls[n] /\ sr[c].pc = "wait"
  BY <1>2 DEF reply
<1>4. sr[c].conn = n
  BY <1>3 DEF NetInv, OnOneConn
<1>5. PICK x : x = [pc |-> "done", conn |-> n, ok |-> ok]
  OBVIOUS
<1>6. x \in SrState /\ x.pc = "done" /\ x.conn = sr[c].conn /\ x.conn = n /\ x.ok = ok
  BY <1>4, <1>5 DEF SrState
<1>7. sr' = [sr EXCEPT ![c] = x]
  <2>1. PICK q : q = [sr[c] EXCEPT !.pc = "done"]
    OBVIOUS
  <2>2. q = [pc |-> "done", conn |-> n, ok |-> sr[c].ok]
    BY <1>1, <1>4, <2>1 DEF SrState
  <2>3. [sr[c] EXCEPT !.pc = "done", !.ok = ok] = [q EXCEPT !.ok = ok]
    BY <2>1
  <2>4. [q EXCEPT !.ok = ok] = x
    BY <1>5, <2>2
  <2>5. sr' = [sr EXCEPT ![c] = [sr[c] EXCEPT !.pc = "done", !.ok = ok]]
    BY <1>1, <1>2 DEF reply
  <2> QED BY <2>3, <2>4, <2>5
<1>8. x.ok => c \in persister[x.conn]
  BY <1>2, <1>6 DEF NetInv, HandledIsSaved
<1>9. UNCHANGED <<closed, up, reader, requests, handled>>
  BY DEF Read, FailCall
<1>10. /\ calls' = [calls EXCEPT ![n] = @ \ {c}]
       /\ replies' = replies \/ replies' = [replies EXCEPT ![n] = @ \ {c}]
       /\ outstanding' = outstanding \/ outstanding' = [outstanding EXCEPT ![n] = @ \ {c}]
  BY <1>2 DEF Read, FailCall, reply
<1>11. /\ calls' \in [Conn -> SUBSET Call] /\ replies' \in [Conn -> SUBSET Call]
       /\ outstanding' \in [Conn -> SUBSET Call]
  BY <1>1, <1>10
<1>12. PutsOnly(c, x.conn)
  BY <1>1, <1>9, <1>10 DEF PutsOnly
<1> QED BY <1>1, <1>3, <1>6, <1>7, <1>8, <1>9, <1>11, <1>12, SocketMoves

LEMMA BreakSeenKeeps ==
  ASSUME NetInv, NEW n \in Conn, ReadFails(n) \/ Outstanding(n),
         UNCHANGED <<network, harness, persister, req>>
  PROVE  NetInv'
<1> USE DEF network, harness, ReadFails, Outstanding
<1>1. NetTypeOK'
  <2>1. /\ closed' \in [Conn -> BOOLEAN]
        /\ reader' \in [Conn -> {"reading", "closed", "failing"}]
        /\ replies' \in [Conn -> SUBSET Call]
        /\ outstanding' \in [Conn -> SUBSET Call]
    <3>1. /\ closed \in [Conn -> BOOLEAN]
          /\ reader \in [Conn -> {"reading", "closed", "failing"}]
          /\ replies \in [Conn -> SUBSET Call]
          /\ outstanding \in [Conn -> SUBSET Call] /\ calls[n] \in SUBSET Call
      BY DEF NetInv, NetTypeOK
    <3>2. CASE ReadFails(n)
      BY <3>1, <3>2
    <3>3. CASE Outstanding(n)
      BY <3>1, <3>3
    <3> QED BY <3>2, <3>3
  <2> QED BY <2>1 DEF NetInv, NetTypeOK
<1>2. RegisteredRuns'
  BY DEF NetInv, RegisteredRuns
<1>3. OnOneConn'
  <2>1. /\ UNCHANGED <<req, sr, calls, epoch>>
        /\ \A m \in Conn : /\ requests'[m] \subseteq requests[m]
                          /\ handled'[m] \subseteq handled[m]
                          /\ replies'[m] \subseteq replies[m]
    BY DEF NetInv, NetTypeOK
  <2>2. OnOneConn
    BY DEF NetInv
  <2> QED BY <2>1, <2>2 DEF OnOneConn
<1>4. HandledIsSaved'
  BY DEF NetInv, NetTypeOK, HandledIsSaved
<1>5. AnswerIsDurable'
  BY DEF NetInv, AnswerIsDurable, Durable
<1> QED BY <1>1, <1>2, <1>3, <1>4, <1>5 DEF NetInv

LEMMA WriteReplyKeeps ==
  ASSUME NetInv, NEW n \in Conn, NEW c \in Call, WriteReply(n, c),
         UNCHANGED <<network, harness, persister, req>>
  PROVE  NetInv'
<1> USE DEF network, harness, WriteReply
<1>1. NetTypeOK'
  BY DEF NetInv, NetTypeOK
<1>2. RegisteredRuns'
  BY DEF NetInv, RegisteredRuns
<1>3. OnOneConn'
  BY DEF NetInv, NetTypeOK, OnOneConn
<1>4. HandledIsSaved'
  BY DEF NetInv, NetTypeOK, HandledIsSaved
<1>5. AnswerIsDurable'
  BY DEF NetInv, AnswerIsDurable, Durable
<1> QED BY <1>1, <1>2, <1>3, <1>4, <1>5 DEF NetInv

\* The handler saves before it returns.
LEMMA HandleKeeps ==
  ASSUME NetInv, NEW n \in Conn, NEW c \in Call, Handle(n, c)
  PROVE  NetInv'
<1> USE DEF network, harness, Handle, ServeRequest
<1>1. NetTypeOK'
  BY DEF NetInv, NetTypeOK
<1>2. RegisteredRuns'
  BY DEF NetInv, RegisteredRuns
<1>3. OnOneConn'
  BY DEF NetInv, NetTypeOK, OnOneConn
<1>4. \A m \in Conn : persister[m] \subseteq persister'[m]
  BY DEF NetInv, NetTypeOK
<1>5. HandledIsSaved'
  <2>1. ASSUME NEW k \in Call, NEW m \in Conn, k \in handled'[m] \cup replies'[m]
        PROVE  k \in persister'[m]
    BY <2>1 DEF NetInv, NetTypeOK, HandledIsSaved
  <2>2. ASSUME NEW k \in Call, sr'[k].ok
        PROVE  sr'[k].pc = "done" /\ k \in persister'[sr'[k].conn]
    <3>1. sr[k].pc = "done" /\ k \in persister[sr[k].conn] /\ sr' = sr
      BY <2>2 DEF NetInv, HandledIsSaved
    <3>2. sr[k].conn \in Conn
      BY <3>1, EpochAssumption DEF NetInv, OnOneConn, NetTypeOK
    <3> QED BY <1>4, <3>1, <3>2
  <2> QED BY <2>1, <2>2 DEF HandledIsSaved
<1>6. AnswerIsDurable'
  BY <1>4 DEF NetInv, NetTypeOK, AnswerIsDurable, Durable
<1> QED BY <1>1, <1>2, <1>3, <1>5, <1>6 DEF NetInv

\* What the test does to the network: it only takes the server away.
LEMMA TestKeeps ==
  ASSUME NetInv, Enable \/ DeleteServer \/ Cleanup
  PROVE  NetInv'
<1> USE DEF demux, harness, Enable, DeleteServer, Cleanup
<1>1. NetTypeOK'
  <2>1. switched' \in 0..MaxSwitch
    BY SwitchAssumption DEF NetInv, NetTypeOK
  <2>2. done' \in BOOLEAN /\ enabled' \in BOOLEAN /\ servers' \in Conn \cup {NoConn}
    BY DEF NetInv, NetTypeOK
  <2> QED BY <2>1, <2>2 DEF NetInv, NetTypeOK
<1>2. RegisteredRuns'
  BY DEF NetInv, RegisteredRuns
<1>3. OnOneConn'
  BY DEF NetInv, OnOneConn
<1>4. HandledIsSaved'
  BY DEF NetInv, HandledIsSaved
<1>5. AnswerIsDurable'
  BY DEF NetInv, AnswerIsDurable, Durable
<1> QED BY <1>1, <1>2, <1>3, <1>4, <1>5 DEF NetInv

\* The persister is copied after the server is taken away, and before the
\* process is killed.
LEMMA ShutdownKeeps ==
  ASSUME NetInv, CheckpointPersister \/ shutdownServer
  PROVE  NetInv'
<1> USE DEF demux, network, CheckpointPersister, shutdownServer, Break
<1>1. NetTypeOK'
  BY DEF NetInv, NetTypeOK
<1>2. RegisteredRuns'
  BY DEF NetInv, RegisteredRuns
<1>3. OnOneConn'
  <2>1. /\ UNCHANGED <<req, sr, calls, epoch>>
        /\ \A n \in Conn : /\ requests'[n] \subseteq requests[n]
                          /\ handled'[n] \subseteq handled[n]
                          /\ replies'[n] \subseteq replies[n]
    BY DEF NetInv, NetTypeOK
  <2>2. OnOneConn
    BY DEF NetInv
  <2> QED BY <2>1, <2>2 DEF OnOneConn
<1>4. HandledIsSaved'
  BY DEF NetInv, NetTypeOK, HandledIsSaved
<1>5. AnswerIsDurable'
  BY DEF NetInv, AnswerIsDurable, Durable
<1> QED BY <1>1, <1>2, <1>3, <1>4, <1>5 DEF NetInv

\* The next process begins with what was saved, and nobody has a connection to
\* it yet.
LEMMA StartServerKeeps ==
  ASSUME NetInv, StartServer
  PROVE  NetInv'
<1> USE DEF demux, StartServer
<1>1. epoch \in Conn /\ epoch + 1 \in Conn /\ epoch \in Nat /\ Conn \subseteq Nat
  BY EpochAssumption DEF NetInv, NetTypeOK
<1>2. persister' = [persister EXCEPT ![epoch + 1] = saved]
      /\ persister \in [Conn -> SUBSET Call] /\ saved \subseteq Call
  BY DEF NetInv, NetTypeOK
<1>3. NetTypeOK'
  <2>1. persister' \in [Conn -> SUBSET Call]
    BY <1>1, <1>2
  <2>2. epoch' \in Conn /\ servers' \in Conn \cup {NoConn} /\ process' = "running"
    BY <1>1
  <2> QED BY <2>1, <2>2 DEF NetInv, NetTypeOK
<1>4. RegisteredRuns'
  BY DEF RegisteredRuns
<1>5. OnOneConn'
  <2>1. \A n : n \in 1..epoch => n \in 1..epoch'
    BY <1>1
  <2>2. OnOneConn
    BY DEF NetInv
  <2> QED BY <2>1, <2>2 DEF OnOneConn
<1>6. ASSUME NEW n \in Conn, n # epoch + 1 PROVE persister'[n] = persister[n]
  BY <1>1, <1>2, <1>6
<1>7. ASSUME NEW k \in Call, sr[k].pc # "idle"
      PROVE  sr[k].conn \in Conn /\ sr[k].conn # epoch + 1
  <2>1. sr[k].conn \in 1..epoch
    BY <1>7 DEF NetInv, OnOneConn
  <2> QED BY <1>1, <2>1, EpochAssumption DEF NetInv
<1>8. HandledIsSaved'
  <2>1. ASSUME NEW k \in Call, NEW n \in Conn, k \in handled[n] \cup replies[n]
        PROVE  k \in persister'[n]
    <3>1. sr[k].pc # "idle" /\ sr[k].conn = n
      BY <2>1 DEF NetInv, OnOneConn
    <3>2. k \in persister[n]
      BY <2>1 DEF NetInv, HandledIsSaved
    <3> QED BY <1>6, <1>7, <3>1, <3>2
  <2>2. ASSUME NEW k \in Call, sr[k].ok
        PROVE  sr[k].pc = "done" /\ k \in persister'[sr[k].conn]
    <3>1. sr[k].pc = "done" /\ k \in persister[sr[k].conn]
      BY <2>2 DEF NetInv, HandledIsSaved
    <3> QED BY <1>6, <1>7, <3>1
  <2> QED BY <2>1, <2>2 DEF HandledIsSaved
<1>9. AnswerIsDurable'
  <2>1. process = "dead" /\ process' = "running" /\ epoch' = epoch + 1 /\ req' = req
    OBVIOUS
  <2>2. persister'[epoch'] = saved
    BY <1>1, <1>2, <2>1
  <2>3. Durable = saved /\ Durable' = saved
    BY <2>1, <2>2 DEF Durable
  <2> QED BY <2>1, <2>3 DEF NetInv, AnswerIsDurable
<1> QED BY <1>3, <1>4, <1>5, <1>8, <1>9 DEF NetInv

LEMMA NetInvInit == ASSUME NetInit PROVE NetInv
<1> USE DEF NetInit, DemuxInit
<1>1. NetTypeOK
  <2>1. 1 \in Conn /\ 0 \in 0..MaxSwitch
    BY EpochAssumption, SwitchAssumption
  <2>2. req \in [Call -> ReqState] /\ sr \in [Call -> SrState]
    BY DEF ReqState, SrState
  <2> QED BY <2>1, <2>2 DEF NetTypeOK, ReqState, SrState
<1>2. RegisteredRuns
  BY DEF RegisteredRuns
<1>3. OnOneConn
  BY DEF OnOneConn
<1>4. HandledIsSaved
  BY DEF HandledIsSaved
<1>5. AnswerIsDurable
  BY DEF AnswerIsDurable
<1> QED BY <1>1, <1>2, <1>3, <1>4, <1>5 DEF NetInv

LEMMA NetInvNext == NetInv /\ [NetNext]_netVars => NetInv'
<1> SUFFICES ASSUME NetInv, [NetNext]_netVars PROVE NetInv'
  OBVIOUS
<1>1. ASSUME NEW c \in Call, BeginCall(c) \/ CallStep(c) \/ DropRequest(c)
      PROVE  NetInv'
  BY <1>1, CallKeeps, DispatchKeeps DEF CallStep
<1>2. ASSUME NEW n \in Conn, NEW c \in Call, Handle(n, c) PROVE NetInv'
  BY <1>2, HandleKeeps
<1>3. CASE Socket
  <2>1. DemuxStep /\ UNCHANGED <<network, harness, persister, req>>
    BY <1>3 DEF Socket
  <2> QED BY <2>1, SendReceiveKeeps, ReaderKeeps, BreakSeenKeeps, WriteReplyKeeps
          DEF DemuxStep
<1>4. CASE Enable \/ DeleteServer \/ Cleanup
  BY <1>4, TestKeeps
<1>5. CASE CheckpointPersister \/ shutdownServer
  BY <1>5, ShutdownKeeps
<1>6. CASE StartServer
  BY <1>6, StartServerKeeps
<1>7. CASE UNCHANGED netVars
  BY <1>7 DEF netVars, demux, network, harness, NetInv, NetTypeOK,
              RegisteredRuns, OnOneConn, HandledIsSaved, AnswerIsDurable, Durable
<1> QED BY <1>1, <1>2, <1>3, <1>4, <1>5, <1>6, <1>7 DEF NetNext

\* A Call that returned true is in the persister the next process starts from.
THEOREM AckedIsDurableAlways == NetSpec => []AckedIsDurable
<1>1. NetInv => AckedIsDurable
  BY DEF NetInv, AnswerIsDurable, AckedIsDurable
<1>2. NetInit => NetInv
  BY NetInvInit
<1> QED BY <1>1, <1>2, NetInvNext, PTL DEF NetSpec

----------------------------------------------------------------------------
(***************************************************************************)
(* The goroutines of one Raft server.  rf.workers counts those that run,   *)
(* for any number of peers: a goroutine adds itself under the mutex before *)
(* it starts, and only while the server is not dead.                       *)
(***************************************************************************)
ThreadStages == {"off", "wait", "woken", "build", "calling", "lost", "notifyMore",
                 "notifyDone", "release"}

Running == {t \in Thread : pc[t] # "off"}

\* Of the applier and the tickers.
One(where) == IF where = "off" THEN 0 ELSE 1

\* rf.workers counts the goroutines that have been started and have not ended.
Counted ==
    workers = Cardinality(Running) + One(applier) + One(ticker) + One(heartbeatTicker)

ThreadInv ==
    /\ pc \in [Thread -> ThreadStages]
    /\ Counted
    /\ stopped => dead /\ workers = 0

\* The variables ThreadInv is about, other than pc and workers.
ends == <<dead, stopped, ticker, heartbeatTicker>>

LEMMA ThreadsFinite ==
  /\ IsFiniteSet(Thread)
  /\ IsFiniteSet(Running) /\ Cardinality(Running) \in Nat
<1>1. IsFiniteSet({"worker", "rescue"})
  <2>1. IsFiniteSet({"worker"} \union {"rescue"})
    BY FS_Singleton, FS_AddElement
  <2>2. {"worker"} \union {"rescue"} = {"worker", "rescue"}
    OBVIOUS
  <2> QED BY <2>1, <2>2
<1>2. IsFiniteSet(Thread)
  BY <1>1, FS_Product, PeerAssumption DEF Thread
<1>3. Running \in SUBSET Thread
  BY DEF Running
<1> QED BY <1>2, <1>3, FS_Subset, FS_CardinalityType

LEMMA OneType ==
  ASSUME NEW where
  PROVE  One(where) \in {0, 1} /\ (One(where) = 0 <=> where = "off")
BY DEF One

\* Nothing runs that is not counted.
LEMMA QuietWhenNoneCounted ==
  ASSUME ThreadInv, workers = 0
  PROVE  /\ applier = "off" /\ ticker = "off" /\ heartbeatTicker = "off"
         /\ \A t \in Thread : pc[t] = "off"
<1>1. PICK n \in Nat : n = Cardinality(Running)
  BY ThreadsFinite
<1>2. PICK a \in {0, 1} : a = One(applier)
  BY OneType
<1>3. PICK b \in {0, 1} : b = One(ticker)
  BY OneType
<1>4. PICK d \in {0, 1} : d = One(heartbeatTicker)
  BY OneType
<1>5. n + a + b + d = 0
  BY <1>1, <1>2, <1>3, <1>4 DEF ThreadInv, Counted
<1>6. n = 0 /\ a = 0 /\ b = 0 /\ d = 0
  BY <1>5
<1>7. Running = {}
  BY <1>1, <1>6, ThreadsFinite, FS_EmptySet
<1> QED BY <1>2, <1>3, <1>4, <1>6, <1>7, OneType DEF Running

\* A step in which no goroutine starts or ends.
LEMMA NoneEnds ==
  ASSUME ThreadInv, pc' = pc, workers' = workers,
         applier' = "off" <=> applier = "off", ticker' = ticker,
         heartbeatTicker' = heartbeatTicker,
         stopped' => dead' /\ workers = 0
  PROVE  ThreadInv'
<1>1. Running' = Running
  BY DEF Running
<1>2. One(applier') = One(applier)
  BY DEF One
<1> QED BY <1>1, <1>2 DEF ThreadInv, Counted

\* A goroutine goes on.
LEMMA OneGoesOn ==
  ASSUME ThreadInv, NEW t \in Thread, pc[t] # "off",
         NEW where \in ThreadStages \ {"off"},
         pc' = [pc EXCEPT ![t] = where], workers' = workers,
         applier' = "off" <=> applier = "off", UNCHANGED ends
  PROVE  ThreadInv'
<1>1. pc' \in [Thread -> ThreadStages] /\ Running' = Running
  BY DEF ThreadInv, Running
<1>2. One(applier') = One(applier)
  BY DEF One
<1> QED BY <1>1, <1>2 DEF ThreadInv, Counted, ends

\* A goroutine ends.
LEMMA OneExits ==
  ASSUME ThreadInv, NEW t \in Thread, pc[t] # "off", Exit(t),
         applier' = "off" <=> applier = "off", UNCHANGED ends
  PROVE  ThreadInv'
<1>1. pc' \in [Thread -> ThreadStages] /\ Running' = Running \ {t} /\ t \in Running
  BY DEF ThreadInv, Running, Exit, ThreadStages
<1>2. PICK n \in Nat : n = Cardinality(Running)
  BY ThreadsFinite
<1>3. Cardinality(Running') = n - 1
  BY <1>1, <1>2, ThreadsFinite, FS_RemoveElement
<1>4. One(applier') = One(applier)
  BY DEF One
<1>5. PICK m \in {0, 1, 2, 3} : m = One(applier) + One(ticker) + One(heartbeatTicker)
  BY OneType
<1>6. workers = n + m
  BY <1>2, <1>5, OneType DEF ThreadInv, Counted
<1>7. Counted'
  <2>1. workers' = (n - 1) + m
    BY <1>6 DEF Exit
  <2>2. One(applier') + One(ticker') + One(heartbeatTicker') = m
    BY <1>4, <1>5 DEF ends
  <2> QED BY <1>3, <2>1, <2>2, OneType DEF Counted
<1>8. ~stopped
  <2>1. n # 0
    BY <1>1, <1>2, ThreadsFinite, FS_EmptySet
  <2>2. workers # 0
    BY <1>6, <2>1
  <2> QED BY <2>2 DEF ThreadInv
<1> QED BY <1>1, <1>7, <1>8 DEF ThreadInv, ends

\* A goroutine is started.
LEMMA OneStarts ==
  ASSUME ThreadInv, NEW t \in Thread, pc[t] = "off", Started(t), ~dead,
         applier' = applier, UNCHANGED ends
  PROVE  ThreadInv'
<1>1. pc' \in [Thread -> ThreadStages] /\ Running' = Running \union {t} /\ t \notin Running
  BY DEF ThreadInv, Running, Started, ThreadStages
<1>2. PICK n \in Nat : n = Cardinality(Running)
  BY ThreadsFinite
<1>3. Cardinality(Running') = n + 1
  BY <1>1, <1>2, ThreadsFinite, FS_AddElement
<1>4. PICK m \in {0, 1, 2, 3} : m = One(applier) + One(ticker) + One(heartbeatTicker)
  BY OneType
<1>5. workers = n + m
  BY <1>2, <1>4, OneType DEF ThreadInv, Counted
<1>6. Counted'
  <2>1. workers' = (n + 1) + m
    BY <1>5 DEF Started
  <2>2. One(applier') + One(ticker') + One(heartbeatTicker') = m
    BY <1>4 DEF ends
  <2> QED BY <1>3, <2>1, <2>2, OneType DEF Counted
<1>7. ~stopped
  BY DEF ThreadInv
<1> QED BY <1>1, <1>6, <1>7 DEF ThreadInv, ends

\* The applier or one of the tickers ends.
LEMMA ServiceExits ==
  ASSUME ThreadInv, pc' = pc, workers' = workers - 1, dead' = dead, stopped' = stopped,
         \/ applier # "off" /\ applier' = "off" /\ UNCHANGED <<ticker, heartbeatTicker>>
         \/ ticker # "off" /\ ticker' = "off" /\ UNCHANGED <<applier, heartbeatTicker>>
         \/ heartbeatTicker # "off" /\ heartbeatTicker' = "off" /\ UNCHANGED <<applier, ticker>>
  PROVE  ThreadInv'
<1>1. Running' = Running
  BY DEF Running
<1>2. PICK n \in Nat : n = Cardinality(Running)
  BY ThreadsFinite
<1>3. PICK m \in {1, 2, 3} : m = One(applier) + One(ticker) + One(heartbeatTicker)
  BY DEF One
<1>4. One(applier') + One(ticker') + One(heartbeatTicker') = m - 1
  BY <1>3 DEF One
<1>5. workers = n + m
  BY <1>2, <1>3, OneType DEF ThreadInv, Counted
<1>6. Counted'
  <2>1. workers' = n + (m - 1)
    BY <1>5
  <2> QED BY <1>1, <1>2, <1>4, <2>1, OneType DEF Counted
<1>7. workers # 0
  BY <1>5
<1> QED BY <1>6, <1>7 DEF ThreadInv

\* What the function of a goroutine does when it returns.
LEMMA ReturnKeeps ==
  ASSUME ThreadInv, NEW t \in Thread, pc[t] # "off", ReplicateReturns(t),
         applier' = "off" <=> applier = "off", UNCHANGED ends
  PROVE  ThreadInv'
<1>1. CASE IsWorker(t)
  <2>1. pc' = [pc EXCEPT ![t] = "release"] /\ workers' = workers
    BY <1>1 DEF ReplicateReturns
  <2>2. "release" \in ThreadStages \ {"off"}
    BY DEF ThreadStages
  <2> QED BY <2>1, <2>2, OneGoesOn
<1>2. CASE ~IsWorker(t)
  BY <1>2, OneExits DEF ReplicateReturns
<1> QED BY <1>1, <1>2

LEMMA ContinueKeeps ==
  ASSUME ThreadInv, NEW t \in Thread, pc[t] # "off",
         NEW where \in ThreadStages \ {"off"},
         Continue(t, where), applier' = "off" <=> applier = "off", UNCHANGED ends
  PROVE  ThreadInv'
BY OneGoesOn DEF Continue

\* The steps of a replication goroutine.
LEMMA GoroutineKeeps ==
  ASSUME ThreadInv, NEW t \in Thread,
         \/ BuildRequest(t) \/ Answered(t) \/ NotifyOthers(t)
         \/ LoseCall(t) \/ CallReturnsFalse(t)
  PROVE  ThreadInv'
<1> USE DEF ends, tick, deliver, threads
<1>1. {"build", "calling", "lost", "notifyMore", "notifyDone"} \subseteq ThreadStages \ {"off"}
  BY DEF ThreadStages
<1>2. CASE BuildRequest(t)
  <2>1. pc[t] # "off" /\ UNCHANGED <<ends, applier>>
    BY <1>2 DEF BuildRequest
  <2>2. CASE ReplicateReturns(t)
    BY <2>1, <2>2, ReturnKeeps
  <2>3. CASE pc' = [pc EXCEPT ![t] = "calling"] /\ UNCHANGED workers
    BY <1>1, <2>1, <2>3, OneGoesOn
  <2> QED BY <1>2, <2>2, <2>3 DEF BuildRequest
<1>3. CASE Outdated(t)
  <2>1. pc[t] # "off" /\ UNCHANGED <<ends, applier>> /\ ReplicateReturns(t)
    BY <1>3 DEF Outdated
  <2> QED BY <2>1, ReturnKeeps
<1>4. CASE SnapshotInstalled(t)
  <2>1. pc[t] # "off" /\ UNCHANGED <<ends, applier>> /\ Continue(t, "build")
    BY <1>4 DEF SnapshotInstalled
  <2> QED BY <1>1, <2>1, ContinueKeeps
<1>5. CASE Appended(t)
  <2>1. pc[t] # "off" /\ UNCHANGED ends
    BY <1>5 DEF Appended
  <2>2. applier' = "off" <=> applier = "off"
    BY <1>5 DEF Appended, advanceCommitIndex, Signal
  <2>3. \/ ReplicateReturns(t) \/ Continue(t, "build") \/ Continue(t, "notifyDone")
        \/ Continue(t, "notifyMore")
    BY <1>5 DEF Appended
  <2> QED BY <1>1, <2>1, <2>2, <2>3, ReturnKeeps, ContinueKeeps
<1>6. CASE Conflicted(t)
  <2>1. /\ pc[t] # "off" /\ UNCHANGED <<ends, applier>>
        /\ ReplicateReturns(t) \/ Continue(t, "build")
    BY <1>6 DEF Conflicted
  <2> QED BY <1>1, <2>1, ReturnKeeps, ContinueKeeps
<1>7. CASE HigherTerm(t)
  <2>1. pc[t] # "off" /\ UNCHANGED <<ends, applier>> /\ ReplicateReturns(t)
    BY <1>7 DEF HigherTerm
  <2> QED BY <2>1, ReturnKeeps
<1>8. CASE NotifyOthers(t)
  <2>1. /\ pc[t] # "off" /\ UNCHANGED <<ends, applier>>
        /\ ReplicateReturns(t) \/ Continue(t, "build")
    BY <1>8 DEF NotifyOthers
  <2> QED BY <1>1, <2>1, ReturnKeeps, ContinueKeeps
<1>9. CASE LoseCall(t)
  <2>1. /\ pc[t] # "off" /\ UNCHANGED <<ends, applier, workers>>
        /\ pc' = [pc EXCEPT ![t] = "lost"]
    BY <1>9 DEF LoseCall
  <2> QED BY <1>1, <2>1, OneGoesOn
<1>10. CASE CallReturnsFalse(t)
  <2>1. pc[t] # "off" /\ UNCHANGED <<ends, applier>> /\ ReplicateReturns(t)
    BY <1>10 DEF CallReturnsFalse
  <2> QED BY <2>1, ReturnKeeps
<1> QED BY <1>2, <1>3, <1>4, <1>5, <1>6, <1>7, <1>8, <1>9, <1>10 DEF Answered

LEMMA WorkerKeeps ==
  ASSUME ThreadInv, NEW p \in Peer,
         WorkerWakes(p) \/ WorkerStops(p) \/ WorkerTakes(p) \/ WorkerReleases(p)
  PROVE  ThreadInv'
<1> USE DEF ends, tick, deliver
<1>1. PICK t \in Thread : t = <<"worker", p>>
  BY DEF Thread
<1>2. pc[t] # "off" /\ UNCHANGED <<ends, applier>>
  BY <1>1 DEF WorkerWakes, WorkerStops, WorkerTakes, WorkerReleases
<1>3. \/ Exit(t)
      \/ \E where \in {"woken", "build", "wait"} :
            pc' = [pc EXCEPT ![t] = where] /\ UNCHANGED workers
  BY <1>1 DEF WorkerWakes, WorkerStops, WorkerTakes, WorkerReleases
<1>4. {"woken", "build", "wait"} \subseteq ThreadStages \ {"off"}
  BY DEF ThreadStages
<1> QED BY <1>2, <1>3, <1>4, OneExits, OneGoesOn

LEMMA ServiceKeeps ==
  ASSUME ThreadInv,
         \/ ApplierStep \/ HeartbeatTickerStops \/ ElectionTickerStops
         \/ heartbeatOrNotifyReplication \/ \E p \in Peer : launch(p)
  PROVE  ThreadInv'
<1> USE DEF ends, tick, deliver, threads
<1>1. stopped => dead /\ workers = 0
  BY DEF ThreadInv
<1>2. CASE ApplierStep
  <2>1. applier # "off" /\ UNCHANGED <<ends, pc>>
    BY <1>2 DEF ApplierStep, ApplierChecks, ApplierSends, ApplierStops
  <2>2. \/ applier' = "off" /\ workers' = workers - 1
        \/ applier' # "off" /\ workers' = workers
    BY <1>2 DEF ApplierStep, ApplierChecks, ApplierSends, ApplierStops,
                ApplierExits
  <2> QED BY <1>1, <2>1, <2>2, ServiceExits, NoneEnds
<1>3. CASE HeartbeatTickerStops
  <2>1. /\ heartbeatTicker # "off" /\ heartbeatTicker' = "off" /\ workers' = workers - 1
        /\ UNCHANGED <<applier, ticker, pc, dead, stopped>>
    BY <1>3 DEF HeartbeatTickerStops
  <2> QED BY <2>1, ServiceExits
<1>4. CASE ElectionTickerStops
  <2>1. /\ ticker # "off" /\ ticker' = "off" /\ workers' = workers - 1
        /\ UNCHANGED <<applier, heartbeatTicker, pc, dead, stopped>>
    BY <1>4 DEF ElectionTickerStops
  <2> QED BY <2>1, ServiceExits
<1>5. CASE heartbeatOrNotifyReplication
  <2>1. UNCHANGED <<ends, applier, pc, workers>>
    BY <1>5 DEF heartbeatOrNotifyReplication
  <2> QED BY <1>1, <2>1, NoneEnds
<1>6. ASSUME NEW p \in Peer, launch(p) PROVE ThreadInv'
  <2>1. PICK t \in Thread : t = <<"rescue", p>>
    BY DEF Thread
  <2>2. UNCHANGED <<ends, applier>>
    BY <1>6 DEF launch
  <2>3. \/ UNCHANGED <<pc, workers>>
        \/ ~dead /\ pc[t] = "off" /\ Started(t)
    BY <1>6, <2>1 DEF launch
  <2> QED BY <1>1, <2>2, <2>3, NoneEnds, OneStarts
<1> QED BY <1>2, <1>3, <1>4, <1>5, <1>6

LEMMA OwnerKeeps ==
  ASSUME ThreadInv,
         \/ Notify \/ Stop \/ becomeLeader \/ Start \/ Kill
         \/ UNCHANGED threadVars
  PROVE  ThreadInv'
<1> USE DEF tick, deliver, threads, log
<1>1. stopped => dead /\ workers = 0
  BY DEF ThreadInv
<1>2. UNCHANGED <<pc, workers, ticker, heartbeatTicker>>
  BY DEF Notify, Stop, becomeLeader, Start, Kill, threadVars
<1>3. applier' = "off" <=> applier = "off"
  BY DEF Notify, Stop, becomeLeader, Start, Kill, WakeAll, Signal,
         threadVars
<1>4. stopped' => dead' /\ workers = 0
  <2>1. CASE Notify \/ becomeLeader \/ Start \/ UNCHANGED threadVars
    <3>1. stopped' = stopped /\ dead' = dead
      BY <2>1 DEF Notify, becomeLeader, Start, threadVars
    <3> QED BY <1>1, <3>1
  <2>2. CASE Stop
    <3>1. dead /\ dead' = dead /\ workers = 0
      BY <2>2 DEF Stop
    <3> QED BY <3>1
  <2>3. CASE Kill
    <3>1. dead' = TRUE /\ stopped' = stopped
      BY <2>3 DEF Kill
    <3> QED BY <1>1, <3>1
  <2> QED BY <2>1, <2>2, <2>3
<1> QED BY <1>2, <1>3, <1>4, NoneEnds

LEMMA ThreadInvInit == ASSUME ThreadInit PROVE ThreadInv
<1>1. pc = [t \in Thread |-> IF IsWorker(t) THEN "wait" ELSE "off"]
  BY DEF ThreadInit
<1>2. pc \in [Thread -> ThreadStages]
  BY <1>1 DEF ThreadStages
<1>3. Running = {"worker"} \X Peer
  BY <1>1 DEF Running, Thread, IsWorker
<1>4. PICK n \in Nat : n = Cardinality(Peer)
  BY FS_CardinalityType, PeerAssumption
<1>5. Cardinality(Running) = n
  <2>1. IsFiniteSet({"worker"}) /\ Cardinality({"worker"}) = 1
    BY FS_Singleton
  <2>2. Cardinality({"worker"} \X Peer) = Cardinality({"worker"}) * Cardinality(Peer)
    BY <2>1, FS_Product, PeerAssumption
  <2> QED BY <1>3, <1>4, <2>1, <2>2
<1>6. workers = n + 3 /\ One(applier) = 1 /\ One(ticker) = 1 /\ One(heartbeatTicker) = 1
  BY <1>4 DEF ThreadInit, One
<1>7. Counted
  BY <1>5, <1>6 DEF Counted
<1> QED BY <1>2, <1>7 DEF ThreadInv, ThreadInit

LEMMA ThreadInvNext == ThreadInv /\ [ThreadNext]_threadVars => ThreadInv'
<1> SUFFICES ASSUME ThreadInv, [ThreadNext]_threadVars PROVE ThreadInv'
  OBVIOUS
<1>1. ASSUME NEW t \in Thread, GoroutineStep(t) \/ LoseCall(t) \/ CallReturnsFalse(t)
      PROVE  ThreadInv'
  <2>1. t[2] \in Peer
    BY DEF Thread
  <2> QED BY <1>1, <2>1, GoroutineKeeps, WorkerKeeps DEF GoroutineStep
<1> QED BY <1>1, ServiceKeeps, OwnerKeeps DEF ThreadNext, TickerStep

\* When stopped is closed no goroutine of the server runs any more, whatever
\* started or was started while it was being killed.
THEOREM StoppedIsQuietAlways == ThreadSpec => []StoppedIsQuiet
<1>1. ThreadInv => StoppedIsQuiet
  BY QuietWhenNoneCounted DEF ThreadInv, StoppedIsQuiet
<1>2. ThreadInit => ThreadInv
  BY ThreadInvInit
<1> QED BY <1>1, <1>2, ThreadInvNext, PTL DEF ThreadSpec
=============================================================================
