-------------------------- MODULE ShardClerkProofs --------------------------
(***************************************************************************)
(* Routes that never go back and fresh reads, for any number of goroutines *)
(* and groups and any sequence of configurations.                          *)
(***************************************************************************)
EXTENDS ShardClerk, TLAPS, SequenceTheorems

\* The stages in which a call has a group.
Routed == {"leader", "call", "reply"}

\* The types, that a call that was routed has a group to go to, and that an
\* answer is there only while it is looked at.
ClerkTypes ==
    /\ TypeOK
    /\ \A t \in Thread : /\ th[t].pc \in Routed => th[t].gid \in Group
                         /\ th[t].pc # "reply" => th[t].err = "none"

\* What the clerk has routed by it has cached, or something newer.
RouteInv ==
    /\ ClerkTypes
    /\ routed <= config
    /\ \A t \in Thread : th[t].routed <= routed
    /\ RouteNeverGoesBack

\* No configuration takes the shard away from everybody: the data of a shard
\* that is assigned to nobody goes with its last group.
PlanKeepsShard == \A n \in 1..Len(Plan) - 1 : Plan[n] # NoGroup => Plan[n + 1] # NoGroup

\* The group that has the newest copy: the published one until the shard is
\* installed at its successor.
Home == Plan[IF published = 0 THEN 1 ELSE published]
Installed == Moves /\ Target # NoGroup /\ shard[Target].Status = "Serving"
Owner == IF Installed THEN Target ELSE Home
Held == IF Owner = NoGroup THEN {} ELSE shard[Owner].Data

\* Those whose Put was answered OK, whether the answer was looked at or not.
Promised == acked \cup {t \in Thread : th[t].op = "Put" /\ th[t].err = "OK"}

\* One group serves, and it has what was promised.
FreshInv ==
    /\ \A g \in Group : shard[g].Status = "Serving" => g = Owner
    /\ Promised \subseteq Held
    /\ \A t \in Thread : th[t].acked \subseteq acked
    /\ ReadIsFresh

----------------------------------------------------------------------------
\* FiniteSetsExt's Max, where the clerk compares two configuration numbers.
LEMMA MaxOfTwo ==
    ASSUME NEW a \in Nat, NEW b \in Nat
    PROVE  Max({a, b}) = IF a >= b THEN a ELSE b
<1> DEFINE m == IF a >= b THEN a ELSE b
<1>1. m \in {a, b} /\ \A y \in {a, b} : m >= y
  OBVIOUS
<1>2. \A x \in {a, b} : (\A y \in {a, b} : x >= y) => x = m
  OBVIOUS
<1> HIDE DEF m
<1>3. (CHOOSE x \in {a, b} : \A y \in {a, b} : x >= y) = m
  BY <1>1, <1>2
<1> QED BY <1>3 DEF Max, m

\* A configuration routes to a group or to nobody.
LEMMA RouteType ==
    ASSUME NEW num \in 0..Len(Plan)
    PROVE  Route(num) \in Group \cup {NoGroup}
  BY PlanAssumption DEF Route

\* Numbers of configurations and of servers.
LEMMA Zeros == Len(Plan) \in Nat /\ Len(Plan) >= 1 /\ 0 \in Server /\ 0 \in 0..Len(Plan)
  BY PlanAssumption, ServersAssumption, EmptySeq DEF Server

\* An empty call is a call.
LEMMA IdleType == Idle \in Call
  BY Zeros DEF Idle, Call

\* So is what a call begins its next round with.
LEMMA AgainType ==
    ASSUME TypeOK, NEW call \in Call
    PROVE  /\ Again(call) \in Call
           /\ Again(call).pc = "load" /\ Again(call).err = "none"
           /\ Again(call).routed = routed /\ Again(call).acked = call.acked
           /\ Again(call).op = call.op
<1>1. routed \in 0..Len(Plan)
  BY DEF TypeOK
<1>2. call.op \in {"Get", "Put"} /\ call.acked \in SUBSET Client
  BY DEF Call
<1>3. Idle.err = "none"
  BY DEF Idle
<1> QED BY <1>1, <1>2, <1>3, IdleType DEF Again, Call

\* Replacing one goroutine's call leaves the others alone.
LEMMA OneCall ==
    ASSUME TypeOK, NEW t \in Thread, NEW new \in Call, Becomes(t, new)
    PROVE  /\ th' \in [Thread -> Call]
           /\ th'[t] = new
           /\ \A u \in Thread : u # t => th'[u] = th[u]
  BY DEF TypeOK, Becomes

----------------------------------------------------------------------------
(***************************************************************************)
(* What a step does to the call of its goroutine.                          *)
(***************************************************************************)
\* Use routes by the configuration it is given or starts over.
LEMMA UseEffect ==
    ASSUME ClerkTypes, NEW t \in Thread, NEW num \in 0..Len(Plan), Use(t, num)
    PROVE  /\ th' \in [Thread -> Call] /\ \A u \in Thread : u # t => th'[u] = th[u]
           /\ th'[t].acked = th[t].acked /\ th'[t].op = th[t].op
           /\ \/ th'[t].pc = "load" /\ th'[t].err = "none" /\ th'[t].routed = routed
              \/ /\ th'[t].pc = "leader" /\ th'[t].err = th[t].err
                 /\ th'[t].cfg = num /\ th'[t].routed = th[t].routed
                 /\ th'[t].gid \in Group
           /\ routed' \in 0..Len(Plan) /\ routed' >= routed /\ routed' >= num
           /\ routed' \in {routed, num}
<1>1. TypeOK /\ th[t] \in Call /\ routed \in 0..Len(Plan)
  BY DEF ClerkTypes, TypeOK
<1>2. /\ routed' \in 0..Len(Plan) /\ routed' >= routed /\ routed' >= num
      /\ routed' \in {routed, num}
  <2>1. routed' = Max({routed, num})
    BY DEF Use
  <2>2. routed \in Nat /\ num \in Nat
    BY <1>1, Zeros
  <2> QED BY <1>1, <2>1, <2>2, MaxOfTwo, Zeros
<1>3. CASE Route(num) = NoGroup
  <2>1. Becomes(t, Again(th[t]))
    BY <1>3 DEF Use
  <2> QED BY <1>1, <1>2, <2>1, AgainType, OneCall
<1>4. CASE Route(num) # NoGroup
  <2> DEFINE new == [th[t] EXCEPT !.pc = "leader", !.gid = Route(num), !.cfg = num]
  <2>1. Becomes(t, new)
    BY <1>4 DEF Use
  <2>2. Route(num) \in Group
    BY <1>4, RouteType
  <2>3. /\ new \in Call /\ new.pc = "leader" /\ new.err = th[t].err /\ new.cfg = num
        /\ new.routed = th[t].routed /\ new.gid \in Group
        /\ new.acked = th[t].acked /\ new.op = th[t].op
    BY <1>1, <2>2 DEF Call
  <2> HIDE DEF new
  <2> QED BY <1>1, <1>2, <2>1, <2>3, OneCall
<1> QED BY <1>3, <1>4

\* Steps that keep what a call knows: waiting for the controller, and picking
\* the server that is taken for the leader.
LEMMA MoveEffect ==
    ASSUME ClerkTypes, NEW t \in Thread,
           LoadRefresh(t) \/ Leader(t) \/ (Query(t) /\ published # 0)
    PROVE  /\ th' \in [Thread -> Call] /\ \A u \in Thread : u # t => th'[u] = th[u]
           /\ th'[t].err = "none" /\ th'[t].acked = th[t].acked /\ th'[t].op = th[t].op
           /\ th'[t].routed = th[t].routed
           /\ \/ th'[t].pc \in {"query", "store"}
              \/ /\ th'[t].pc = "call" /\ th[t].pc = "leader"
                 /\ th'[t].cfg = th[t].cfg /\ th'[t].gid = th[t].gid
<1>1. TypeOK /\ th[t] \in Call /\ published \in 0..Len(Plan)
  BY DEF ClerkTypes, TypeOK
<1>2. CASE LoadRefresh(t)
  <2> DEFINE new == [th[t] EXCEPT !.pc = "query"]
  <2>1. /\ new \in Call /\ new.pc = "query" /\ new.err = th[t].err
        /\ new.routed = th[t].routed /\ new.acked = th[t].acked /\ new.op = th[t].op
    BY <1>1 DEF Call
  <2>2. Becomes(t, new) /\ th[t].err = "none"
    BY <1>2 DEF LoadRefresh, ClerkTypes
  <2> HIDE DEF new
  <2> QED BY <1>1, <2>1, <2>2, OneCall
<1>3. CASE Query(t) /\ published # 0
  <2> DEFINE new == [th[t] EXCEPT !.pc = "store", !.cfg = published]
  <2>1. /\ new \in Call /\ new.pc = "store" /\ new.err = th[t].err
        /\ new.routed = th[t].routed /\ new.acked = th[t].acked /\ new.op = th[t].op
    BY <1>1 DEF Call
  <2>2. Becomes(t, new) /\ th[t].err = "none"
    BY <1>3 DEF Query, ClerkTypes
  <2> HIDE DEF new
  <2> QED BY <1>1, <2>1, <2>2, OneCall
<1>4. CASE Leader(t)
  <2> DEFINE new == [th[t] EXCEPT !.pc = "call", !.server = leader[th[t].gid]]
  <2>1. th[t].pc = "leader" /\ th[t].gid \in Group /\ th[t].err = "none"
    BY <1>4 DEF Leader, ClerkTypes, Routed
  <2>2. leader[th[t].gid] \in Server
    BY <2>1 DEF ClerkTypes, TypeOK
  <2>3. /\ new \in Call /\ new.pc = "call" /\ new.err = th[t].err
        /\ new.routed = th[t].routed /\ new.acked = th[t].acked /\ new.op = th[t].op
        /\ new.cfg = th[t].cfg /\ new.gid = th[t].gid
    BY <1>1, <2>2 DEF Call
  <2>4. Becomes(t, new)
    BY <1>4 DEF Leader
  <2> HIDE DEF new
  <2> QED BY <1>1, <2>1, <2>3, <2>4, OneCall
<1> QED BY <1>2, <1>3, <1>4

\* A call comes back with an answer, or with none.
LEMMA ReplyEffect ==
    ASSUME ClerkTypes, NEW t \in Thread, Answer(t) \/ Refuse(t) \/ Fail(t)
    PROVE  /\ th' \in [Thread -> Call] /\ \A u \in Thread : u # t => th'[u] = th[u]
           /\ th[t].pc = "call" /\ th'[t].pc = "reply" /\ th'[t].gid = th[t].gid
           /\ th[t].gid \in Group
           /\ th'[t].cfg = th[t].cfg /\ th'[t].routed = th[t].routed
           /\ th'[t].acked = th[t].acked /\ th'[t].op = th[t].op
           /\ th'[t].err = "OK" =>
                /\ Answer(t) /\ Serves(th[t].gid, th[t].op)
                /\ th'[t].op = "Get" => th'[t].value = shard[th[t].gid].Data
<1>1. TypeOK /\ th[t] \in Call
  BY DEF ClerkTypes, TypeOK
<1>2. th[t].pc = "call" /\ th[t].gid \in Group
  BY DEF Answer, Refuse, Fail, ClerkTypes, Routed
<1>3. shard[th[t].gid].Data \in SUBSET Client
  BY <1>1, <1>2 DEF TypeOK
<1>4. CASE Answer(t)
  <2> DEFINE err == IF Serves(th[t].gid, th[t].op) THEN "OK" ELSE "ErrWrongGroup"
             value == IF th[t].op = "Get" THEN shard[th[t].gid].Data ELSE {}
             new == [th[t] EXCEPT !.pc = "reply", !.err = err, !.value = value]
  <2>1. err \in {"OK", "ErrWrongGroup"} /\ value \in SUBSET Client
    BY <1>3
  <2>2. /\ err = "OK" => Serves(th[t].gid, th[t].op)
        /\ th[t].op = "Get" => value = shard[th[t].gid].Data
    OBVIOUS
  <2>3. Becomes(t, new)
    BY <1>4 DEF Answer
  <2> HIDE DEF err, value
  <2>4. /\ new \in Call /\ new.pc = "reply" /\ new.err = err /\ new.value = value
        /\ new.gid = th[t].gid /\ new.cfg = th[t].cfg /\ new.routed = th[t].routed
        /\ new.acked = th[t].acked /\ new.op = th[t].op
    BY <1>1, <2>1 DEF Call
  <2> HIDE DEF new
  <2>5. th' \in [Thread -> Call] /\ th'[t] = new /\ \A u \in Thread : u # t => th'[u] = th[u]
    BY <1>1, <2>3, <2>4, OneCall
  <2>6. th'[t].err = "OK" =>
          /\ Answer(t) /\ Serves(th[t].gid, th[t].op)
          /\ th'[t].op = "Get" => th'[t].value = shard[th[t].gid].Data
    BY <1>4, <2>2, <2>4, <2>5
  <2>7. /\ th'[t].pc = "reply" /\ th'[t].gid = th[t].gid /\ th'[t].cfg = th[t].cfg
        /\ th'[t].routed = th[t].routed /\ th'[t].acked = th[t].acked
        /\ th'[t].op = th[t].op
    BY <2>4, <2>5
  <2> QED BY <1>2, <2>5, <2>6, <2>7, Zenon
<1>5. CASE Refuse(t) \/ Fail(t)
  <2>1. PICK err \in {"failed", "ErrWrongLeader"} :
          Becomes(t, [th[t] EXCEPT !.pc = "reply", !.err = err])
    BY <1>5 DEF Refuse, Fail
  <2> DEFINE new == [th[t] EXCEPT !.pc = "reply", !.err = err]
  <2>2. /\ new \in Call /\ new.pc = "reply" /\ new.err = err
        /\ new.gid = th[t].gid /\ new.cfg = th[t].cfg /\ new.routed = th[t].routed
        /\ new.acked = th[t].acked /\ new.op = th[t].op
    BY <1>1 DEF Call
  <2>3. err # "OK" /\ Becomes(t, new)
    BY <2>1
  <2> HIDE DEF new
  <2> QED BY <1>1, <1>2, <2>2, <2>3, OneCall
<1> QED BY <1>4, <1>5

\* After an answer the call is over, is routed again, or tries another server
\* of the same group.
LEMMA AfterReplyEffect ==
    ASSUME ClerkTypes, NEW t \in Thread, Finish(t) \/ NextServer(t)
    PROVE  /\ th' \in [Thread -> Call] /\ \A u \in Thread : u # t => th'[u] = th[u]
           /\ th'[t].err = "none" /\ th[t].pc = "reply"
           /\ \/ th'[t] = Idle
              \/ /\ th'[t].acked = th[t].acked /\ th'[t].op = th[t].op
                 /\ \/ th'[t].pc = "load" /\ th'[t].routed = routed
                    \/ /\ th'[t].pc = "leader" /\ th'[t].routed = th[t].routed
                       /\ th'[t].cfg = th[t].cfg /\ th'[t].gid = th[t].gid
           /\ leader' \in [Group -> Server]
<1>1. TypeOK /\ th[t] \in Call
  BY DEF ClerkTypes, TypeOK
<1>2. CASE Finish(t)
  <2>1. th[t].pc = "reply" /\ th[t].server \in Server
    BY <1>1, <1>2 DEF Finish, Call
  <2>2. leader' \in [Group -> Server]
    BY <1>1, <1>2, <2>1 DEF Finish, TypeOK
  <2>3. Becomes(t, Idle) \/ Becomes(t, Again(th[t]))
    BY <1>2 DEF Finish
  <2>4. Idle.err = "none"
    BY DEF Idle
  <2> QED BY <1>1, <2>1, <2>2, <2>3, <2>4, IdleType, AgainType, OneCall
<1>3. CASE NextServer(t)
  <2> DEFINE received == th[t].receivedReply \/ th[t].err # "failed"
             call == [th[t] EXCEPT !.server = 0, !.err = "none",
                                   !.receivedReply = received]
  <2>1. /\ call \in Call /\ call.err = "none" /\ call.acked = th[t].acked
        /\ call.op = th[t].op /\ call.routed = th[t].routed /\ call.cfg = th[t].cfg
        /\ call.gid = th[t].gid
    BY <1>1, Zeros DEF Call
  <2> HIDE DEF call
  <2>2. /\ th[t].pc = "reply" /\ th[t].server \in Server /\ th[t].gid \in Group
        /\ advanceLeader(th[t].gid, th[t].server)
        /\ Becomes(t, IF call.attempts + 1 = NServers THEN RoundOver(call)
                      ELSE [call EXCEPT !.pc = "leader", !.attempts = @ + 1])
    BY <1>1, <1>3 DEF NextServer, Call, call, ClerkTypes, Routed
  <2>3. leader' \in [Group -> Server]
    <3>1. (th[t].server + 1) % NServers \in Server
      BY <2>2, ServersAssumption DEF Server
    <3> QED BY <1>1, <2>2, <3>1 DEF advanceLeader, TypeOK
  <2>4. CASE call.attempts + 1 = NServers /\ ~call.receivedReply
    <3>1. Becomes(t, Again(call))
      BY <2>2, <2>4 DEF RoundOver
    <3> QED BY <1>1, <2>1, <2>2, <2>3, <3>1, AgainType, OneCall
  <2>5. CASE call.attempts + 1 = NServers /\ call.receivedReply
    <3> DEFINE new == [call EXCEPT !.pc = "leader", !.attempts = 0, !.receivedReply = FALSE]
    <3>1. Becomes(t, new)
      BY <2>2, <2>5 DEF RoundOver
    <3>2. /\ new \in Call /\ new.err = "none" /\ new.acked = th[t].acked
          /\ new.op = th[t].op /\ new.routed = th[t].routed /\ new.cfg = th[t].cfg
          /\ new.gid = th[t].gid /\ new.pc = "leader"
      BY <2>1, Zeros DEF Call
    <3> HIDE DEF new
    <3> QED BY <1>1, <2>2, <2>3, <3>1, <3>2, OneCall
  <2>6. CASE call.attempts + 1 # NServers
    <3> DEFINE new == [call EXCEPT !.pc = "leader", !.attempts = @ + 1]
    <3>1. Becomes(t, new)
      BY <2>2, <2>6
    <3>2. call.attempts + 1 \in Server
      BY <2>1, <2>6, ServersAssumption DEF Call, Server
    <3>3. /\ new \in Call /\ new.err = "none" /\ new.acked = th[t].acked
          /\ new.op = th[t].op /\ new.routed = th[t].routed /\ new.cfg = th[t].cfg
          /\ new.gid = th[t].gid /\ new.pc = "leader"
      BY <2>1, <3>2 DEF Call
    <3> HIDE DEF new
    <3> QED BY <1>1, <2>2, <2>3, <3>1, <3>3, OneCall
  <2> QED BY <2>4, <2>5, <2>6
<1> QED BY <1>2, <1>3

\* A call begins.
LEMMA BeginEffect ==
    ASSUME ClerkTypes, NEW t \in Thread, Begin(t)
    PROVE  /\ th' \in [Thread -> Call] /\ \A u \in Thread : u # t => th'[u] = th[u]
           /\ th'[t].pc = "load" /\ th'[t].err = "none" /\ th'[t].routed = routed
           /\ th'[t].acked \subseteq acked
           /\ calls' \in [Thread -> Nat]
<1>1. TypeOK /\ calls \in [Thread -> Nat] /\ routed \in 0..Len(Plan) /\ acked \subseteq Client
  BY DEF ClerkTypes, TypeOK
<1>2. calls' \in [Thread -> Nat]
  BY <1>1 DEF Begin
<1>3. Idle.err = "none" /\ Idle.acked = {} /\ Idle.op = "Get"
  BY DEF Idle
<1>4. CASE t \in Writer
  <2> DEFINE new == [Idle EXCEPT !.pc = "load", !.op = "Put", !.routed = routed]
  <2>1. Becomes(t, new)
    BY <1>4 DEF Begin
  <2>2. /\ new \in Call /\ new.pc = "load" /\ new.err = "none" /\ new.routed = routed
        /\ new.acked = {}
    BY <1>1, <1>3, IdleType DEF Call
  <2> HIDE DEF new
  <2> QED BY <1>1, <1>2, <2>1, <2>2, OneCall
<1>5. CASE t \notin Writer
  <2> DEFINE new == [Idle EXCEPT !.pc = "load", !.acked = acked, !.routed = routed]
  <2>1. Becomes(t, new)
    BY <1>5 DEF Begin
  <2>2. /\ new \in Call /\ new.pc = "load" /\ new.err = "none" /\ new.routed = routed
        /\ new.acked = acked
    BY <1>1, <1>3, IdleType DEF Call
  <2> HIDE DEF new
  <2> QED BY <1>1, <1>2, <2>1, <2>2, OneCall
<1> QED BY <1>4, <1>5

\* A call that finds no configuration yet starts over.
LEMMA QueryNothingEffect ==
    ASSUME ClerkTypes, NEW t \in Thread, Query(t), published = 0
    PROVE  /\ th' \in [Thread -> Call] /\ \A u \in Thread : u # t => th'[u] = th[u]
           /\ th'[t].pc = "load" /\ th'[t].err = "none" /\ th'[t].routed = routed
           /\ th'[t].acked = th[t].acked /\ th'[t].op = th[t].op
<1>1. TypeOK /\ th[t] \in Call
  BY DEF ClerkTypes, TypeOK
<1>2. Becomes(t, Again(th[t]))
  BY DEF Query
<1> QED BY <1>1, <1>2, AgainType, OneCall

\* The requests a group executes are requests of its clients.
LEMMA ExecuteType ==
    ASSUME ClerkTypes, NEW t \in Thread, th[t].gid \in Group,
           Execute(t) \/ UNCHANGED shard
    PROVE  shard' \in [Group -> [Status : {"Absent", "Serving", "Frozen"},
                                 Data : SUBSET Client]]
  BY DEF ClerkTypes, TypeOK, Execute, Client

----------------------------------------------------------------------------
(***************************************************************************)
(* Routes never go back.                                                   *)
(***************************************************************************)
\* The controller, the groups and other clerks do not touch this clerk.
LEMMA WorldStep ==
    ASSUME RouteInv,
           \/ Migrate \/ OtherPut
           \/ \E g \in Group : ShutDown(g) \/ Elect(g)
    PROVE  RouteInv'
<1> USE DEF RouteInv, ClerkTypes, Routed, RouteNeverGoesBack
<1>1. UNCHANGED <<config, leader, th, routed, calls>>
  BY DEF Migrate, Publish, Freeze, Install, OtherPut, ShutDown, Elect, clerk, counters
<1>2. TypeOK'
  <2>1. Plan \in Seq(Group \cup {NoGroup})
    BY PlanAssumption
  <2>2. CASE Publish
    <3>1. published' \in 0..Len(Plan)
      BY <2>1, <2>2, Zeros DEF Publish, TypeOK
    <3>2. UNCHANGED <<shard, leaderOf, down, config, leader, th, acked, routed, calls, faults>>
      BY <2>2 DEF Publish, clerk, counters
    <3> QED BY <3>1, <3>2 DEF TypeOK
  <2>3. CASE Freeze
    <3>1. Source \in Group
      BY <2>1, <2>3, Zeros DEF Freeze, Moves, Source
    <3>2. UNCHANGED <<published, leaderOf, down, config, leader, th, acked, routed, calls, faults>>
      BY <2>3 DEF Freeze, clerk, counters
    <3>3. shard' \in [Group -> [Status : {"Absent", "Serving", "Frozen"},
                                Data : SUBSET Client]]
      BY <2>3, <3>1 DEF Freeze, TypeOK
    <3> QED BY <3>2, <3>3 DEF TypeOK
  <2>4. CASE Install
    <3>1. Target \in Group /\ (Source # NoGroup => Source \in Group)
      BY <2>1, <2>4, Zeros DEF Install, Moves, Source, Target
    <3>2. UNCHANGED <<published, leaderOf, down, config, leader, th, acked, routed, calls, faults>>
      BY <2>4 DEF Install, clerk, counters
    <3>3. (IF Source = NoGroup THEN {} ELSE shard[Source].Data) \in SUBSET Client
      BY <3>1 DEF TypeOK
    <3>4. shard' \in [Group -> [Status : {"Absent", "Serving", "Frozen"},
                                Data : SUBSET Client]]
      BY <2>4, <3>1, <3>3 DEF Install, TypeOK
    <3> QED BY <3>2, <3>4 DEF TypeOK
  <2>5. CASE OtherPut
    <3>1. Source \in Group
      BY <2>1, <2>5, Zeros DEF OtherPut, Source
    <3>2. UNCHANGED <<published, leaderOf, down, config, leader, th, routed, calls, faults>>
      BY <2>5 DEF OtherPut, clerk, counters
    <3>3. shard' \in [Group -> [Status : {"Absent", "Serving", "Frozen"},
                                Data : SUBSET Client]]
      BY <2>5, <3>1 DEF OtherPut, TypeOK, Client
    <3>4. acked' \subseteq Client
      BY <2>5 DEF OtherPut, TypeOK, Client
    <3> QED BY <3>2, <3>3, <3>4 DEF TypeOK
  <2>6. ASSUME NEW g \in Group, ShutDown(g) PROVE TypeOK'
    <3>1. UNCHANGED <<published, shard, leaderOf, config, leader, th, acked, routed, calls, faults>>
      BY <2>6 DEF ShutDown, clerk, counters
    <3>2. down' \subseteq Group
      BY <2>6 DEF ShutDown, TypeOK
    <3> QED BY <3>1, <3>2 DEF TypeOK
  <2>7. ASSUME NEW g \in Group, Elect(g) PROVE TypeOK'
    <3>1. UNCHANGED <<published, shard, down, config, leader, th, acked, routed, calls>>
      BY <2>7 DEF Elect, clerk, counters
    <3>2. leaderOf' \in [Group -> Server] /\ faults' \in 0..MaxFaults
      BY <2>7, CallsAssumption DEF Elect, TypeOK
    <3> QED BY <3>1, <3>2 DEF TypeOK
  <2> QED BY <2>2, <2>3, <2>4, <2>5, <2>6, <2>7 DEF Migrate
<1> QED BY <1>1, <1>2

\* Nor does a call that stays with its route or has none.
LEMMA CallStep ==
    ASSUME RouteInv, NEW t \in Thread,
           \/ Begin(t) \/ LoadRefresh(t) \/ Query(t) \/ Leader(t) \/ Answer(t)
           \/ Refuse(t) \/ Fail(t) \/ Finish(t) \/ NextServer(t)
    PROVE  RouteInv'
<1>0. /\ ClerkTypes /\ TypeOK /\ routed \in 0..Len(Plan) /\ config \in 0..Len(Plan)
      /\ Idle.err = "none" /\ Idle.pc = "idle" /\ Idle.routed = 0 /\ th[t] \in Call
  BY DEF RouteInv, ClerkTypes, TypeOK, Idle
<1>1. UNCHANGED <<config, routed, published>>
  BY DEF Begin, LoadRefresh, Query, Leader, Answer, Refuse, Fail, Finish, NextServer,
         clerk, world
<1>2. /\ th' \in [Thread -> Call] /\ \A u \in Thread : u # t => th'[u] = th[u]
      /\ th'[t].pc # "reply" => th'[t].err = "none"
      /\ th'[t].pc \in Routed => th'[t].gid \in Group /\ th'[t].cfg >= th'[t].routed
      /\ th'[t].routed <= routed
  <2>1. th[t].pc \in Routed => th[t].gid \in Group /\ th[t].cfg >= th[t].routed
    BY DEF RouteInv, ClerkTypes, RouteNeverGoesBack, Routed
  <2>2. th[t].routed <= routed /\ 0 <= routed /\ routed <= routed
    BY <1>0 DEF RouteInv
  <2>3. CASE Begin(t)
    BY <1>0, <2>2, <2>3, BeginEffect DEF Routed
  <2>4. CASE LoadRefresh(t) \/ Leader(t) \/ (Query(t) /\ published # 0)
    BY <1>0, <2>1, <2>2, <2>4, MoveEffect DEF Routed
  <2>5. CASE Query(t) /\ published = 0
    BY <1>0, <2>2, <2>5, QueryNothingEffect DEF Routed
  <2>6. CASE Answer(t) \/ Refuse(t) \/ Fail(t)
    BY <1>0, <2>1, <2>2, <2>6, ReplyEffect DEF Routed
  <2>7. CASE Finish(t) \/ NextServer(t)
    <3>1. th[t].pc \in Routed
      BY <1>0, <2>7, AfterReplyEffect DEF Routed
    <3> QED BY <1>0, <2>1, <2>2, <2>7, <3>1, AfterReplyEffect DEF Routed
  <2> QED BY <2>3, <2>4, <2>5, <2>6, <2>7
<1>3. TypeOK'
  <2>1. /\ shard' \in [Group -> [Status : {"Absent", "Serving", "Frozen"},
                                 Data : SUBSET Client]]
        /\ faults' \in 0..MaxFaults
    <3>1. CASE Answer(t) \/ Fail(t)
      <4>1. th[t].gid \in Group
        BY <1>0, <3>1, ReplyEffect
      <4>2. faults' \in 0..MaxFaults
        BY <1>0, <3>1, CallsAssumption DEF Answer, Fail, counters, TypeOK
      <4>3. Execute(t) \/ UNCHANGED shard
        BY <3>1 DEF Answer, Fail
      <4> QED BY <1>0, <4>1, <4>2, <4>3, ExecuteType
    <3>2. CASE UNCHANGED <<shard, faults>>
      BY <1>0, <3>2 DEF TypeOK
    <3> QED BY <3>1, <3>2 DEF Begin, LoadRefresh, Query, Leader, Refuse, Finish,
                              NextServer, world, counters
  <2>2. leader' \in [Group -> Server]
    <3>1. CASE Finish(t) \/ NextServer(t)
      BY <1>0, <3>1, AfterReplyEffect
    <3>2. CASE UNCHANGED leader
      BY <1>0, <3>2 DEF TypeOK
    <3> QED BY <3>1, <3>2 DEF Begin, LoadRefresh, Query, Leader, Answer, Refuse, Fail, clerk
  <2>3. calls' \in [Thread -> Nat]
    <3>1. CASE Begin(t)
      BY <1>0, <3>1, BeginEffect
    <3>2. CASE UNCHANGED calls
      BY <1>0, <3>2 DEF TypeOK
    <3> QED BY <3>1, <3>2 DEF Finish, NextServer, LoadRefresh, Query, Leader, Answer,
                              Refuse, Fail, counters
  <2>4. acked' \subseteq Client
    BY <1>0 DEF TypeOK, Client, Begin, LoadRefresh, Query, Leader, Answer, Refuse, Fail,
                Finish, NextServer
  <2>5. UNCHANGED <<leaderOf, down>>
    BY DEF Begin, LoadRefresh, Query, Leader, Answer, Refuse, Fail, Finish, NextServer, world
  <2> QED BY <1>0, <1>1, <1>2, <2>1, <2>2, <2>3, <2>4, <2>5 DEF TypeOK
<1> QED BY <1>1, <1>2, <1>3 DEF RouteInv, ClerkTypes, RouteNeverGoesBack, Routed

\* A call is routed by the cached configuration, which is as new as any that
\* was used before: loadConfig never puts an older one in its place.
LEMMA LoadStep ==
    ASSUME RouteInv, NEW t \in Thread, LoadCached(t) \/ Store(t)
    PROVE  RouteInv'
<1>0. /\ ClerkTypes /\ TypeOK /\ routed \in 0..Len(Plan) /\ config \in 0..Len(Plan)
      /\ th[t] \in Call /\ routed <= config /\ th[t].err = "none"
  BY DEF RouteInv, ClerkTypes, TypeOK, LoadCached, Store
<1>1. config' \in 0..Len(Plan) /\ config' >= config /\ Use(t, config')
  <2>1. CASE LoadCached(t)
    BY <1>0, <2>1, Zeros DEF LoadCached, clerk
  <2>2. CASE Store(t)
    <3>1. th[t].cfg \in 0..Len(Plan)
      BY <1>0 DEF Call
    <3> QED BY <1>0, <2>2, <3>1, Zeros DEF Store, Newer
  <2> QED BY <2>1, <2>2
<1>2. routed' = config' /\ routed' >= routed
  BY <1>0, <1>1, UseEffect, Zeros
<1>3. /\ th' \in [Thread -> Call] /\ \A u \in Thread : u # t => th'[u] = th[u]
      /\ th'[t].err = "none"
      /\ th'[t].pc \in Routed => th'[t].gid \in Group /\ th'[t].cfg >= th'[t].routed
      /\ th'[t].routed <= routed'
  <2>1. th[t].routed \in 0..Len(Plan) /\ th[t].routed <= routed
    BY <1>0 DEF RouteInv, Call
  <2> QED BY <1>0, <1>1, <1>2, <2>1, UseEffect, Zeros DEF Routed
<1>4. UNCHANGED <<published, shard, leaderOf, down, leader, acked, calls, faults>>
  BY DEF LoadCached, Store, world, clerk, counters
<1>5. TypeOK'
  BY <1>0, <1>1, <1>2, <1>3, <1>4 DEF TypeOK
<1>6. \A u \in Thread : u # t => th'[u].routed <= routed'
  <2>1. \A u \in Thread : th[u].routed \in 0..Len(Plan) /\ th[u].routed <= routed
    BY <1>0 DEF RouteInv, TypeOK, Call
  <2> QED BY <1>0, <1>1, <1>2, <1>3, <2>1, Zeros
<1> QED BY <1>0, <1>1, <1>2, <1>3, <1>5, <1>6, Zeros
        DEF RouteInv, ClerkTypes, RouteNeverGoesBack, Routed

\* The invariant holds at first.
LEMMA RouteInit == Init => RouteInv
<1> SUFFICES ASSUME Init PROVE RouteInv
  OBVIOUS
<1>1. TypeOK
  <2>1. NServers - 1 \in Server
    BY ServersAssumption DEF Server
  <2>2. shard \in [Group -> [Status : {"Absent", "Serving", "Frozen"}, Data : SUBSET Client]]
    BY DEF Init
  <2> QED BY <2>1, <2>2, Zeros, IdleType, CallsAssumption DEF Init, TypeOK
<1>2. Idle.err = "none" /\ Idle.pc = "idle" /\ Idle.routed = 0
  BY DEF Idle
<1> QED BY <1>1, <1>2 DEF Init, RouteInv, ClerkTypes, RouteNeverGoesBack, Routed

\* And every step keeps it.
LEMMA RouteNext == RouteInv /\ [Next]_vars => RouteInv'
<1> SUFFICES ASSUME RouteInv, [Next]_vars PROVE RouteInv'
  OBVIOUS
<1>1. CASE UNCHANGED vars
  BY <1>1 DEF vars, world, clerk, counters, RouteInv, ClerkTypes, TypeOK,
              RouteNeverGoesBack, Routed
<1>2. CASE Next
  BY <1>2, WorldStep, CallStep, LoadStep DEF Next, Step
<1> QED BY <1>1, <1>2

\* The invariant, for every behaviour of the clerk.
THEOREM ClerkInvariant == Spec => []RouteInv
  BY RouteInit, RouteNext, PTL DEF Spec

(* A call is never routed by a configuration older than one the clerk had  *)
(* routed by when the round of the call began: overlapping refreshes of    *)
(* loadConfig keep the newest configuration.                               *)
THEOREM RoutesNeverGoBack == Spec => []RouteNeverGoesBack
<1>1. RouteInv => RouteNeverGoesBack
  BY DEF RouteInv
<1> QED BY <1>1, ClerkInvariant, PTL

----------------------------------------------------------------------------
(***************************************************************************)
(* Reads are fresh.                                                        *)
(***************************************************************************)
\* Groups of the published configuration and of the one after it.
LEMMA OwnerType ==
    ASSUME TypeOK
    PROVE  /\ Home \in Group \cup {NoGroup}
           /\ Moves => Source \in Group \cup {NoGroup} /\ Target \in Group \cup {NoGroup}
           /\ Moves => Home = Source
           /\ Owner \in Group \cup {NoGroup}
<1>1. published \in 0..Len(Plan) /\ Plan \in Seq(Group \cup {NoGroup})
  BY PlanAssumption DEF TypeOK
<1>2. /\ Home \in Group \cup {NoGroup}
      /\ Moves => Source \in Group \cup {NoGroup} /\ Target \in Group \cup {NoGroup}
      /\ Moves => Home = Source
  BY <1>1, Zeros DEF Home, Moves, Source, Target
<1> QED BY <1>2 DEF Owner, Installed

\* A step of the clerk that executes nothing.
LEMMA LocalKeepsFresh ==
    ASSUME RouteInv, FreshInv, NEW t \in Thread,
           \/ Begin(t) \/ LoadRefresh(t) \/ Query(t) \/ Leader(t) \/ Refuse(t)
           \/ Finish(t) \/ NextServer(t) \/ LoadCached(t) \/ Store(t)
    PROVE  FreshInv'
<1>0. /\ ClerkTypes /\ TypeOK /\ config \in 0..Len(Plan) /\ th[t] \in Call
      /\ th[t].acked \subseteq acked
      /\ Idle.err = "none" /\ Idle.acked = {}
  BY DEF RouteInv, FreshInv, ClerkTypes, TypeOK, Idle
<1>1. UNCHANGED <<published, shard>>
  BY DEF Begin, LoadRefresh, Query, Leader, Refuse, Finish, NextServer, LoadCached, Store, world
<1>2. Owner' = Owner /\ Held' = Held
  BY <1>1 DEF Owner, Held, Home, Installed, Moves, Source, Target
<1>3. acked \subseteq acked' /\ acked' \subseteq Promised
  BY DEF Begin, LoadRefresh, Query, Leader, Refuse, Finish, NextServer, LoadCached, Store,
         Promised
<1>4. /\ th' \in [Thread -> Call] /\ \A u \in Thread : u # t => th'[u] = th[u]
      /\ th'[t].err # "OK" /\ th'[t].acked \subseteq acked
  <2>1. CASE Begin(t)
    BY <1>0, <2>1, BeginEffect
  <2>2. CASE LoadRefresh(t) \/ Leader(t) \/ (Query(t) /\ published # 0)
    BY <1>0, <2>2, MoveEffect
  <2>3. CASE Query(t) /\ published = 0
    BY <1>0, <2>3, QueryNothingEffect
  <2>4. CASE Refuse(t)
    <3>1. ~Answer(t)
      BY <2>4 DEF Answer, Refuse
    <3> QED BY <1>0, <2>4, <3>1, ReplyEffect
  <2>5. CASE Finish(t) \/ NextServer(t)
    BY <1>0, <2>5, AfterReplyEffect
  <2>6. CASE LoadCached(t) \/ Store(t)
    <3>1. PICK num \in 0..Len(Plan) : Use(t, num)
      <4>1. CASE LoadCached(t)
        BY <1>0, <4>1 DEF LoadCached
      <4>2. CASE Store(t)
        <5>1. th[t].cfg \in 0..Len(Plan)
          BY <1>0 DEF Call
        <5> QED BY <1>0, <4>2, <5>1 DEF Store, Newer
      <4> QED BY <2>6, <4>1, <4>2
    <3>2. th[t].err = "none"
      BY <1>0, <2>6 DEF LoadCached, Store, ClerkTypes
    <3> QED BY <1>0, <3>1, <3>2, UseEffect
  <2> QED BY <2>1, <2>2, <2>3, <2>4, <2>5, <2>6
<1>5. Promised' \subseteq Promised
  BY <1>3, <1>4 DEF Promised
<1>6. \A u \in Thread : th'[u].acked \subseteq acked'
  BY <1>3, <1>4 DEF FreshInv
<1>7. ReadIsFresh'
  BY <1>4 DEF FreshInv, ReadIsFresh
<1>8. \A g \in Group : shard'[g].Status = "Serving" => g = Owner'
  BY <1>1, <1>2 DEF FreshInv
<1>9. Promised' \subseteq Held'
  BY <1>2, <1>5 DEF FreshInv
<1> QED BY <1>6, <1>7, <1>8, <1>9 DEF FreshInv

\* A Put that is executed is in the copy that serves, and a Get reads that copy.
LEMMA ExecutionKeepsFresh ==
    ASSUME RouteInv, FreshInv, NEW t \in Thread, Answer(t) \/ Fail(t)
    PROVE  FreshInv'
<1>0. /\ ClerkTypes /\ TypeOK /\ th[t] \in Call /\ th[t].acked \subseteq acked
      /\ shard \in [Group -> [Status : {"Absent", "Serving", "Frozen"},
                              Data : SUBSET Client]]
  BY DEF RouteInv, FreshInv, ClerkTypes, TypeOK
<1>1. UNCHANGED <<published, acked>>
  BY DEF Answer, Fail
<1>2. th[t].gid \in Group /\ th[t].gid # NoGroup
  BY <1>0, ReplyEffect, GroupAssumption
<1>3. /\ \A g \in Group : shard'[g].Status = shard[g].Status
      /\ \A g \in Group : shard[g].Data \subseteq shard'[g].Data
      /\ shard' \in [Group -> [Status : {"Absent", "Serving", "Frozen"},
                               Data : SUBSET Client]]
  <2>1. Execute(t) \/ UNCHANGED shard
    BY DEF Answer, Fail
  <2> QED BY <1>0, <1>2, <2>1, ExecuteType DEF Execute
<1>4. Owner' = Owner /\ Owner \in Group \cup {NoGroup}
  <2>1. Installed' <=> Installed
    BY <1>0, <1>1, <1>3, OwnerType DEF Installed, Moves, Source, Target
  <2> QED BY <1>0, <1>1, <2>1, OwnerType DEF Owner, Home, Target
<1>5. Held \subseteq Held'
  BY <1>3, <1>4 DEF Held
<1>6. /\ th' \in [Thread -> Call] /\ \A u \in Thread : u # t => th'[u] = th[u]
      /\ th'[t].acked = th[t].acked /\ th'[t].op = th[t].op
      /\ th'[t].err = "OK" =>
           /\ Answer(t) /\ Serves(th[t].gid, th[t].op)
           /\ th'[t].op = "Get" => th'[t].value = shard[th[t].gid].Data
  BY <1>0, ReplyEffect
<1>7. th'[t].err = "OK" => th[t].gid = Owner /\ Held = shard[Owner].Data
  BY <1>2, <1>6 DEF FreshInv, Serves, Held
<1>8. Promised' \subseteq Held'
  <2>1. SUFFICES ASSUME th'[t].op = "Put", th'[t].err = "OK" PROVE t \in Held'
    BY <1>1, <1>5, <1>6 DEF FreshInv, Promised
  <2>2. Execute(t) /\ th[t].op = "Put" /\ Serves(th[t].gid, "Put")
    BY <1>6, <2>1 DEF Answer, Serves
  <2>3. t \in shard'[th[t].gid].Data
    BY <1>0, <1>2, <2>2 DEF Execute
  <2> QED BY <1>2, <1>4, <1>7, <2>1, <2>3 DEF Held
<1>9. ReadIsFresh'
  <2>1. th'[t].op = "Get" /\ th'[t].err = "OK" => th'[t].acked \subseteq th'[t].value
    BY <1>0, <1>6, <1>7 DEF FreshInv, Promised
  <2> QED BY <1>6, <2>1 DEF FreshInv, ReadIsFresh
<1>10. \A u \in Thread : th'[u].acked \subseteq acked'
  BY <1>1, <1>6 DEF FreshInv
<1>11. \A g \in Group : shard'[g].Status = "Serving" => g = Owner'
  BY <1>3, <1>4 DEF FreshInv
<1> QED BY <1>8, <1>9, <1>10, <1>11 DEF FreshInv

\* The controller hands the copy over before it publishes the new group, and
\* after the old one has stopped to serve.
LEMMA WorldKeepsFresh ==
    ASSUME PlanKeepsShard, RouteInv, FreshInv,
           \/ Migrate \/ OtherPut
           \/ \E g \in Group : ShutDown(g) \/ Elect(g)
    PROVE  FreshInv'
<1>0. /\ TypeOK /\ published \in 0..Len(Plan)
      /\ shard \in [Group -> [Status : {"Absent", "Serving", "Frozen"},
                              Data : SUBSET Client]]
  BY DEF RouteInv, ClerkTypes, TypeOK
<1>1. UNCHANGED th /\ acked \subseteq acked'
  BY DEF Migrate, Publish, Freeze, Install, OtherPut, ShutDown, Elect
<1>2. ReadIsFresh' /\ \A u \in Thread : th'[u].acked \subseteq acked'
  BY <1>1 DEF FreshInv, ReadIsFresh
<1>3. Moves => Target # NoGroup
  <2>1. SUFFICES ASSUME Moves PROVE Target # NoGroup
    OBVIOUS
  <2>2. published \in 1..Len(Plan) - 1 /\ Source # Target
    BY <2>1 DEF Moves
  <2> QED BY <2>2 DEF PlanKeepsShard, Source, Target
<1>4. CASE Publish
  <2>1. published' = published + 1 /\ published' \in 1..Len(Plan)
        /\ UNCHANGED <<shard, acked>>
    BY <1>0, <1>4, Zeros DEF Publish
  <2>2. Home' = Owner
    <3>1. CASE Moves
      <4>1. Installed
        BY <1>3, <1>4, <3>1 DEF Publish, Installed
      <4>2. published # 0
        BY <3>1 DEF Moves
      <4> QED BY <1>0, <2>1, <4>1, <4>2 DEF Owner, Home, Target
    <3>2. CASE ~Moves
      <4>1. Owner = Home
        BY <3>2 DEF Owner, Installed
      <4>2. CASE published = 0
        BY <2>1, <4>1, <4>2 DEF Home
      <4>3. CASE published # 0
        <5>1. Source = Target
          BY <1>0, <1>4, <3>2, <4>3, Zeros DEF Moves, Publish
        <5>2. Home = Source /\ Home' = Target
          BY <1>0, <2>1, <4>3 DEF Home, Source, Target
        <5> QED BY <4>1, <5>1, <5>2
      <4> QED BY <4>2, <4>3
    <3> QED BY <3>1, <3>2
  <2>3. ~Installed'
    <3>1. SUFFICES ASSUME Installed' PROVE FALSE
      OBVIOUS
    <3>2. /\ published' \in 1..Len(Plan) - 1 /\ Source' # Target'
          /\ Target' # NoGroup /\ shard[Target'].Status = "Serving"
      BY <2>1, <3>1 DEF Installed, Moves
    <3>3. Target' \in Group
      BY <3>2, PlanAssumption DEF Target
    <3>4. Home' = Source'
      BY <3>2 DEF Home, Source
    <3> QED BY <2>2, <3>2, <3>3, <3>4 DEF FreshInv
  <2>4. Owner' = Owner /\ Held' = Held
    BY <2>1, <2>2, <2>3 DEF Owner, Held
  <2> QED BY <1>1, <1>2, <2>1, <2>4 DEF FreshInv, Promised
<1>5. CASE Freeze
  <2>1. /\ Moves /\ Source \in Group /\ shard[Source].Status = "Serving"
        /\ UNCHANGED <<published, acked>>
        /\ shard' = [shard EXCEPT ![Source].Status = "Frozen"]
    BY <1>0, <1>5, OwnerType DEF Freeze
  <2>2. Owner = Source
    BY <2>1 DEF FreshInv
  <2>3. ~Installed /\ Target \in Group /\ Source # Target /\ Home = Source
    BY <1>0, <1>3, <2>1, <2>2, OwnerType DEF Owner, Moves
  <2>4. /\ \A g \in Group : shard'[g].Data = shard[g].Data
        /\ \A g \in Group : shard'[g].Status = "Serving" => shard[g].Status = "Serving"
    BY <1>0, <2>1
  <2>5. Target' = Target /\ Home' = Home
    BY <2>1 DEF Target, Home
  <2>6. ~Installed'
    BY <1>3, <2>1, <2>3, <2>4, <2>5 DEF Installed
  <2>7. Owner' = Owner
    BY <2>2, <2>3, <2>5, <2>6 DEF Owner
  <2>8. Held' = Held
    BY <2>1, <2>2, <2>4, <2>7 DEF Held
  <2> QED BY <1>1, <1>2, <2>1, <2>4, <2>7, <2>8 DEF FreshInv, Promised
<1>6. CASE Install
  <2>1. /\ Moves /\ Target \in Group /\ shard[Target].Status # "Serving"
        /\ Source # NoGroup => Source \in Group /\ shard[Source].Status = "Frozen"
        /\ UNCHANGED <<published, acked>>
        /\ shard' = [shard EXCEPT ![Target] =
                       [Status |-> "Serving",
                        Data |-> IF Source = NoGroup THEN {} ELSE shard[Source].Data]]
    BY <1>0, <1>6, OwnerType DEF Install
  <2>2. ~Installed /\ Owner = Source /\ Source # Target
    BY <1>0, <2>1, OwnerType DEF Installed, Owner, Moves
  <2>3. Target' = Target /\ Moves'
    BY <2>1 DEF Target, Source, Moves
  <2>4. shard'[Target].Status = "Serving" /\ shard'[Target].Data = Held
    BY <1>0, <2>1, <2>2 DEF Held
  <2>5. Installed'
    BY <1>3, <2>1, <2>3, <2>4 DEF Installed
  <2>6. Owner' = Target
    BY <2>3, <2>5 DEF Owner
  <2>7. Held' = Held
    BY <1>3, <2>1, <2>4, <2>6 DEF Held
  <2>8. \A g \in Group : shard'[g].Status = "Serving" => g = Owner'
    <3>1. \A g \in Group : g # Target => shard'[g] = shard[g]
      BY <1>0, <2>1
    <3>2. \A g \in Group : shard[g].Status # "Serving"
      <4>1. ASSUME NEW g \in Group, shard[g].Status = "Serving" PROVE FALSE
        <5>1. g = Source
          BY <2>2, <4>1 DEF FreshInv
        <5>2. Source # NoGroup
          BY <4>1, <5>1, GroupAssumption
        <5> QED BY <2>1, <4>1, <5>1, <5>2
      <4> QED BY <4>1
    <3> QED BY <2>6, <3>1, <3>2
  <2> QED BY <1>1, <1>2, <2>1, <2>7, <2>8 DEF FreshInv, Promised
<1>7. CASE OtherPut
  <2>1. /\ published = Len(Plan) /\ Source # NoGroup /\ published' = published
        /\ shard' = [shard EXCEPT ![Source].Data = @ \cup {"other"}]
        /\ acked' = acked \cup {"other"}
    BY <1>7 DEF OtherPut
  <2>2. ~Moves /\ ~Moves' /\ Home = Source /\ Home' = Source /\ Source \in Group
    BY <1>0, <2>1, Zeros, PlanAssumption DEF Moves, Home, Source
  <2>3. Owner = Source /\ Owner' = Source
    BY <2>2 DEF Owner, Installed
  <2>4. /\ \A g \in Group : shard'[g].Status = shard[g].Status
        /\ shard'[Source].Data = shard[Source].Data \cup {"other"}
    BY <1>0, <2>1, <2>2
  <2>5. Held' = Held \cup {"other"}
    BY <2>1, <2>2, <2>3, <2>4 DEF Held
  <2>6. Promised' = Promised \cup {"other"}
    BY <1>1, <2>1 DEF Promised
  <2> QED BY <1>2, <2>3, <2>4, <2>5, <2>6 DEF FreshInv
<1>8. CASE UNCHANGED <<published, shard, acked>>
  <2>1. Owner' = Owner /\ Held' = Held /\ Promised' = Promised
    BY <1>1, <1>8 DEF Owner, Held, Home, Installed, Moves, Source, Target, Promised
  <2> QED BY <1>2, <1>8, <2>1 DEF FreshInv
<1>9. ASSUME NEW g \in Group, ShutDown(g) \/ Elect(g)
      PROVE  UNCHANGED <<published, shard, acked>>
  BY <1>9 DEF ShutDown, Elect
<1> QED BY <1>4, <1>5, <1>6, <1>7, <1>8, <1>9 DEF Migrate

\* The invariant holds at first.
LEMMA FreshInit == Init => FreshInv
<1> SUFFICES ASSUME Init PROVE FreshInv
  OBVIOUS
<1>1. Idle.err = "none" /\ Idle.acked = {}
  BY DEF Idle
<1>2. ~Installed /\ Home = Plan[1]
  BY DEF Init, Installed, Moves, Home
<1>3. Promised = {}
  BY <1>1 DEF Init, Promised
<1>4. \A g \in Group : shard[g].Status = "Serving" => g = Owner
  BY <1>2 DEF Init, Owner
<1> QED BY <1>1, <1>3, <1>4 DEF Init, FreshInv, ReadIsFresh

\* And every step keeps it.
LEMMA FreshNext ==
    ASSUME PlanKeepsShard
    PROVE  RouteInv /\ FreshInv /\ [Next]_vars => FreshInv'
<1> SUFFICES ASSUME RouteInv, FreshInv, [Next]_vars PROVE FreshInv'
  OBVIOUS
<1>1. CASE UNCHANGED vars
  <2>1. UNCHANGED <<published, shard, th, acked>>
    BY <1>1 DEF vars, world
  <2> QED BY <2>1 DEF FreshInv, ReadIsFresh, Promised, Held, Owner, Home, Installed, Moves,
                      Source, Target
<1>2. CASE Next
  BY <1>2, WorldKeepsFresh, LocalKeepsFresh, ExecutionKeepsFresh DEF Next, Step
<1> QED BY <1>1, <1>2

(* As long as no configuration leaves the shard to nobody, a Get that is   *)
(* answered OK sees every Put that was answered OK before it was called,   *)
(* through however many migrations, leaders and lost answers.              *)
THEOREM ReadsAreFresh ==
    ASSUME PlanKeepsShard
    PROVE  Spec => []ReadIsFresh
<1>1. RouteInv /\ FreshInv /\ [Next]_vars => FreshInv'
  BY FreshNext
<1>2. FreshInv => ReadIsFresh
  BY DEF FreshInv
<1> QED BY <1>1, <1>2, FreshInit, ClerkInvariant, PTL DEF Spec
=============================================================================
