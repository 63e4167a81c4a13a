------------------------ MODULE ShardMigrationProofs ------------------------
(***************************************************************************)
(* The safety of reconfiguration, for any number of controllers, groups,   *)
(* shards, configurations, takeovers and delayed requests.                 *)
(***************************************************************************)
EXTENDS ShardMigration, TLAPS, WellFoundedInduction

(***************************************************************************)
(* What is known of a migration.  Every fact about a group is a lower      *)
(* bound on the configuration number of its copy, which only grows, so     *)
(* that it stays true whatever arrives late.                               *)
(***************************************************************************)
Moving(r) == {s \in Shard : Source(r, s) # Target(r, s)}
Frozen(g, s, n) == shards[g][s].Status = "Frozen" /\ shards[g][s].ConfigNum = n
Fenced(g, s, n) == g # NoGroup => shards[g][s].ConfigNum >= n

Copied(r, s) ==
    /\ Fenced(Source(r, s), s, r.To.Num)
    /\ Fenced(Target(r, s), s, r.To.Num)
Dropped(r, s) ==
    Source(r, s) # NoGroup =>
        /\ shards[Source(r, s)][s].ConfigNum >= r.To.Num
        /\ ~Frozen(Source(r, s), s, r.To.Num)
Finished(r) == \A s \in Moving(r) : Copied(r, s) /\ Dropped(r, s)

UnderWay(r) == store.Value # None /\ store.Value.Pending = r
Published(r) == UnderWay(r) /\ store.Value.Current = r.To
Successive(r) == r \in MigrationRecord /\ r.To.Num = r.From.Num + 1

\* A request that no longer changes anything, whoever executes it when.
Spent(m) ==
    /\ shards[m.gid][m.shard].ConfigNum >= m.num
    /\ m.type = "Delete" => ~Frozen(m.gid, m.shard, m.num)

\* A request the migration r calls for.
Asks(m, r) ==
    /\ m.num = r.To.Num /\ m.shard \in Moving(r)
    /\ \/ m.type = "Freeze" /\ m.gid = Source(r, m.shard)
       \/ /\ m.type = "Install" /\ m.gid = Target(r, m.shard)
          /\ Fenced(Source(r, m.shard), m.shard, m.num)
          /\ IF Source(r, m.shard) = NoGroup THEN m.data = EmptyTransfer
             ELSE Frozen(Source(r, m.shard), m.shard, m.num) =>
                      m.data = shards[Source(r, m.shard)][m.shard].Data
       \/ m.type = "Delete" /\ m.gid = Source(r, m.shard) /\ Published(r)
Wanted(m) == \E r \in MigrationRecord : UnderWay(r) /\ Asks(m, r)
Harmless(m) == m.gid \in Group /\ (Spent(m) \/ Wanted(m))

(***************************************************************************)
(* What a controller knows.                                                *)
(***************************************************************************)
Created(c) == [Owner |-> c, Epoch |-> 1, Current |-> InitialConfig, Pending |-> None]

\* The record a compareAndSwap writes over the one it has read.
Legal(c, ct) ==
    LET now == store.Value IN
    \/ ct.after = "initialized"
    \/ ct.after = "elected" /\ now # None /\ ct.state = Elected(c)
    \/ /\ ct.after = "chosen" /\ now # None /\ now.Pending = None
       /\ \E next \in Configured :
            /\ next.Num = now.Current.Num + 1
            /\ ct.state = [now EXCEPT !.Pending = [From |-> now.Current, To |-> next]]
    \/ /\ ct.after = "published" /\ now # None /\ now.Pending # None
       /\ now.Current = now.Pending.From
       /\ \A s \in Moving(now.Pending) : Copied(now.Pending, s)
       /\ ct.state = [now EXCEPT !.Current = now.Pending.To]
    \/ /\ ct.after = "cleared" /\ now # None /\ now.Pending # None
       /\ now.Current = now.Pending.To
       /\ \A s \in Moving(now.Pending) : Dropped(now.Pending, s)
       /\ ct.state = [now EXCEPT !.Pending = None]

Writing(c, ct) ==
    /\ ct.state \in ControllerState /\ ct.state.Owner = c
    /\ ct.after \in Purpose
    /\ ct.after = "initialized" => ct.version = 0 /\ ct.state = Created(c)
    /\ ct.after = "published" => ct.state.Pending # None
    /\ ct.after = "cleared" => ct.state.Pending = None
    /\ ct.pc = "cas" /\ ct.version = store.Version => Legal(c, ct)

Migrating(c, ct) ==
    LET r == ct.state.Pending IN
    /\ ct.state \in ControllerState /\ ct.state.Owner = c /\ Successive(r)
    /\ UnderWay(r) \/ Finished(r)
    /\ ct.shard \in Moving(r) /\ Harmless(Request(ct))
    /\ ct.pc # "Delete" => ct.state.Current = r.From
    /\ ct.pc = "Delete" => ct.state.Current = r.To /\ (Published(r) \/ Finished(r))
    /\ ct.version = store.Version =>
         /\ store.Value = ct.state
         /\ \A s \in Moving(r) : s < ct.shard =>
              IF ct.pc = "Delete" THEN Dropped(r, s) ELSE Copied(r, s)

Controls(c, ct) ==
    /\ ct \in ControllerObject
    /\ ct.version <= store.Version
    /\ ct.pc \in {"cas", "readback"} => Writing(c, ct)
    /\ ct.pc = "confirm" => ct.state # None /\ ct.state.Pending # None
    /\ ct.pc = "choose" =>
         /\ ct.next # None
         /\ store.Value # None /\ store.Value.Owner = c /\ store.Value.Epoch = ct.epoch =>
                store.Value.Pending = None
    /\ ct.pc \in MigrationCall => Migrating(c, ct)

(***************************************************************************)
(* The copies of a shard.                                                  *)
(***************************************************************************)
Settled(config, s) ==
    \A g \in Group :
        /\ shards[g][s].ConfigNum <= config.Num
        /\ shards[g][s].Status = IF config.Shards[s] = g THEN "Serving" ELSE "Absent"

\* The stages a shard goes through when it moves.
Stages(r, s) ==
    LET a == Source(r, s)
        b == Target(r, s)
        n == r.To.Num
    IN
    /\ \A g \in Group \ {a, b} : shards[g][s].Status = "Absent" /\ shards[g][s].ConfigNum < n
    /\ a # NoGroup =>
         \/ shards[a][s].Status = "Serving" /\ shards[a][s].ConfigNum < n
         \/ Frozen(a, s, n)
         \/ shards[a][s].Status = "Absent" /\ shards[a][s].ConfigNum = n /\ Published(r)
    /\ b # NoGroup =>
         \/ shards[b][s].Status = "Absent" /\ shards[b][s].ConfigNum < n
         \/ shards[b][s].Status = "Serving" /\ shards[b][s].ConfigNum = n /\ Fenced(a, s, n)
    /\ Published(r) => Copied(r, s)

Shape(s) ==
    IF store.Value = None THEN Settled(InitialConfig, s)
    ELSE IF store.Value.Pending = None THEN Settled(store.Value.Current, s)
    ELSE IF s \in Moving(store.Value.Pending) THEN Stages(store.Value.Pending, s)
    ELSE Settled(store.Value.Pending.From, s)

\* The record of the kvsrv.
Recorded ==
    /\ store.Version = 0 <=> store.Value = None
    /\ store.Value # None /\ store.Value.Pending # None =>
         /\ Successive(store.Value.Pending)
         /\ store.Value.Current \in {store.Value.Pending.From, store.Value.Pending.To}

MigrationInv ==
    /\ TypeOK /\ Recorded
    /\ \A c \in Controller : Controls(c, ctl[c])
    /\ \A m \in sent : m.type \in MigrationCall => Harmless(m)
    /\ \A s \in Shard : Shape(s)

----------------------------------------------------------------------------
(***************************************************************************)
(* The operators of the model.                                             *)
(***************************************************************************)
\* The first shard of a set is one of them, and the first.
LEMMA FirstShard ==
    ASSUME NEW S, S \subseteq Nat, S # {}
    PROVE  First(S) \in S /\ \A t \in S : First(S) <= t
<1> DEFINE R == OpToRel(<, Nat)
<1>1. IsWellFoundedOn(R, Nat)
  BY NatLessThanWellFounded
<1>2. R = {ss \in Nat \X Nat : ss[1] < ss[2]}
  BY Zenon DEF OpToRel
<1> HIDE DEF R
<1>3. PICK x \in S : \A y \in S : ~(<<y, x>> \in R)
  BY <1>1, WFMin
<1>4. ASSUME NEW y \in S PROVE x <= y
  <2>1. <<y, x>> \in Nat \X Nat /\ ~(<<y, x>> \in {ss \in Nat \X Nat : ss[1] < ss[2]})
    BY <1>2, <1>3
  <2>2. ~(<<y, x>>[1] < <<y, x>>[2])
    BY <2>1
  <2> QED BY <2>2
<1> QED BY <1>4 DEF First

\* The shards and the groups of a migration.
LEMMA RecordType ==
    ASSUME NEW r \in MigrationRecord
    PROVE  /\ r.From \in Config /\ r.To \in Config
           /\ r.From.Num \in Nat /\ r.To.Num \in Nat /\ r.To.Num <= MaxNum
           /\ Moving(r) \subseteq Shard /\ Shard \subseteq Nat
           /\ \A s \in Shard : Source(r, s) \in Gid /\ Target(r, s) \in Gid
<1>1. r.From \in Config /\ r.To \in Config
  BY DEF MigrationRecord
<1>2. \A k \in Config : k.Num \in 1..MaxNum /\ k.Shards \in [Shard -> Gid]
  BY AssignmentAssumption, GroupAssumption DEF Config, Gid
<1>3. /\ r.From.Num \in 1..MaxNum /\ r.From.Shards \in [Shard -> Gid]
      /\ r.To.Num \in 1..MaxNum /\ r.To.Shards \in [Shard -> Gid]
  BY <1>1, <1>2
<1>4. Moving(r) \subseteq Shard /\ Shard \subseteq Nat
  BY ShardAssumption DEF Moving, Shard
<1> QED BY <1>1, <1>3, <1>4, BoundAssumption DEF Source, Target

\* Nothing is a transfer.
LEMMA EmptyType == EmptyTransfer \in Transfer
  BY DEF EmptyTransfer, Transfer

\* A controller that has returned.
LEMMA ReturnType ==
    ASSUME NEW ct \in ControllerObject
    PROVE  /\ Return(ct) \in ControllerObject /\ Return(ct).pc = "idle" /\ Return(ct).version = 0
           /\ Deposed(ct) \in ControllerObject /\ Deposed(ct).pc = "idle" /\ Deposed(ct).version = 0
<1>1. /\ IdleController \in ControllerObject /\ IdleController.pc = "idle"
      /\ IdleController.version = 0
  BY EmptyType, ShardAssumption, BoundAssumption DEF IdleController, ControllerObject
<1>2. ct.epoch \in 0..MaxEpoch /\ ct.initialized \in BOOLEAN /\ ct.deposed \in BOOLEAN
  BY DEF ControllerObject
<1>3. /\ Return(ct) \in ControllerObject /\ Return(ct).pc = "idle" /\ Return(ct).version = 0
  BY <1>1, <1>2 DEF Return, ControllerObject
<1> QED BY <1>3 DEF Deposed, ControllerObject

\* One that begins to write.
LEMMA SwapType ==
    ASSUME NEW ct \in ControllerObject, NEW version \in Nat, NEW state \in ControllerState,
           NEW after \in Purpose
    PROVE  LET new == compareAndSwap(ct, version, state, after) IN
           /\ new \in ControllerObject /\ new.pc = "cas" /\ new.version = version
           /\ new.state = state /\ new.after = after /\ new.epoch = ct.epoch
<1> DEFINE new == compareAndSwap(ct, version, state, after)
<1>0. 0 \in 0..NShards
  BY ShardAssumption
<1>1. new \in ControllerObject
  BY <1>0, EmptyType DEF compareAndSwap, ControllerObject
<1>2. /\ new.pc = "cas" /\ new.version = version
      /\ new.state = state /\ new.after = after /\ new.epoch = ct.epoch
  BY DEF compareAndSwap, ControllerObject
<1> QED BY <1>1, <1>2

\* One that reads the record afresh.
LEMMA AfreshType ==
    ASSUME NEW ct \in ControllerObject, NEW pc \in {"elect", "recover", "choose"}
    PROVE  /\ ReadAfresh(ct, pc) \in ControllerObject
           /\ ReadAfresh(ct, pc).pc = pc /\ ReadAfresh(ct, pc).version = 0
           /\ ReadAfresh(ct, pc).next = ct.next /\ ReadAfresh(ct, pc).epoch = ct.epoch
  BY DEF ReadAfresh, ControllerObject

----------------------------------------------------------------------------
(***************************************************************************)
(* What a controller knows after a step of its own.                        *)
(***************************************************************************)
\* Nothing is asked of a controller that reads the record next.
LEMMA RestingControls ==
    ASSUME NEW c, NEW ct \in ControllerObject,
           ct.pc \in {"idle", "elect", "recover"}, ct.version <= store.Version
    PROVE  Controls(c, ct)
  BY DEF Controls, MigrationCall

\* Or of one that returns.
LEMMA ReturnControls ==
    ASSUME store.Version \in Nat, NEW c, NEW ct \in ControllerObject
    PROVE  Controls(c, Return(ct)) /\ Controls(c, Deposed(ct))
<1>1. 0 <= store.Version
  OBVIOUS
<1> QED BY <1>1, ReturnType, RestingControls

\* The requests of a migration that is under way or finished are harmless.
LEMMA FreezeHarmless ==
    ASSUME NEW r \in MigrationRecord, UnderWay(r) \/ Finished(r), NEW m,
           m.type = "Freeze", m.num = r.To.Num, m.shard \in Moving(r),
           m.gid = Source(r, m.shard), m.gid # NoGroup
    PROVE  Harmless(m)
<1>1. m.gid \in Group
  BY RecordType DEF Gid
<1>2. CASE UnderWay(r)
  BY <1>1, <1>2 DEF Harmless, Wanted, Asks
<1>3. CASE Finished(r)
  BY <1>1, <1>3 DEF Harmless, Spent, Finished, Copied, Fenced
<1> QED BY <1>2, <1>3

\* An Install is, once the old copy is fenced and with what it then held.
LEMMA InstallHarmless ==
    ASSUME NEW r \in MigrationRecord, UnderWay(r) \/ Finished(r), NEW m,
           m.type = "Install", m.num = r.To.Num, m.shard \in Moving(r),
           m.gid = Target(r, m.shard), m.gid # NoGroup,
           Fenced(Source(r, m.shard), m.shard, m.num),
           IF Source(r, m.shard) = NoGroup THEN m.data = EmptyTransfer
           ELSE Frozen(Source(r, m.shard), m.shard, m.num) =>
                    m.data = shards[Source(r, m.shard)][m.shard].Data
    PROVE  Harmless(m)
<1>1. m.gid \in Group
  BY RecordType DEF Gid
<1>2. CASE UnderWay(r)
  BY <1>1, <1>2 DEF Harmless, Wanted, Asks
<1>3. CASE Finished(r)
  BY <1>1, <1>3 DEF Harmless, Spent, Finished, Copied, Fenced
<1> QED BY <1>2, <1>3

\* A Delete is, once the new configuration is published.
LEMMA DeleteHarmless ==
    ASSUME NEW r \in MigrationRecord, Published(r) \/ Finished(r), NEW m,
           m.type = "Delete", m.num = r.To.Num, m.shard \in Moving(r),
           m.gid = Source(r, m.shard), m.gid # NoGroup
    PROVE  Harmless(m)
<1>1. m.gid \in Group
  BY RecordType DEF Gid
<1>2. CASE Published(r)
  BY <1>1, <1>2 DEF Harmless, Wanted, Asks, Published
<1>3. CASE Finished(r)
  BY <1>1, <1>3 DEF Harmless, Spent, Finished, Dropped
<1> QED BY <1>2, <1>3

\* A controller that holds migration r, copies or deletes, and is at shard s.
Holds(c, ct, s) ==
    LET r == ct.state.Pending IN
    /\ ct \in ControllerObject /\ ct.version <= store.Version
    /\ ct.state \in ControllerState /\ ct.state.Owner = c /\ Successive(r)
    /\ UnderWay(r) \/ Finished(r)
    /\ s \in 1..NShards + 1
    /\ ct.version = store.Version => store.Value = ct.state

\* The copy loop goes on.
LEMMA CopyControls ==
    ASSUME NEW c, NEW ct, NEW s, Holds(c, ct, s),
           ct.state.Current = ct.state.Pending.From,
           ct.version = store.Version =>
               \A t \in Moving(ct.state.Pending) : t < s => Copied(ct.state.Pending, t)
    PROVE  Controls(c, CopyFrom(ct, s))
<1> DEFINE r == ct.state.Pending
           rest == {t \in s..NShards : Source(r, t) # Target(r, t)}
<1>0. /\ ct \in ControllerObject /\ r \in MigrationRecord /\ ct.version \in Nat
      /\ ct.state \in ControllerState /\ s \in Nat
  BY ShardAssumption DEF Holds, Successive, ControllerObject
<1>1. rest = {t \in Moving(r) : t >= s} /\ Shard \subseteq Nat
  BY ShardAssumption DEF Holds, Moving, Shard
<1>2. CASE rest = {}
  <2> DEFINE state == [ct.state EXCEPT !.Current = r.To]
             new == compareAndSwap(ct, ct.version, state, "published")
  <2>1. CopyFrom(ct, s) = new
    BY <1>2 DEF CopyFrom
  <2>2. /\ state \in ControllerState /\ state.Owner = c /\ state.Pending = r
        /\ state = [ct.state EXCEPT !.Current = r.To]
    BY <1>0, RecordType DEF ControllerState, Holds
  <2> HIDE DEF state
  <2>3. /\ new \in ControllerObject /\ new.pc = "cas" /\ new.version = ct.version
        /\ new.state = state /\ new.after = "published"
    <3>1. "published" \in Purpose
      BY DEF Purpose
    <3> QED BY <1>0, <2>2, <3>1, SwapType
  <2> HIDE DEF new
  <2>4. new.version = store.Version => Legal(c, new)
    <3>1. SUFFICES ASSUME ct.version = store.Version PROVE Legal(c, new)
      BY <2>3
    <3>2. store.Value = ct.state
      BY <3>1 DEF Holds
    <3>3. \A t \in Moving(r) : Copied(r, t)
      BY <1>1, <1>2, <3>1, ShardAssumption DEF Holds, Moving
    <3>4. ct.state # None /\ r # None
      BY <1>0, NoneAssumption
    <3> QED BY <2>2, <2>3, <3>2, <3>3, <3>4 DEF Legal
  <2>5. Writing(c, new)
    BY <1>0, <2>2, <2>3, <2>4, NoneAssumption DEF Writing, Purpose
  <2>6. Controls(c, new)
    BY <2>3, <2>5 DEF Controls, Holds, MigrationCall
  <2> QED BY <2>1, <2>6
<1>3. CASE rest # {}
  <2> DEFINE i == First(rest)
             new == [ct EXCEPT !.shard = i, !.data = EmptyTransfer, !.called = FALSE,
                               !.pc = IF Source(r, i) # NoGroup THEN "Freeze" ELSE "Install"]
             m == Request(new)
  <2>1. CopyFrom(ct, s) = new
    BY <1>3 DEF CopyFrom
  <2>2. i \in Moving(r) /\ i >= s /\ \A t \in Moving(r) : t >= s => i <= t
    BY <1>1, <1>3, FirstShard DEF Moving
  <2> HIDE DEF i
  <2>3. /\ new \in ControllerObject /\ new.version = ct.version /\ new.state = ct.state
        /\ new.shard = i /\ new.data = EmptyTransfer
        /\ new.pc = IF Source(r, i) # NoGroup THEN "Freeze" ELSE "Install"
    <3>1. i \in 0..NShards
      BY <2>2, ShardAssumption DEF Moving, Shard
    <3> QED BY <1>0, <3>1, EmptyType DEF ControllerObject, MigrationCall
  <2> HIDE DEF new
  <2>4. /\ m.type = new.pc /\ m.shard = i /\ m.num = r.To.Num /\ m.data = EmptyTransfer
        /\ m.gid = IF new.pc = "Install" THEN Target(r, i) ELSE Source(r, i)
    BY <2>3 DEF Request
  <2> HIDE DEF m
  <2>5. Harmless(m)
    <3>1. CASE Source(r, i) # NoGroup
      BY <1>0, <2>2, <2>3, <2>4, <3>1, FreezeHarmless DEF Holds
    <3>2. CASE Source(r, i) = NoGroup
      BY <1>0, <2>2, <2>3, <2>4, <3>2, InstallHarmless DEF Holds, Moving, Fenced
    <3> QED BY <3>1, <3>2
  <2>6. new.version = store.Version =>
          store.Value = ct.state /\ \A t \in Moving(r) : t < i => Copied(r, t)
    BY <1>0, <1>1, <2>2, <2>3 DEF Holds, Moving
  <2>7. Migrating(c, new)
    BY <2>2, <2>3, <2>5, <2>6 DEF Migrating, Holds, m
  <2>8. Controls(c, new)
    BY <2>3, <2>7 DEF Controls, Holds
  <2> QED BY <2>1, <2>8
<1> QED BY <1>2, <1>3

\* The deletion loop goes on.
LEMMA DeleteControls ==
    ASSUME NEW c, NEW ct, NEW s, Holds(c, ct, s),
           ct.state.Current = ct.state.Pending.To,
           Published(ct.state.Pending) \/ Finished(ct.state.Pending),
           ct.version = store.Version =>
               \A t \in Moving(ct.state.Pending) : t < s => Dropped(ct.state.Pending, t)
    PROVE  Controls(c, DeleteFrom(ct, s))
<1> DEFINE r == ct.state.Pending
           rest == {t \in s..NShards : /\ Source(r, t) # NoGroup
                                       /\ Source(r, t) # Target(r, t)}
<1>0. /\ ct \in ControllerObject /\ r \in MigrationRecord /\ ct.version \in Nat
      /\ ct.state \in ControllerState /\ s \in Nat
  BY ShardAssumption DEF Holds, Successive, ControllerObject
<1>1. rest = {t \in Moving(r) : t >= s /\ Source(r, t) # NoGroup} /\ Shard \subseteq Nat
  BY ShardAssumption DEF Holds, Moving, Shard
<1>2. CASE rest = {}
  <2> DEFINE state == [ct.state EXCEPT !.Pending = None]
             new == compareAndSwap(ct, ct.version, state, "cleared")
  <2>1. DeleteFrom(ct, s) = new
    BY <1>2 DEF DeleteFrom
  <2>2. /\ state \in ControllerState /\ state.Owner = c /\ state.Pending = None
        /\ state = [ct.state EXCEPT !.Pending = None]
    BY <1>0, RecordType DEF ControllerState, Holds
  <2> HIDE DEF state
  <2>3. /\ new \in ControllerObject /\ new.pc = "cas" /\ new.version = ct.version
        /\ new.state = state /\ new.after = "cleared"
    <3>1. "cleared" \in Purpose
      BY DEF Purpose
    <3> QED BY <1>0, <2>2, <3>1, SwapType
  <2> HIDE DEF new
  <2>4. new.version = store.Version => Legal(c, new)
    <3>1. SUFFICES ASSUME ct.version = store.Version PROVE Legal(c, new)
      BY <2>3
    <3>2. store.Value = ct.state
      BY <3>1 DEF Holds
    <3>3. \A t \in Moving(r) : Dropped(r, t)
      BY <1>1, <1>2, <3>1, ShardAssumption DEF Holds, Moving, Dropped
    <3>4. ct.state # None /\ r # None
      BY <1>0, NoneAssumption
    <3> QED BY <2>2, <2>3, <3>2, <3>3, <3>4 DEF Legal
  <2>5. Writing(c, new)
    BY <1>0, <2>2, <2>3, <2>4, NoneAssumption DEF Writing, Purpose
  <2>6. Controls(c, new)
    BY <2>3, <2>5 DEF Controls, Holds, MigrationCall
  <2> QED BY <2>1, <2>6
<1>3. CASE rest # {}
  <2> DEFINE i == First(rest)
             new == [ct EXCEPT !.pc = "Delete", !.shard = i, !.called = FALSE]
             m == Request(new)
  <2>1. DeleteFrom(ct, s) = new
    BY <1>3 DEF DeleteFrom
  <2>2. /\ i \in Moving(r) /\ i >= s /\ Source(r, i) # NoGroup
        /\ \A t \in Moving(r) : t >= s /\ Source(r, t) # NoGroup => i <= t
    BY <1>1, <1>3, FirstShard DEF Moving
  <2> HIDE DEF i
  <2>3. /\ new \in ControllerObject /\ new.version = ct.version /\ new.state = ct.state
        /\ new.shard = i /\ new.pc = "Delete"
    <3>1. i \in 0..NShards
      BY <2>2, ShardAssumption DEF Moving, Shard
    <3> QED BY <1>0, <3>1 DEF ControllerObject, MigrationCall
  <2> HIDE DEF new
  <2>4. /\ m.type = "Delete" /\ m.shard = i /\ m.num = r.To.Num /\ m.gid = Source(r, i)
    BY <2>3 DEF Request
  <2> HIDE DEF m
  <2>5. Harmless(m)
    BY <1>0, <2>2, <2>4, DeleteHarmless
  <2>6. new.version = store.Version =>
          store.Value = ct.state /\ \A t \in Moving(r) : t < i => Dropped(r, t)
    BY <1>0, <1>1, <2>2, <2>3 DEF Holds, Moving, Dropped
  <2>7. Migrating(c, new)
    BY <2>2, <2>3, <2>5, <2>6 DEF Migrating, Holds, m
  <2>8. Controls(c, new)
    BY <2>3, <2>7 DEF Controls, Holds
  <2> QED BY <2>1, <2>8
<1> QED BY <1>2, <1>3

\* What is known depends on the record and on the copies of the shards only.
LEMMA SameKnowledge ==
    ASSUME UNCHANGED <<store, shards>>
    PROVE  /\ \A c, ct : Controls(c, ct) => Controls(c, ct)'
           /\ \A m : Harmless(m) => Harmless(m)'
           /\ \A s : Shape(s) => Shape(s)'
           /\ Recorded => Recorded'
<1>1. \A m : Harmless(m) <=> Harmless(m)'
  BY DEF Harmless, Spent, Wanted, UnderWay, Asks, Published, Frozen, Fenced
<1>2. \A r : /\ UnderWay(r) <=> UnderWay(r)'
             /\ Published(r) <=> Published(r)'
             /\ Finished(r) <=> Finished(r)'
             /\ \A s : (Copied(r, s) <=> Copied(r, s)') /\ (Dropped(r, s) <=> Dropped(r, s)')
  BY DEF UnderWay, Published, Finished, Copied, Dropped, Fenced, Frozen
<1>3. \A c, ct : Legal(c, ct) => Legal(c, ct)'
  BY <1>2 DEF Legal, Elected
<1>4. \A c, ct : Writing(c, ct) => Writing(c, ct)'
  BY <1>3 DEF Writing
<1>5. \A c, ct : Migrating(c, ct) => Migrating(c, ct)'
  BY <1>1, <1>2 DEF Migrating
<1>6. \A s : Shape(s) => Shape(s)'
  BY <1>2 DEF Shape, Settled, Stages, Frozen, Fenced
<1>7. \A c, ct : Controls(c, ct) => Controls(c, ct)'
  BY <1>4, <1>5 DEF Controls
<1> QED BY <1>1, <1>6, <1>7 DEF Recorded

\* The types of what a controller holds.
LEMMA ControlsType ==
    ASSUME NEW c, NEW ct, Controls(c, ct)
    PROVE  /\ ct \in ControllerObject
           /\ ct.pc \in {"cas", "readback"} => ct.state # None /\ ct.after # None
           /\ ct.pc \in MigrationCall \union {"confirm"} =>
                  ct.state # None /\ ct.state.Pending # None
           /\ ct.pc = "choose" => ct.next # None
  BY NoneAssumption DEF Controls, Writing, Migrating, Successive

\* A step of one controller, which may send a request.
LEMMA ControllerAlone ==
    ASSUME MigrationInv, NEW c \in Controller, NEW ct, Controls(c, ct), Becomes(c, ct),
           UNCHANGED <<store, shards, clients>>,
           \A m \in sent' : m \in sent \/ (m \in Messages /\ Harmless(m))
    PROVE  MigrationInv'
<1>1. ctl \in [Controller -> ControllerObject]
  BY DEF MigrationInv, TypeOK
<1>2. ctl' \in [Controller -> ControllerObject] /\ ctl'[c] = ct
      /\ \A d \in Controller : d # c => ctl'[d] = ctl[d]
  BY <1>1, ControlsType DEF Becomes
<1>3. \A d \in Controller : Controls(d, ctl'[d])
  BY <1>2 DEF MigrationInv
<1>4. \A d \in Controller : Controls(d, ctl[d])'
  <2>1. ASSUME NEW d \in Controller PROVE Controls(d, ctl[d])'
    <3>1. PICK x : x = ctl'[d]
      OBVIOUS
    <3>2. Controls(d, x)'
      BY <1>3, <3>1, SameKnowledge
    <3> QED BY <3>1, <3>2
  <2> QED BY <2>1
<1>5. TypeOK'
  <2>1. \A d \in Controller :
          /\ ctl'[d].pc \in {"cas", "readback"} => ctl'[d].state # None /\ ctl'[d].after # None
          /\ ctl'[d].pc \in MigrationCall \union {"confirm"} =>
                 ctl'[d].state # None /\ ctl'[d].state.Pending # None
          /\ ctl'[d].pc = "choose" => ctl'[d].next # None
    BY <1>3, ControlsType
  <2>2. \A m \in sent' : m \in Messages
    BY DEF MigrationInv, TypeOK
  <2> QED BY <1>2, <2>1, <2>2 DEF MigrationInv, TypeOK
<1>6. \A m \in sent' : m.type \in MigrationCall => Harmless(m)'
  BY SameKnowledge DEF MigrationInv
<1>7. Recorded' /\ \A s \in Shard : Shape(s)'
  BY SameKnowledge DEF MigrationInv
<1> QED BY <1>4, <1>5, <1>6, <1>7 DEF MigrationInv

----------------------------------------------------------------------------
(***************************************************************************)
(* Steps of a controller that change nothing but what it knows.            *)
(***************************************************************************)
\* Where compareAndSwap leads.
LEMMA SwapOutcome ==
    ASSUME NEW ct \in ControllerObject, ct.state \in ControllerState, ct.after \in Purpose
    PROVE  /\ Failed(ct) \in ControllerObject /\ Failed(ct).pc \in {"idle", "elect"}
           /\ Failed(ct).version = 0
           /\ Succeeded(ct) \in ControllerObject
           /\ \/ Succeeded(ct).pc \in {"idle", "recover"} /\ Succeeded(ct).version = 0
              \/ /\ Succeeded(ct).pc = "choose" /\ Succeeded(ct).version = 0
                 /\ ct.after = "cleared" /\ Succeeded(ct).next # None
              \/ /\ Succeeded(ct).pc = "confirm" /\ Succeeded(ct).version = ct.version
                 /\ ct.after = "published" /\ Succeeded(ct).state = ct.state
<1>0. ct.state.Epoch \in 0..MaxEpoch
  BY BoundAssumption DEF ControllerState
<1>1. /\ Failed(ct) \in ControllerObject /\ Failed(ct).pc \in {"idle", "elect"}
      /\ Failed(ct).version = 0
  BY ReturnType, AfreshType DEF Failed
<1>2. CASE ct.after = "initialized"
  <2> DEFINE x == [ct EXCEPT !.epoch = ct.state.Epoch, !.initialized = TRUE]
  <2>1. x \in ControllerObject
    BY <1>0 DEF ControllerObject
  <2>2. Succeeded(ct) = Return(x)
    BY <1>2 DEF Succeeded
  <2> HIDE DEF x
  <2> QED BY <1>1, <2>1, <2>2, ReturnType
<1>3. CASE ct.after = "elected"
  <2> DEFINE x == [ct EXCEPT !.epoch = ct.state.Epoch]
  <2>1. x \in ControllerObject
    BY <1>0 DEF ControllerObject
  <2>2. Succeeded(ct) = ReadAfresh(x, "recover")
    BY <1>3 DEF Succeeded
  <2> HIDE DEF x
  <2> QED BY <1>1, <2>1, <2>2, AfreshType
<1>4. CASE ct.after = "chosen"
  <2> DEFINE x == [ct EXCEPT !.next = None]
  <2>1. x \in ControllerObject
    BY DEF ControllerObject
  <2>2. Succeeded(ct) = ReadAfresh(x, "recover")
    BY <1>4 DEF Succeeded
  <2> HIDE DEF x
  <2> QED BY <1>1, <2>1, <2>2, AfreshType
<1>5. CASE ct.after = "published"
  <2> DEFINE x == [ct EXCEPT !.pc = "confirm"]
  <2>1. x \in ControllerObject /\ x.pc = "confirm" /\ x.version = ct.version /\ x.state = ct.state
    BY DEF ControllerObject
  <2>2. Succeeded(ct) = x
    BY <1>5 DEF Succeeded
  <2> HIDE DEF x
  <2> QED BY <1>1, <1>5, <2>1, <2>2
<1>6. CASE ct.after = "cleared"
  <2>1. Succeeded(ct) = IF ct.next = None THEN Return(ct) ELSE ReadAfresh(ct, "choose")
    BY <1>6 DEF Succeeded, Recovered
  <2> QED BY <1>1, <1>6, <2>1, ReturnType, AfreshType
<1> QED BY <1>2, <1>3, <1>4, <1>5, <1>6 DEF Purpose

\* Types that every step needs.
LEMMA InvTypes ==
    ASSUME MigrationInv, NEW c \in Controller
    PROVE  /\ Controls(c, ctl[c]) /\ ctl[c] \in ControllerObject /\ TypeOK /\ Recorded
           /\ store.Version \in Nat /\ store.Value \in ControllerState \cup {None}
           /\ ctl[c].version \in Nat /\ ctl[c].version <= store.Version
  BY DEF MigrationInv, TypeOK, Controls, ControllerObject

\* The beginnings of a call.
LEMMA BeginStep ==
    ASSUME MigrationInv, NEW c \in Controller,
           InitConfig(c) \/ \E next \in Configured \union {None} : Call(c, next)
    PROVE  MigrationInv'
<1>0. UNCHANGED <<store, shards, sent, clients>>
  BY DEF InitConfig, Call
<1>1. CASE InitConfig(c)
  <2> DEFINE new == compareAndSwap(ctl[c], 0, Created(c), "initialized")
  <2>1. Becomes(c, new)
    BY <1>1 DEF InitConfig, Created
  <2>2. Created(c) \in ControllerState /\ Created(c).Owner = c
    BY BoundAssumption DEF Created, ControllerState, InitialConfig, Config
  <2>3. "initialized" \in Purpose /\ 0 \in Nat
    BY DEF Purpose
  <2>4. /\ new \in ControllerObject /\ new.pc = "cas" /\ new.version = 0
        /\ new.state = Created(c) /\ new.after = "initialized"
    BY <2>2, <2>3, InvTypes, SwapType
  <2> HIDE DEF new
  <2>5. Writing(c, new)
    BY <2>2, <2>3, <2>4 DEF Writing, Legal
  <2>6. Controls(c, new)
    BY <2>4, <2>5, InvTypes DEF Controls, MigrationCall
  <2> QED BY <1>0, <2>1, <2>6, ControllerAlone
<1>2. ASSUME NEW next \in Configured \union {None}, Call(c, next) PROVE MigrationInv'
  <2>1. PICK new \in {[ctl[c] EXCEPT !.pc = "recover", !.next = next], Deposed(ctl[c]),
                      [ctl[c] EXCEPT !.pc = "elect", !.initialized = TRUE, !.next = next]} :
          Becomes(c, new)
    BY <1>2 DEF Call
  <2>2. Controls(c, new)
    <3>1. CASE new = Deposed(ctl[c])
      BY <3>1, InvTypes, ReturnControls
    <3>2. CASE new # Deposed(ctl[c])
      <4>1. /\ new \in ControllerObject /\ new.pc \in {"elect", "recover"}
            /\ new.version = ctl[c].version
        BY <2>1, <3>2, InvTypes DEF ControllerObject
      <4> QED BY <4>1, InvTypes, RestingControls
    <3> QED BY <3>1, <3>2
  <2> QED BY <1>0, <2>1, <2>2, ControllerAlone
<1> QED BY <1>1, <1>2

\* A candidate reads the record.
LEMMA ElectStep ==
    ASSUME MigrationInv, NEW c \in Controller, ensureLeadership(c)
    PROVE  MigrationInv'
<1>0. UNCHANGED <<store, shards, sent, clients>>
  BY DEF ensureLeadership
<1>1. CASE Becomes(c, Deposed(ctl[c]))
  BY <1>0, <1>1, InvTypes, ReturnControls, ControllerAlone
<1>2. CASE /\ store.Value # None /\ store.Value.Epoch < MaxEpoch
           /\ Becomes(c, compareAndSwap(ctl[c], store.Version, Elected(c), "elected"))
  <2> DEFINE new == compareAndSwap(ctl[c], store.Version, Elected(c), "elected")
  <2>1. store.Value \in ControllerState
    BY <1>2, InvTypes
  <2>2. Elected(c) \in ControllerState /\ Elected(c).Owner = c
    <3>1. store.Value.Epoch \in 1..MaxEpoch /\ store.Value.Epoch + 1 \in 1..MaxEpoch
      BY <1>2, <2>1, BoundAssumption DEF ControllerState
    <3>2. Elected(c).Owner = c
      BY <2>1 DEF Elected, ControllerState
    <3> QED BY <2>1, <3>1, <3>2 DEF Elected, ControllerState
  <2>3. "elected" \in Purpose
    BY DEF Purpose
  <2>4. /\ new \in ControllerObject /\ new.pc = "cas" /\ new.version = store.Version
        /\ new.state = Elected(c) /\ new.after = "elected"
    BY <2>2, <2>3, InvTypes, SwapType
  <2> HIDE DEF new
  <2>5. Legal(c, new)
    BY <1>2, <2>4 DEF Legal
  <2>6. Writing(c, new)
    BY <2>2, <2>3, <2>4, <2>5 DEF Writing
  <2>7. Controls(c, new)
    BY <2>4, <2>6, InvTypes DEF Controls, MigrationCall
  <2>8. Becomes(c, new)
    BY <1>2 DEF new
  <2> QED BY <1>0, <2>7, <2>8, ControllerAlone
<1> QED BY <1>1, <1>2 DEF ensureLeadership

\* A write that may have been executed is looked up.
LEMMA ReadBackStep ==
    ASSUME MigrationInv, NEW c \in Controller, ReadBack(c)
    PROVE  MigrationInv'
<1> DEFINE ct == ctl[c]
<1>0. /\ UNCHANGED <<store, shards, sent, clients>> /\ ct.pc = "readback"
      /\ Becomes(c, IF store.Value = ct.state THEN Succeeded(ct) ELSE Failed(ct))
  BY DEF ReadBack
<1>1. /\ ct \in ControllerObject /\ Writing(c, ct) /\ ct.state \in ControllerState
      /\ ct.after \in Purpose /\ 0 <= store.Version /\ ct.version <= store.Version
  BY <1>0, InvTypes DEF Controls, Writing
<1> HIDE DEF ct
<1>2. CASE store.Value # ct.state
  <2>1. Controls(c, Failed(ct))
    BY <1>1, SwapOutcome, RestingControls
  <2> QED BY <1>0, <1>2, <2>1, ControllerAlone
<1>3. CASE store.Value = ct.state
  <2>1. ct.state # None
    BY <1>1, NoneAssumption
  <2>2. Controls(c, Succeeded(ct))
    <3>1. CASE Succeeded(ct).pc \in {"idle", "recover"} /\ Succeeded(ct).version = 0
      BY <1>1, <3>1, SwapOutcome, RestingControls
    <3>2. CASE /\ Succeeded(ct).pc = "choose" /\ Succeeded(ct).version = 0
               /\ ct.after = "cleared" /\ Succeeded(ct).next # None
      BY <1>1, <1>3, <3>2, SwapOutcome DEF Controls, Writing, MigrationCall
    <3>3. CASE /\ Succeeded(ct).pc = "confirm" /\ Succeeded(ct).version = ct.version
               /\ ct.after = "published" /\ Succeeded(ct).state = ct.state
      BY <1>1, <2>1, <3>3, SwapOutcome DEF Controls, Writing, MigrationCall
    <3> QED BY <1>1, <3>1, <3>2, <3>3, SwapOutcome
  <2> QED BY <1>0, <1>3, <2>2, ControllerAlone
<1> QED BY <1>2, <1>3

\* The controller reads the record and takes a pending migration up.
LEMMA RecoverStep ==
    ASSUME MigrationInv, NEW c \in Controller, recoverPending(c)
    PROVE  MigrationInv'
<1>0. UNCHANGED <<store, shards, sent, clients>>
  BY DEF recoverPending
<1>1. CASE ~Owned(c)
  <2>1. Becomes(c, Deposed(ctl[c]))
    BY <1>1 DEF recoverPending
  <2> QED BY <1>0, <2>1, InvTypes, ReturnControls, ControllerAlone
<1>2. CASE Owned(c) /\ store.Value.Pending = None
  <2>1. Becomes(c, Recovered(ctl[c]))
    BY <1>2 DEF recoverPending
  <2>2. Controls(c, Recovered(ctl[c]))
    <3>1. CASE ctl[c].next = None
      BY <3>1, InvTypes, ReturnControls DEF Recovered
    <3>2. CASE ctl[c].next # None
      <4> DEFINE new == ReadAfresh(ctl[c], "choose")
      <4>1. /\ new \in ControllerObject /\ new.pc = "choose" /\ new.version = 0
            /\ new.next # None
        BY <3>2, InvTypes, AfreshType
      <4> HIDE DEF new
      <4>2. Controls(c, new)
        BY <1>2, <4>1, InvTypes DEF Controls, MigrationCall
      <4> QED BY <3>2, <4>2 DEF Recovered, new
    <3> QED BY <3>1, <3>2
  <2> QED BY <1>0, <2>1, <2>2, ControllerAlone
<1>3. CASE Owned(c) /\ store.Value.Pending # None
  <2> DEFINE ct == [ctl[c] EXCEPT !.state = store.Value, !.version = store.Version]
             r == store.Value.Pending
  <2>1. Becomes(c, Resume(ct))
    BY <1>3 DEF recoverPending
  <2>2. store.Value \in ControllerState /\ store.Value # None /\ store.Value.Owner = c
    BY <1>3, InvTypes DEF Owned
  <2>3. ct \in ControllerObject /\ ct.state = store.Value /\ ct.version = store.Version
    <3>1. ctl[c] \in ControllerObject /\ store.Version \in Nat
      BY InvTypes
    <3> QED BY <2>2, <3>1 DEF ControllerObject
  <2> HIDE DEF ct
  <2>4. Successive(r) /\ UnderWay(r) /\ \A t \in Moving(r) : ~(t < 1)
    BY <1>3, <2>2, InvTypes, ShardAssumption DEF Recorded, UnderWay, Moving, Shard
  <2>5. CASE store.Value.Current = r.From
    <3>1. Holds(c, ct, 1)
      BY <2>2, <2>3, <2>4, InvTypes, ShardAssumption DEF Holds
    <3>2. Controls(c, CopyFrom(ct, 1))
      BY <2>3, <2>4, <2>5, <3>1, CopyControls
    <3>3. Resume(ct) = CopyFrom(ct, 1)
      BY <2>3, <2>5 DEF Resume
    <3> QED BY <1>0, <2>1, <3>2, <3>3, ControllerAlone
  <2>6. CASE store.Value.Current # r.From
    <3> DEFINE new == [ct EXCEPT !.pc = "confirm"]
    <3>1. /\ new \in ControllerObject /\ new.pc = "confirm" /\ new.state = store.Value
          /\ new.version = store.Version
      BY <2>3 DEF ControllerObject
    <3>2. Becomes(c, new)
      BY <2>1, <2>3, <2>6 DEF Resume
    <3> HIDE DEF new
    <3>3. Controls(c, new)
      BY <1>3, <2>2, <3>1, InvTypes DEF Controls, MigrationCall
    <3> QED BY <1>0, <3>2, <3>3, ControllerAlone
  <2> QED BY <2>5, <2>6
<1> QED BY <1>1, <1>2, <1>3

\* The old copies are deleted when the publication is confirmed.
LEMMA ConfirmStep ==
    ASSUME MigrationInv, NEW c \in Controller, confirmPublished(c)
    PROVE  MigrationInv'
<1> DEFINE r == ctl[c].state.Pending
<1>0. /\ UNCHANGED <<store, shards, sent, clients>> /\ ctl[c].pc = "confirm"
      /\ Becomes(c, IF ~Owned(c) THEN Deposed(ctl[c])
                    ELSE IF store.Value.Pending # r \/ store.Value.Current # r.To
                    THEN Return(ctl[c])
                    ELSE DeleteFrom([ctl[c] EXCEPT !.state = store.Value,
                                                   !.version = store.Version], 1))
  BY DEF confirmPublished
<1>1. CASE ~Owned(c)
  BY <1>0, <1>1, InvTypes, ReturnControls, ControllerAlone
<1>2. CASE Owned(c) /\ (store.Value.Pending # r \/ store.Value.Current # r.To)
  BY <1>0, <1>2, InvTypes, ReturnControls, ControllerAlone
<1>3. CASE Owned(c) /\ store.Value.Pending = r /\ store.Value.Current = r.To
  <2> DEFINE ct == [ctl[c] EXCEPT !.state = store.Value, !.version = store.Version]
  <2>1. Becomes(c, DeleteFrom(ct, 1))
    BY <1>0, <1>3
  <2>2. store.Value \in ControllerState /\ store.Value # None /\ store.Value.Owner = c
    BY <1>3, InvTypes DEF Owned
  <2>3. ct \in ControllerObject /\ ct.state = store.Value /\ ct.version = store.Version
    <3>1. ctl[c] \in ControllerObject /\ store.Version \in Nat
      BY InvTypes
    <3> QED BY <2>2, <3>1 DEF ControllerObject
  <2> HIDE DEF ct
  <2>4. r # None
    BY <1>0, InvTypes DEF Controls
  <2>5. Successive(r) /\ UnderWay(r) /\ Published(r) /\ \A t \in Moving(r) : ~(t < 1)
    BY <1>3, <2>2, <2>4, InvTypes, ShardAssumption
       DEF Recorded, UnderWay, Published, Moving, Shard
  <2> HIDE DEF r
  <2>6. Holds(c, ct, 1)
    BY <1>3, <2>2, <2>3, <2>5, InvTypes, ShardAssumption DEF Holds
  <2>7. Controls(c, DeleteFrom(ct, 1))
    BY <1>3, <2>3, <2>5, <2>6, DeleteControls
  <2> QED BY <1>0, <2>1, <2>7, ControllerAlone
<1> QED BY <1>1, <1>2, <1>3

\* A migration is chosen when none is pending.
LEMMA ChooseStep ==
    ASSUME MigrationInv, NEW c \in Controller, chooseMigration(c)
    PROVE  MigrationInv'
<1> DEFINE now == store.Value
           next == ctl[c].next
           state == [now EXCEPT !.Pending = [From |-> now.Current, To |-> next]]
<1>0. /\ UNCHANGED <<store, shards, sent, clients>> /\ ctl[c].pc = "choose"
      /\ Becomes(c, IF ~Owned(c) THEN Deposed(ctl[c])
                    ELSE IF next.Num # now.Current.Num + 1 THEN Return(ctl[c])
                    ELSE compareAndSwap(ctl[c], store.Version, state, "chosen"))
  BY DEF chooseMigration
<1>1. CASE ~Owned(c)
  BY <1>0, <1>1, InvTypes, ReturnControls, ControllerAlone
<1>2. CASE Owned(c) /\ next.Num # now.Current.Num + 1
  BY <1>0, <1>2, InvTypes, ReturnControls, ControllerAlone
<1>3. CASE Owned(c) /\ next.Num = now.Current.Num + 1
  <2> DEFINE new == compareAndSwap(ctl[c], store.Version, state, "chosen")
  <2>1. now \in ControllerState /\ now # None /\ now.Owner = c /\ now.Pending = None
    BY <1>0, <1>3, InvTypes DEF Owned, Controls
  <2>2. next \in Configured /\ next \in Config
    BY <1>0, InvTypes DEF Controls, ControllerObject, Configured, Config
  <2>3. state \in ControllerState /\ state.Owner = c
    BY <2>1, <2>2 DEF ControllerState, MigrationRecord
  <2>4. "chosen" \in Purpose
    BY DEF Purpose
  <2>5. Becomes(c, new)
    BY <1>0, <1>3
  <2>6. /\ new \in ControllerObject /\ new.pc = "cas" /\ new.version = store.Version
        /\ new.state = state /\ new.after = "chosen"
    BY <2>3, <2>4, InvTypes, SwapType
  <2> HIDE DEF new
  <2>7. Legal(c, new)
    BY <1>3, <2>1, <2>2, <2>6 DEF Legal
  <2>8. Writing(c, new)
    BY <2>3, <2>4, <2>6, <2>7 DEF Writing
  <2>9. Controls(c, new)
    BY <2>6, <2>8, InvTypes DEF Controls, MigrationCall
  <2> QED BY <1>0, <2>5, <2>9, ControllerAlone
<1> QED BY <1>1, <1>2, <1>3

\* A request is sent, or its answer does not come.
LEMMA SendStep ==
    ASSUME MigrationInv, NEW c \in Controller, SendMigration(c) \/ CallFailed(c)
    PROVE  MigrationInv'
<1>0. UNCHANGED <<store, shards, clients>> /\ ctl[c].pc \in MigrationCall
  BY DEF SendMigration, CallFailed
<1>1. Migrating(c, ctl[c])
  BY <1>0, InvTypes DEF Controls
<1>2. ASSUME NEW b \in BOOLEAN PROVE Controls(c, [ctl[c] EXCEPT !.called = b])
  <2> DEFINE ct == [ctl[c] EXCEPT !.called = b]
  <2>1. /\ ct \in ControllerObject /\ ct.pc = ctl[c].pc /\ ct.version = ctl[c].version
        /\ ct.state = ctl[c].state /\ ct.shard = ctl[c].shard /\ ct.data = ctl[c].data
    BY InvTypes DEF ControllerObject
  <2> HIDE DEF ct
  <2>2. Request(ct) = Request(ctl[c])
    BY <2>1 DEF Request
  <2>3. Migrating(c, ct)
    BY <1>1, <2>1, <2>2 DEF Migrating
  <2>4. Controls(c, ct)
    BY <1>0, <2>1, <2>3, InvTypes DEF Controls, MigrationCall
  <2> QED BY <2>4 DEF ct
<1>3. CASE CallFailed(c)
  BY <1>0, <1>2, <1>3, ControllerAlone DEF CallFailed
<1>4. CASE SendMigration(c) /\ ~Owned(c)
  BY <1>0, <1>4, InvTypes, ReturnControls, ControllerAlone DEF SendMigration
<1>5. CASE SendMigration(c) /\ Owned(c)
  <2> DEFINE m == Request(ctl[c])
             r == ctl[c].state.Pending
  <2>1. Harmless(m) /\ m.gid \in Group
    BY <1>1 DEF Migrating, Harmless
  <2>2. m \in Messages
    <3>1. /\ m.type = ctl[c].pc /\ m.shard = ctl[c].shard /\ m.num = r.To.Num
          /\ m.data = ctl[c].data
          /\ m = [type |-> m.type, shard |-> m.shard, num |-> m.num, gid |-> m.gid,
                  data |-> m.data]
      BY DEF Request
    <3>2. ctl[c].shard \in Shard /\ ctl[c].data \in Transfer
      BY <1>1, InvTypes DEF Migrating, Moving, ControllerObject
    <3>3. r.To.Num \in 2..MaxNum
      <4>1. r \in MigrationRecord /\ r.To.Num = r.From.Num + 1
        BY <1>1 DEF Migrating, Successive
      <4>2. r.From.Num \in 1..MaxNum /\ r.To.Num \in 1..MaxNum
        BY <4>1 DEF MigrationRecord, Config
      <4> QED BY <4>1, <4>2, BoundAssumption
    <3> HIDE DEF m
    <3>4. m \in [type : MigrationCall, shard : Shard, num : 2..MaxNum, gid : Group,
                 data : Transfer]
      BY <1>0, <2>1, <3>1, <3>2, <3>3
    <3> QED BY <3>4 DEF Messages
  <2>3. sent' = sent \cup {m} /\ Becomes(c, [ctl[c] EXCEPT !.called = TRUE])
    BY <1>5 DEF SendMigration
  <2> HIDE DEF m
  <2> QED BY <1>0, <1>2, <2>1, <2>2, <2>3, ControllerAlone
<1> QED BY <1>3, <1>4, <1>5

----------------------------------------------------------------------------
(***************************************************************************)
(* Steps that write the record.                                            *)
(***************************************************************************)
\* The kvsrv executes the Put of a compareAndSwap.
Written(c) ==
    /\ ctl[c].pc = "cas" /\ PutErr(store, ctl[c].version) = "OK"
    /\ store' = [Version |-> store.Version + 1, Value |-> ctl[c].state]
    /\ UNCHANGED shards

\* A write that succeeds replaces the record it was computed from.
LEMMA WriteIsLegal ==
    ASSUME MigrationInv, NEW c \in Controller, Written(c)
    PROVE  /\ Legal(c, ctl[c])
           /\ ctl[c].state \in ControllerState /\ ctl[c].state.Owner = c /\ ctl[c].state # None
           /\ ctl[c].after = "initialized" => store.Value = None /\ ctl[c].state = Created(c)
           /\ store'.Version = store.Version + 1 /\ store'.Value = ctl[c].state
<1>1. Writing(c, ctl[c])
  BY InvTypes DEF Written, Controls
<1>2. ctl[c].version = store.Version
  BY DEF Written, PutErr
<1>3. Legal(c, ctl[c])
  BY <1>1, <1>2 DEF Writing, Written
<1>4. ctl[c].after = "initialized" => store.Value = None /\ ctl[c].state = Created(c)
  BY <1>1, <1>2, InvTypes DEF Writing, Recorded
<1> QED BY <1>1, <1>3, <1>4, NoneAssumption DEF Writing, Written

\* A migration under way stays so and is not unpublished, until it is finished.
LEMMA PlanStays ==
    ASSUME MigrationInv, NEW c \in Controller, Written(c),
           NEW r \in MigrationRecord, UnderWay(r)
    PROVE  \/ UnderWay(r)' /\ (Published(r) => Published(r)')
           \/ Finished(r)
<1> DEFINE now == store.Value
           new == ctl[c].state
<1>0. now # None /\ now.Pending = r /\ r # None /\ now \in ControllerState
  BY InvTypes, NoneAssumption DEF UnderWay
<1>1. /\ Legal(c, ctl[c]) /\ store'.Value = new /\ new # None
      /\ ctl[c].after # "initialized"
  BY <1>0, WriteIsLegal
<1>2. CASE ctl[c].after = "elected"
  <2>1. new.Pending = now.Pending /\ new.Current = now.Current
    BY <1>0, <1>1, <1>2 DEF Legal, Elected, ControllerState
  <2> QED BY <1>0, <1>1, <2>1 DEF UnderWay, Published
<1>3. CASE ctl[c].after = "published"
  <2>1. new.Pending = now.Pending /\ new.Current = r.To
    BY <1>0, <1>1, <1>3 DEF Legal, ControllerState
  <2> QED BY <1>0, <1>1, <2>1 DEF UnderWay, Published
<1>4. CASE ctl[c].after = "cleared"
  <2>1. now.Current = r.To /\ \A s \in Moving(r) : Dropped(r, s)
    BY <1>0, <1>1, <1>4 DEF Legal
  <2>2. \A s \in Moving(r) : Copied(r, s)
    <3>1. SUFFICES ASSUME NEW s \in Moving(r) PROVE Copied(r, s)
      OBVIOUS
    <3>2. Shape(s)
      BY RecordType DEF MigrationInv
    <3>3. Stages(r, s)
      BY <1>0, <3>2 DEF Shape
    <3> QED BY <1>0, <2>1, <3>3 DEF Stages, Published, UnderWay
  <2> QED BY <2>1, <2>2 DEF Finished
<1> QED BY <1>0, <1>1, <1>2, <1>3, <1>4 DEF Legal

\* What is finished stays finished when the record changes.
LEMMA FinishedStays ==
    ASSUME UNCHANGED shards
    PROVE  /\ \A r : Finished(r) <=> Finished(r)'
           /\ \A r, s : (Copied(r, s) <=> Copied(r, s)') /\ (Dropped(r, s) <=> Dropped(r, s)')
           /\ \A m : Spent(m) <=> Spent(m)'
  BY DEF Finished, Copied, Dropped, Spent, Fenced, Frozen

\* The requests of a finished migration are spent.
LEMMA FinishedIsSpent ==
    ASSUME NEW r \in MigrationRecord, Finished(r), NEW m, m.gid \in Group, Asks(m, r)
    PROVE  Spent(m)
<1>1. m.gid # NoGroup /\ m.shard \in Moving(r) /\ m.num = r.To.Num
  BY GroupAssumption DEF Asks
<1>2. Copied(r, m.shard) /\ Dropped(r, m.shard)
  BY <1>1 DEF Finished
<1>3. CASE m.type = "Freeze" /\ m.gid = Source(r, m.shard)
  BY <1>1, <1>2, <1>3 DEF Copied, Fenced, Spent
<1>4. CASE m.type = "Install" /\ m.gid = Target(r, m.shard)
  BY <1>1, <1>2, <1>4 DEF Copied, Fenced, Spent
<1>5. CASE m.type = "Delete" /\ m.gid = Source(r, m.shard)
  BY <1>1, <1>2, <1>5 DEF Dropped, Spent
<1> QED BY <1>3, <1>4, <1>5 DEF Asks

\* Requests stay harmless.
LEMMA WriteHarmless ==
    ASSUME MigrationInv, NEW c \in Controller, Written(c), NEW m, Harmless(m)
    PROVE  Harmless(m)'
<1>0. m.gid \in Group /\ UNCHANGED shards
  BY DEF Harmless, Written
<1>1. CASE Spent(m)
  BY <1>0, <1>1, FinishedStays DEF Harmless
<1>2. CASE Wanted(m)
  <2>1. PICK r \in MigrationRecord : UnderWay(r) /\ Asks(m, r)
    BY <1>2 DEF Wanted
  <2>2. CASE Finished(r)
    <3>1. Spent(m)
      BY <1>0, <2>1, <2>2, FinishedIsSpent
    <3> QED BY <1>0, <3>1, FinishedStays DEF Harmless
  <2>3. CASE UnderWay(r)' /\ (Published(r) => Published(r)')
    <3>1. Asks(m, r)'
      BY <1>0, <2>1, <2>3 DEF Asks, Fenced, Frozen
    <3> QED BY <1>0, <2>3, <3>1 DEF Harmless, Wanted
  <2> QED BY <2>1, <2>2, <2>3, PlanStays
<1> QED BY <1>1, <1>2 DEF Harmless

\* The other controllers know what they knew; their records are old now.
LEMMA WriteControls ==
    ASSUME MigrationInv, NEW c \in Controller, Written(c), NEW d, NEW ct, Controls(d, ct),
           d # c \/ ct.pc # "choose"
    PROVE  Controls(d, ct)'
<1>0. /\ UNCHANGED shards /\ ct.version \in Nat /\ store.Version \in Nat
      /\ store'.Version = store.Version + 1 /\ store'.Value.Owner = c
  BY InvTypes, WriteIsLegal DEF Written, Controls, ControllerObject
<1>1. ct.version <= store'.Version /\ ct.version # store'.Version
  BY <1>0 DEF Controls
<1>2. ct.pc \in {"cas", "readback"} => Writing(d, ct)'
  BY <1>1 DEF Controls, Writing
<1>3. ASSUME ct.pc \in MigrationCall PROVE Migrating(d, ct)'
  <2> DEFINE r == ct.state.Pending
  <2>1. Migrating(d, ct)
    BY <1>3 DEF Controls
  <2>2. r \in MigrationRecord
    BY <2>1 DEF Migrating, Successive
  <2> HIDE DEF r
  <2>3. UnderWay(r) \/ Finished(r) => (UnderWay(r) \/ Finished(r))'
    BY <1>0, <2>2, PlanStays, FinishedStays
  <2>4. Published(r) \/ Finished(r) => (Published(r) \/ Finished(r))'
    BY <1>0, <2>2, PlanStays, FinishedStays DEF Published
  <2>5. Harmless(Request(ct))'
    <3>1. PICK m : m = Request(ct)
      OBVIOUS
    <3>2. Harmless(m)'
      BY <2>1, <3>1, WriteHarmless DEF Migrating
    <3> QED BY <3>1, <3>2
  <2> QED BY <1>1, <2>1, <2>3, <2>4, <2>5 DEF Migrating, r
<1>4. ct.pc = "choose" => d # c
  OBVIOUS
<1> QED BY <1>0, <1>1, <1>2, <1>3, <1>4 DEF Controls

\* What is settled does not depend on the record.
LEMMA SettledStays ==
    ASSUME UNCHANGED shards
    PROVE  \A config, s : Settled(config, s) <=> Settled(config, s)'
  BY DEF Settled

\* The record stays well formed, and the copies are where it says.
LEMMA WriteShape ==
    ASSUME MigrationInv, NEW c \in Controller, Written(c)
    PROVE  Recorded' /\ \A s \in Shard : Shape(s)'
<1> DEFINE now == store.Value
           new == ctl[c].state
<1>0. /\ Legal(c, ctl[c]) /\ store'.Value = new /\ new # None /\ new \in ControllerState
      /\ ctl[c].after = "initialized" => now = None /\ new = Created(c)
      /\ store'.Version = store.Version + 1 /\ store.Version \in Nat
      /\ now \in ControllerState \cup {None} /\ UNCHANGED shards
  BY WriteIsLegal, InvTypes DEF Written
<1>1. store'.Version # 0
  BY <1>0
<1>2. \A s \in Shard : Shape(s)
  BY DEF MigrationInv
<1>3. now # None /\ now.Pending # None =>
        /\ Successive(now.Pending) /\ now.Current \in {now.Pending.From, now.Pending.To}
  BY InvTypes DEF Recorded
<1> HIDE DEF new
<1>4. CASE ctl[c].after = "initialized"
  <2>1. now = None /\ new.Pending = None /\ new.Current = InitialConfig
    BY <1>0, <1>4 DEF Created
  <2>2. Recorded'
    BY <1>0, <1>1, <2>1 DEF Recorded
  <2>3. \A s \in Shard : Settled(InitialConfig, s)'
    BY <1>0, <1>2, <2>1, SettledStays DEF Shape
  <2> QED BY <1>0, <2>1, <2>2, <2>3 DEF Shape
<1>5. CASE ctl[c].after = "elected"
  <2>1. now # None /\ new.Pending = now.Pending /\ new.Current = now.Current
    BY <1>0, <1>5 DEF Legal, Elected, ControllerState, new
  <2>2. Recorded'
    BY <1>0, <1>1, <1>3, <2>1 DEF Recorded
  <2>3. \A r : (Published(r) <=> Published(r)') /\ (UnderWay(r) <=> UnderWay(r)')
    BY <1>0, <2>1 DEF Published, UnderWay
  <2>4. \A r, s : Stages(r, s) => Stages(r, s)'
    BY <1>0, <2>3, FinishedStays DEF Stages, Frozen, Fenced
  <2> QED BY <1>0, <1>2, <2>1, <2>2, <2>4, SettledStays DEF Shape
<1>6. CASE ctl[c].after = "chosen"
  <2>1. PICK next \in Configured :
          /\ now # None /\ now.Pending = None /\ next.Num = now.Current.Num + 1
          /\ new = [now EXCEPT !.Pending = [From |-> now.Current, To |-> next]]
    BY <1>0, <1>6 DEF Legal, new
  <2>0. PICK r : r = [From |-> now.Current, To |-> next]
    OBVIOUS
  <2>2. new.Pending = r /\ new.Current = r.From /\ now.Current = r.From
    BY <1>0, <2>0, <2>1 DEF ControllerState
  <2>3. r \in MigrationRecord /\ r.To.Num = r.From.Num + 1
    BY <1>0, <2>0, <2>1 DEF ControllerState, MigrationRecord, Configured, Config
  <2>4. r # None /\ ~Published(r)'
    <3>1. r.From.Num # r.To.Num
      BY <2>3, RecordType
    <3> QED BY <1>0, <2>0, <2>2, <2>3, <3>1, NoneAssumption DEF Published
  <2>5. Recorded'
    BY <1>0, <2>0, <1>1, <2>2, <2>3 DEF Recorded, Successive
  <2>6. ASSUME NEW s \in Moving(r) PROVE Stages(r, s)'
    <3>1. Settled(r.From, s)
      BY <1>2, <2>0, <2>1, <2>2, <2>6 DEF Shape, Moving
    <3>2. /\ \A g \in Group : shards[g][s].ConfigNum <= r.From.Num
          /\ \A g \in Group : shards[g][s].Status =
                 IF Source(r, s) = g THEN "Serving" ELSE "Absent"
      BY <3>1 DEF Settled, Source
    <3>3. \A g \in Group : shards[g][s].ConfigNum \in Nat
      <4>1. shards \in [Group -> [Shard -> ShardState]] /\ s \in Shard
        BY <2>6 DEF MigrationInv, TypeOK, Moving
      <4> QED BY <4>1 DEF ShardState
    <3>4. \A g \in Group : shards[g][s].ConfigNum < r.To.Num
      BY <2>3, <3>2, <3>3, RecordType
    <3>5. /\ Source(r, s) \in Gid /\ Target(r, s) \in Gid /\ Source(r, s) # Target(r, s)
      BY <2>3, <2>6, RecordType DEF Moving
    <3>6. shards' = shards
      BY <1>0
    <3> QED BY <2>4, <3>2, <3>4, <3>5, <3>6 DEF Stages, Gid
  <2>7. ASSUME NEW s \in Shard, s \notin Moving(r) PROVE Settled(r.From, s)'
    BY <1>0, <2>0, <1>2, <2>1, <2>2, <2>7, SettledStays DEF Shape
  <2> QED BY <1>0, <2>0, <2>2, <2>4, <2>5, <2>6, <2>7 DEF Shape
<1>7. CASE ctl[c].after = "published"
  <2>0. PICK r : r = now.Pending
    OBVIOUS
  <2>1. /\ now # None /\ r # None /\ now.Current = r.From
        /\ \A s \in Moving(r) : Copied(r, s)
        /\ new = [now EXCEPT !.Current = r.To]
    BY <1>0, <2>0, <1>7 DEF Legal, new
  <2>2. new.Pending = r /\ new.Current = r.To /\ r \in MigrationRecord
    BY <1>0, <2>0, <2>1 DEF ControllerState
  <2>3. Recorded'
    BY <1>0, <2>0, <1>1, <1>3, <2>1, <2>2 DEF Recorded
  <2>4. ASSUME NEW s \in Moving(r) PROVE Stages(r, s)'
    <3>1. Stages(r, s) /\ ~Published(r) /\ Published(r)' /\ Copied(r, s)'
      <4>1. s \in Shard
        BY <2>2, <2>4, RecordType
      <4>2. Stages(r, s)
        BY <1>2, <2>0, <2>1, <2>4, <4>1 DEF Shape
      <4>3. r.From.Num # r.To.Num
        BY <1>3, <2>0, <2>1, <2>2, RecordType DEF Successive
      <4> QED BY <1>0, <2>0, <2>1, <2>2, <2>4, <4>2, <4>3, FinishedStays DEF Published, UnderWay
    <3> QED BY <1>0, <2>0, <3>1 DEF Stages, Frozen, Fenced
  <2>5. ASSUME NEW s \in Shard, s \notin Moving(r) PROVE Settled(r.From, s)'
    BY <1>0, <2>0, <1>2, <2>1, <2>5, SettledStays DEF Shape
  <2> QED BY <1>0, <2>0, <2>1, <2>2, <2>3, <2>4, <2>5 DEF Shape
<1>8. CASE ctl[c].after = "cleared"
  <2>0. PICK r : r = now.Pending
    OBVIOUS
  <2>1. /\ now # None /\ r # None /\ now.Current = r.To
        /\ \A s \in Moving(r) : Dropped(r, s)
        /\ new = [now EXCEPT !.Pending = None]
    BY <1>0, <2>0, <1>8 DEF Legal, new
  <2>2. /\ new.Pending = None /\ new.Current = r.To /\ r \in MigrationRecord
        /\ r.To.Num = r.From.Num + 1
    BY <1>0, <2>0, <1>3, <2>1 DEF ControllerState, Successive
  <2>3. Recorded'
    BY <1>0, <2>0, <1>1, <2>2 DEF Recorded
  <2>4. ASSUME NEW s \in Moving(r) PROVE Settled(r.To, s)
    <3>1. s \in Shard /\ Source(r, s) # Target(r, s)
      BY <2>2, <2>4, RecordType DEF Moving
    <3>2. Stages(r, s) /\ Published(r) /\ Dropped(r, s) /\ Copied(r, s)
      BY <1>2, <2>0, <2>1, <2>4, <3>1 DEF Shape, Stages, Published, UnderWay
    <3>3. \A g \in Group : shards[g][s].ConfigNum \in Nat
      BY <3>1 DEF MigrationInv, TypeOK, ShardState
    <3>4. r.To.Num \in Nat
      BY <2>2, RecordType
    <3>5. ASSUME NEW g \in Group
          PROVE  /\ shards[g][s].ConfigNum <= r.To.Num
                 /\ shards[g][s].Status = IF Target(r, s) = g THEN "Serving" ELSE "Absent"
      <4>1. g # NoGroup
        BY GroupAssumption
      <4>2. CASE g = Source(r, s)
        BY <3>1, <3>2, <3>3, <3>4, <4>1, <4>2 DEF Stages, Dropped, Frozen
      <4>3. CASE g = Target(r, s)
        BY <3>1, <3>2, <3>3, <3>4, <4>1, <4>3 DEF Stages, Copied, Fenced
      <4>4. CASE g \notin {Source(r, s), Target(r, s)}
        BY <3>2, <3>3, <3>4, <4>4 DEF Stages
      <4> QED BY <4>2, <4>3, <4>4
    <3> QED BY <3>5 DEF Settled, Target
  <2>5. ASSUME NEW s \in Shard, s \notin Moving(r) PROVE Settled(r.To, s)
    <3>1. Settled(r.From, s)
      BY <1>2, <2>0, <2>1, <2>5 DEF Shape
    <3>2. r.From.Shards[s] = r.To.Shards[s] /\ r.From.Num \in Nat
      BY <2>2, <2>5, RecordType DEF Moving, Source, Target
    <3>3. \A g \in Group : shards[g][s].ConfigNum \in Nat
      BY <2>5 DEF MigrationInv, TypeOK, ShardState
    <3> QED BY <2>2, <3>1, <3>2, <3>3 DEF Settled
  <2>6. \A s \in Shard : Settled(r.To, s)'
    BY <1>0, <2>0, <2>4, <2>5, SettledStays
  <2> QED BY <1>0, <2>0, <2>2, <2>3, <2>6 DEF Shape
<1> QED BY <1>0, <1>4, <1>5, <1>6, <1>7, <1>8 DEF Legal

\* A write, with what its controller makes of it.
LEMMA WriteStep ==
    ASSUME MigrationInv, NEW c \in Controller, Written(c), NEW ct, Controls(c, ct)',
           Becomes(c, ct), UNCHANGED <<sent, clients>>
    PROVE  MigrationInv'
<1>1. ct \in ControllerObject
  BY DEF Controls
<1>2. ctl' \in [Controller -> ControllerObject] /\ ctl'[c] = ct
      /\ \A d \in Controller : d # c => ctl'[d] = ctl[d]
  BY <1>1 DEF Becomes, MigrationInv, TypeOK
<1>3. ASSUME NEW d \in Controller PROVE Controls(d, ctl[d])'
  <2>1. PICK x : x = ctl'[d]
    OBVIOUS
  <2>2. CASE d = c
    <3>1. x = ct
      BY <1>2, <2>1, <2>2
    <3> QED BY <2>1, <2>2, <3>1
  <2>3. CASE d # c
    <3>1. x = ctl[d] /\ Controls(d, x)
      BY <1>2, <2>1, <2>3, InvTypes
    <3>2. Controls(d, x)'
      BY <2>3, <3>1, WriteControls
    <3> QED BY <2>1, <3>2
  <2> QED BY <2>2, <2>3
<1>4. TypeOK'
  <2>1. ASSUME NEW d \in Controller
        PROVE  /\ ctl'[d].pc \in {"cas", "readback"} => ctl'[d].state # None /\ ctl'[d].after # None
               /\ ctl'[d].pc \in MigrationCall \union {"confirm"} =>
                      ctl'[d].state # None /\ ctl'[d].state.Pending # None
               /\ ctl'[d].pc = "choose" => ctl'[d].next # None
    <3>1. Controls(d, ctl[d])'
      BY <1>3
    <3> QED BY <3>1, NoneAssumption DEF Controls, Writing, Migrating, Successive
  <2>2. store' \in [Version : Nat, Value : ControllerState \union {None}]
    BY WriteIsLegal, InvTypes DEF Written
  <2> QED BY <1>2, <2>1, <2>2 DEF MigrationInv, TypeOK, Written
<1>5. \A m \in sent' : m.type \in MigrationCall => Harmless(m)'
  BY WriteHarmless DEF MigrationInv
<1> QED BY <1>3, <1>4, <1>5, WriteShape DEF MigrationInv

\* The Put of a compareAndSwap is answered.
LEMMA AnsweredStep ==
    ASSUME MigrationInv, NEW c \in Controller, PutAnswered(c)
    PROVE  MigrationInv'
<1>0. PICK ct : ct = ctl[c]
  OBVIOUS
<1>1. /\ ct.pc = "cas" /\ UNCHANGED <<shards, sent, clients>>
      /\ store' = PutEntry(store, ct.version, ct.state)
      /\ Becomes(c, CASE ClerkErr(PutErr(store, ct.version), ct.resent) = "OK" -> Succeeded(ct)
                      [] ClerkErr(PutErr(store, ct.version), ct.resent) = "ErrMaybe" ->
                            [ct EXCEPT !.pc = "readback"]
                      [] OTHER -> Failed(ct))
  BY <1>0 DEF PutAnswered
<1>2. /\ Controls(c, ct) /\ ct \in ControllerObject /\ Writing(c, ct)
      /\ ct.state \in ControllerState /\ ct.state # None /\ ct.after \in Purpose
      /\ store.Version \in Nat /\ ct.version <= store.Version /\ ct.version \in Nat
  BY <1>0, <1>1, InvTypes, NoneAssumption DEF Controls, Writing
<1>3. CASE PutErr(store, ct.version) = "OK"
  <2>1. Written(c)
    BY <1>0, <1>1, <1>3 DEF Written, PutEntry
  <2>2. Becomes(c, Succeeded(ct))
    BY <1>1, <1>3 DEF ClerkErr
  <2>3. store'.Version = store.Version + 1 /\ store'.Value = ct.state
    BY <1>0, <2>1, WriteIsLegal
  <2>4. Controls(c, Succeeded(ct))'
    <3>0. PICK new : new = Succeeded(ct)
      OBVIOUS
    <3>1. /\ new \in ControllerObject
          /\ \/ new.pc \in {"idle", "recover"} /\ new.version = 0
             \/ /\ new.pc = "choose" /\ new.version = 0
                /\ ct.after = "cleared" /\ new.next # None
             \/ /\ new.pc = "confirm" /\ new.version = ct.version
                /\ ct.after = "published" /\ new.state = ct.state
      BY <1>2, <3>0, SwapOutcome
    <3>2. new.version <= store'.Version
      BY <1>2, <2>3, <3>1
    <3>3. /\ ct.after = "cleared" => ct.state.Pending = None
          /\ ct.after = "published" => ct.state.Pending # None
      BY <1>2 DEF Writing
    <3>4. Controls(c, new)'
      BY <1>2, <2>3, <3>1, <3>2, <3>3 DEF Controls, MigrationCall
    <3> QED BY <3>0, <3>4
  <2> QED BY <1>1, <2>1, <2>2, <2>4, WriteStep
<1>4. CASE PutErr(store, ct.version) # "OK"
  <2>1. UNCHANGED store
    BY <1>1, <1>4 DEF PutEntry
  <2>2. CASE Becomes(c, [ct EXCEPT !.pc = "readback"])
    <3> DEFINE new == [ct EXCEPT !.pc = "readback"]
    <3>1. /\ new \in ControllerObject /\ new.pc = "readback" /\ new.version = ct.version
          /\ new.state = ct.state /\ new.after = ct.after
      BY <1>2 DEF ControllerObject
    <3>2. Becomes(c, new)
      BY <2>2
    <3> HIDE DEF new
    <3>3. Controls(c, new)
      BY <1>2, <3>1 DEF Controls, Writing, MigrationCall
    <3> QED BY <1>1, <2>1, <3>2, <3>3, ControllerAlone
  <2>3. CASE Becomes(c, Failed(ct))
    <3>1. Controls(c, Failed(ct))
      BY <1>2, SwapOutcome, RestingControls
    <3> QED BY <1>1, <2>1, <2>3, <3>1, ControllerAlone
  <2>4. ClerkErr(PutErr(store, ct.version), ct.resent) # "OK"
    BY <1>4 DEF ClerkErr
  <2> QED BY <1>1, <2>2, <2>3, <2>4
<1> QED BY <1>3, <1>4

\* Its answer is lost, and it is sent again.
LEMMA FailedStep ==
    ASSUME MigrationInv, NEW c \in Controller, PutFailed(c)
    PROVE  MigrationInv'
<1> DEFINE new == [ctl[c] EXCEPT !.resent = TRUE]
<1>1. /\ ctl[c].pc = "cas" /\ UNCHANGED <<shards, sent, clients>>
      /\ store' \in {store, PutEntry(store, ctl[c].version, ctl[c].state)}
      /\ Becomes(c, new)
  BY DEF PutFailed
<1>2. /\ new \in ControllerObject /\ new.pc = "cas" /\ new.version = ctl[c].version
      /\ new.state = ctl[c].state /\ new.after = ctl[c].after
  BY <1>1, InvTypes DEF ControllerObject
<1> HIDE DEF new
<1>3. Controls(c, new)
  <2>1. Writing(c, ctl[c])
    BY <1>1, InvTypes DEF Controls
  <2>2. Legal(c, ctl[c]) => Legal(c, new)
    BY <1>2 DEF Legal
  <2>3. Writing(c, new)
    BY <1>1, <1>2, <2>1, <2>2 DEF Writing
  <2> QED BY <1>2, <2>3, InvTypes DEF Controls, MigrationCall
<1>4. CASE UNCHANGED store
  BY <1>1, <1>3, <1>4, ControllerAlone
<1>5. CASE store' # store
  <2>1. Written(c)
    BY <1>1, <1>5 DEF Written, PutEntry
  <2>2. PICK x : x = new
    OBVIOUS
  <2>3. Controls(c, x)'
    BY <1>2, <1>3, <2>1, <2>2, WriteControls
  <2> QED BY <1>1, <2>1, <2>2, <2>3, WriteStep
<1> QED BY <1>4, <1>5

----------------------------------------------------------------------------
(***************************************************************************)
(* Steps that change the copies of the shards.                             *)
(***************************************************************************)
\* What the loops of a controller and its next request come to in a state.
LoopsGoOn ==
    \A c, ct, s :
        LET r == ct.state.Pending IN
        Holds(c, ct, s) =>
          /\ /\ ct.state.Current = r.From
             /\ ct.version = store.Version => \A t \in Moving(r) : t < s => Copied(r, t)
             => Controls(c, CopyFrom(ct, s))
          /\ /\ ct.state.Current = r.To /\ (Published(r) \/ Finished(r))
             /\ ct.version = store.Version => \A t \in Moving(r) : t < s => Dropped(r, t)
             => Controls(c, DeleteFrom(ct, s))
ReturnsGoOn ==
    store.Version \in Nat => \A c : \A ct \in ControllerObject : Controls(c, Return(ct))

\* Both hold in every state, and so in the state after a step.
LEMMA GoOn == LoopsGoOn /\ ReturnsGoOn
  BY CopyControls, DeleteControls, ReturnControls DEF LoopsGoOn, ReturnsGoOn

\* The same, of the state after a step.
LEMMA GoOnNext == LoopsGoOn' /\ ReturnsGoOn'
  BY GoOn, PTL

\* A step may raise configuration numbers, and a copy is not found frozen
\* unless it was so or its configuration number was raised.
Advances ==
    \A g \in Group, s \in Shard :
        LET old == shards[g][s]
            new == shards'[g][s]
        IN  /\ old.ConfigNum \in Nat /\ new.ConfigNum \in Nat
            /\ new.ConfigNum >= old.ConfigNum
            /\ new.Status = "Frozen" => new = old \/ new.ConfigNum > old.ConfigNum

\* What is known of a migration stays true.
LEMMA KnowledgeStays ==
    ASSUME UNCHANGED store, Advances, NEW r \in MigrationRecord
    PROVE  /\ UnderWay(r) <=> UnderWay(r)'
           /\ Published(r) <=> Published(r)'
           /\ \A s \in Moving(r) : /\ Copied(r, s) => Copied(r, s)'
                                   /\ Dropped(r, s) => Dropped(r, s)'
           /\ Finished(r) => Finished(r)'
<1>1. (UnderWay(r) <=> UnderWay(r)') /\ (Published(r) <=> Published(r)')
  BY DEF UnderWay, Published
<1>2. ASSUME NEW s \in Moving(r)
      PROVE  (Copied(r, s) => Copied(r, s)') /\ (Dropped(r, s) => Dropped(r, s)')
  <2>1. /\ s \in Shard /\ r.To.Num \in Nat
        /\ Source(r, s) \in Gid /\ Target(r, s) \in Gid
    BY RecordType
  <2>2. Copied(r, s) => Copied(r, s)'
    BY <2>1 DEF Advances, Copied, Fenced, Gid
  <2>3. Dropped(r, s) => Dropped(r, s)'
    BY <2>1 DEF Advances, Dropped, Frozen, Gid
  <2> QED BY <2>2, <2>3
<1>3. Finished(r) => Finished(r)'
  BY <1>2 DEF Finished
<1> QED BY <1>1, <1>2, <1>3

\* Requests stay harmless.
LEMMA HarmlessStays ==
    ASSUME UNCHANGED store, Advances, NEW m, m.shard \in Shard, m.num \in Nat, Harmless(m)
    PROVE  Harmless(m)'
<1>0. m.gid \in Group
  BY DEF Harmless
<1>1. CASE Spent(m)
  <2>1. Spent(m)'
    BY <1>0, <1>1 DEF Spent, Advances, Frozen
  <2> QED BY <1>0, <2>1 DEF Harmless
<1>2. CASE Wanted(m)
  <2>1. PICK r \in MigrationRecord : UnderWay(r) /\ Asks(m, r)
    BY <1>2 DEF Wanted
  <2>2. UnderWay(r)' /\ (Published(r) <=> Published(r)')
    BY <2>1, KnowledgeStays
  <2>3. Source(r, m.shard) \in Gid
    BY RecordType
  <2>4. CASE m.type = "Install"
    <3>1. Fenced(Source(r, m.shard), m.shard, m.num)
      BY <2>1, <2>4 DEF Asks
    <3>2. Fenced(Source(r, m.shard), m.shard, m.num)'
      BY <2>3, <3>1 DEF Fenced, Advances, Gid
    <3>3. ASSUME Source(r, m.shard) # NoGroup, Frozen(Source(r, m.shard), m.shard, m.num)'
          PROVE  m.data = shards'[Source(r, m.shard)][m.shard].Data
      <4>1. shards'[Source(r, m.shard)][m.shard] = shards[Source(r, m.shard)][m.shard]
        BY <2>3, <3>1, <3>3 DEF Fenced, Frozen, Advances, Gid
      <4>2. Frozen(Source(r, m.shard), m.shard, m.num)
        BY <3>3, <4>1 DEF Frozen
      <4> QED BY <2>1, <2>4, <3>3, <4>1, <4>2 DEF Asks
    <3>4. Asks(m, r)'
      BY <2>1, <2>4, <3>2, <3>3 DEF Asks
    <3> QED BY <1>0, <2>2, <3>4 DEF Harmless, Wanted
  <2>5. CASE m.type # "Install"
    <3>1. Asks(m, r)'
      BY <2>1, <2>2, <2>5 DEF Asks
    <3> QED BY <1>0, <2>2, <3>1 DEF Harmless, Wanted
  <2> QED BY <2>4, <2>5
<1> QED BY <1>1, <1>2 DEF Harmless

\* The controllers know what they knew.
LEMMA ControlsStay ==
    ASSUME MigrationInv, UNCHANGED store, Advances, NEW c, NEW ct, Controls(c, ct)
    PROVE  Controls(c, ct)'
<1>0. store.Value \in ControllerState \cup {None} /\ store' = store
  BY DEF MigrationInv, TypeOK
<1>1. Legal(c, ct) => Legal(c, ct)'
  <2>1. store.Value # None /\ store.Value.Pending # None => store.Value.Pending \in MigrationRecord
    BY <1>0 DEF ControllerState
  <2>2. ASSUME store.Value # None, store.Value.Pending # None
        PROVE  \A s \in Moving(store.Value.Pending) :
                 /\ Copied(store.Value.Pending, s) => Copied(store.Value.Pending, s)'
                 /\ Dropped(store.Value.Pending, s) => Dropped(store.Value.Pending, s)'
    <3>1. PICK r \in MigrationRecord : r = store.Value.Pending
      BY <2>1, <2>2
    <3>2. \A s \in Moving(r) : /\ Copied(r, s) => Copied(r, s)'
                               /\ Dropped(r, s) => Dropped(r, s)'
      BY KnowledgeStays
    <3>3. r = store'.Value.Pending
      BY <1>0, <3>1
    <3> QED BY <3>1, <3>2, <3>3
  <2>3. Elected(c) = Elected(c)'
    BY <1>0 DEF Elected
  <2> QED BY <1>0, <2>2, <2>3 DEF Legal
<1>2. ct.pc \in {"cas", "readback"} => Writing(c, ct)'
  BY <1>0, <1>1 DEF Controls, Writing
<1>3. ASSUME ct.pc \in MigrationCall PROVE Migrating(c, ct)'
  <2> DEFINE r == ct.state.Pending
  <2>1. Migrating(c, ct)
    BY <1>3 DEF Controls
  <2>2. r \in MigrationRecord /\ ct.shard \in Shard /\ r.To.Num \in Nat
    BY <2>1, RecordType DEF Migrating, Successive
  <2> HIDE DEF r
  <2>3. /\ UnderWay(r) <=> UnderWay(r)'
        /\ Published(r) <=> Published(r)'
        /\ Finished(r) => Finished(r)'
        /\ \A s \in Moving(r) : (Copied(r, s) => Copied(r, s)') /\ (Dropped(r, s) => Dropped(r, s)')
    BY <2>2, KnowledgeStays
  <2>4. Harmless(Request(ct))'
    <3>1. PICK m : m = Request(ct)
      OBVIOUS
    <3>2. m.shard \in Shard /\ m.num \in Nat
      BY <2>2, <3>1 DEF Request, r
    <3>3. Harmless(m)'
      BY <2>1, <3>1, <3>2, HarmlessStays DEF Migrating
    <3> QED BY <3>1, <3>3
  <2> QED BY <1>0, <2>1, <2>3, <2>4 DEF Migrating, r
<1> QED BY <1>0, <1>2, <1>3 DEF Controls

\* A group executes the request m.
Executes(m) ==
    shards' = [shards EXCEPT ![m.gid][m.shard] = DoMigration(shards[m.gid][m.shard], m)]

\* The types of a request to a group.
Requested(m) ==
    /\ m.type \in MigrationCall /\ m.shard \in Shard /\ m.num \in 2..MaxNum
    /\ m.gid \in Group /\ m.data \in Transfer

\* What a group does with a request.
LEMMA ExecuteType ==
    ASSUME NEW st \in ShardState, NEW m, Requested(m)
    PROVE  LET new == DoMigration(st, m) IN
           /\ new \in ShardState /\ st.ConfigNum \in Nat /\ new.ConfigNum \in Nat /\ m.num \in Nat
           /\ \/ new = st
              \/ /\ m.type = "Freeze" /\ st.Status = "Serving" /\ m.num > st.ConfigNum
                 /\ new.Status = "Frozen" /\ new.ConfigNum = m.num /\ new.Data = st.Data
              \/ /\ m.type = "Install" /\ st.Status = "Absent" /\ m.num > st.ConfigNum
                 /\ new.Status = "Serving" /\ new.ConfigNum = m.num /\ new.Data = m.data
              \/ /\ m.type = "Delete" /\ st.Status = "Frozen" /\ m.num = st.ConfigNum
                 /\ new.Status = "Absent" /\ new.ConfigNum = m.num
                 /\ new.Data = EmptyTransfer
           /\ Accepted(st, m) =>
                IF m.type = "Delete"
                THEN new.ConfigNum > m.num \/ (new.ConfigNum = m.num /\ new.Status = "Absent")
                ELSE new.ConfigNum = m.num
<1> DEFINE new == DoMigration(st, m)
<1>0. /\ st.ConfigNum \in 0..MaxNum /\ st.Data \in Transfer /\ m.num \in 0..MaxNum
      /\ st.Status \in {"Absent", "Serving", "Frozen"}
      /\ MaxNum \in Nat
  BY BoundAssumption DEF ShardState, Requested
<1>1. CASE m.type = "Freeze" /\ ~FreezeRepeated(st, m.num) /\ FreezeFirst(st, m.num)
  <2>1. new = [st EXCEPT !.Status = "Frozen", !.ConfigNum = m.num]
    BY <1>1 DEF DoMigration
  <2>2. /\ new \in ShardState /\ new.Status = "Frozen" /\ new.ConfigNum = m.num
        /\ new.Data = st.Data
    BY <1>0, <2>1 DEF ShardState
  <2> HIDE DEF new
  <2> QED BY <1>0, <1>1, <2>2 DEF FreezeFirst, new
<1>2. CASE m.type = "Install" /\ ~InstallRepeated(st, m.num) /\ InstallFirst(st, m.num)
  <2>1. new = [Status |-> "Serving", ConfigNum |-> m.num, Data |-> m.data]
    BY <1>2 DEF DoMigration, Installed
  <2>2. /\ new \in ShardState /\ new.Status = "Serving" /\ new.ConfigNum = m.num
        /\ new.Data = m.data
    BY <1>0, <2>1 DEF ShardState, Requested
  <2> HIDE DEF new
  <2> QED BY <1>0, <1>2, <2>2 DEF InstallFirst, new
<1>3. CASE m.type = "Delete" /\ ~DeleteRepeated(st, m.num) /\ DeleteFirst(st, m.num)
  <2>1. new = [st EXCEPT !.Status = "Absent", !.Data = EmptyTransfer]
    BY <1>3 DEF DoMigration, Deleted
  <2>2. /\ new \in ShardState /\ new.Status = "Absent" /\ new.ConfigNum = st.ConfigNum
        /\ new.Data = EmptyTransfer
    BY <1>0, <2>1, EmptyType DEF ShardState
  <2> HIDE DEF new
  <2> QED BY <1>0, <1>3, <2>2 DEF DeleteFirst, new
<1>4. CASE /\ ~(m.type = "Freeze" /\ ~FreezeRepeated(st, m.num) /\ FreezeFirst(st, m.num))
           /\ ~(m.type = "Install" /\ ~InstallRepeated(st, m.num) /\ InstallFirst(st, m.num))
           /\ ~(m.type = "Delete" /\ ~DeleteRepeated(st, m.num) /\ DeleteFirst(st, m.num))
  <2>1. new = st
    BY <1>4 DEF DoMigration
  <2>2. Accepted(st, m) =>
          IF m.type = "Delete"
          THEN st.ConfigNum > m.num \/ (st.ConfigNum = m.num /\ st.Status = "Absent")
          ELSE st.ConfigNum = m.num
    BY <1>0, <1>4 DEF Accepted, FreezeRepeated, FreezeFirst, InstallRepeated, InstallFirst,
                     DeleteRepeated, DeleteFirst
  <2> HIDE DEF new
  <2> QED BY <1>0, <2>1, <2>2 DEF new
<1> QED BY <1>1, <1>2, <1>3, <1>4

\* A request that is executed, in time or late, moves its shard on by one stage
\* at most and leaves everything that is known true.
LEMMA ExecuteCopies ==
    ASSUME MigrationInv, NEW m, Requested(m), Harmless(m), Executes(m), UNCHANGED store
    PROVE  /\ shards' \in [Group -> [Shard -> ShardState]]
           /\ shards'[m.gid][m.shard] = DoMigration(shards[m.gid][m.shard], m)
           /\ Advances
           /\ \A s \in Shard : Shape(s)'
<1> DEFINE st == shards[m.gid][m.shard]
           new == DoMigration(st, m)
<1>0. /\ shards \in [Group -> [Shard -> ShardState]] /\ m.gid \in Group /\ m.shard \in Shard
      /\ st \in ShardState
  BY DEF MigrationInv, TypeOK, Requested
<1>1. /\ new \in ShardState /\ st.ConfigNum \in Nat /\ new.ConfigNum \in Nat /\ m.num \in Nat
      /\ \/ new = st
         \/ /\ m.type = "Freeze" /\ st.Status = "Serving" /\ m.num > st.ConfigNum
            /\ new.Status = "Frozen" /\ new.ConfigNum = m.num
         \/ /\ m.type = "Install" /\ st.Status = "Absent" /\ m.num > st.ConfigNum
            /\ new.Status = "Serving" /\ new.ConfigNum = m.num
         \/ /\ m.type = "Delete" /\ st.Status = "Frozen" /\ m.num = st.ConfigNum
            /\ new.Status = "Absent" /\ new.ConfigNum = m.num
  BY <1>0, ExecuteType
<1>2. shards' = [shards EXCEPT ![m.gid][m.shard] = new]
  BY DEF Executes
<1> HIDE DEF new
<1>3. /\ shards' \in [Group -> [Shard -> ShardState]]
      /\ shards'[m.gid][m.shard] = new
      /\ \A g \in Group, s \in Shard :
            g # m.gid \/ s # m.shard => shards'[g][s] = shards[g][s]
  BY <1>0, <1>1, <1>2
<1>4. Advances
  <2>1. \A g \in Group, s \in Shard : shards[g][s].ConfigNum \in Nat
    BY <1>0 DEF ShardState
  <2>2. SUFFICES ASSUME NEW g \in Group, NEW s \in Shard
                 PROVE  /\ shards'[g][s].ConfigNum \in Nat
                        /\ shards'[g][s].ConfigNum >= shards[g][s].ConfigNum
                        /\ shards'[g][s].Status = "Frozen" =>
                              \/ shards'[g][s] = shards[g][s]
                              \/ shards'[g][s].ConfigNum > shards[g][s].ConfigNum
    BY <2>1 DEF Advances
  <2>3. CASE g # m.gid \/ s # m.shard
    BY <1>3, <2>1, <2>3
  <2>4. CASE g = m.gid /\ s = m.shard
    BY <1>1, <1>3, <2>1, <2>4
  <2> QED BY <2>3, <2>4
<1>5. ASSUME NEW s \in Shard PROVE Shape(s)'
  <2>1. Shape(s)
    BY DEF MigrationInv
  <2>2. CASE s # m.shard \/ new = st
    <3>1. \A g \in Group : shards'[g][s] = shards[g][s]
      BY <1>3, <2>2
    <3>2. PICK v : v = store
      OBVIOUS
    <3>3. \A k : Settled(k, s) => Settled(k, s)'
      BY <3>1 DEF Settled
    <3>4. ASSUME NEW r \in MigrationRecord, s \in Moving(r), Stages(r, s) PROVE Stages(r, s)'
      <4>1. Source(r, s) \in Gid /\ Target(r, s) \in Gid
        BY RecordType
      <4>2. /\ Published(r) <=> Published(r)'
            /\ Copied(r, s) => Copied(r, s)'
        BY <1>4, <3>4, KnowledgeStays
      <4> QED BY <3>1, <3>4, <4>1, <4>2 DEF Stages, Frozen, Fenced, Gid
    <3>5. /\ store.Value # None /\ store.Value.Pending # None => store.Value.Pending \in MigrationRecord
          /\ store' = store
      BY DEF MigrationInv, Recorded, Successive
    <3>6. v' = v /\ v = store'
      BY <3>2, <3>5
    <3>7. CASE v.Value # None /\ v.Value.Pending # None
      BY <2>1, <3>2, <3>3, <3>4, <3>5, <3>6, <3>7 DEF Shape
    <3>8. CASE ~(v.Value # None /\ v.Value.Pending # None)
      BY <2>1, <3>2, <3>3, <3>6, <3>8 DEF Shape
    <3> QED BY <3>7, <3>8
  <2>3. CASE s = m.shard /\ new # st
    <3>1. ~Spent(m)
      BY <1>1, <2>3 DEF Spent, Frozen
    <3>2. PICK r \in MigrationRecord : UnderWay(r) /\ Asks(m, r)
      BY <3>1 DEF Harmless, Wanted
    <3>3. /\ s \in Moving(r) /\ r.To.Num = m.num /\ m.gid # NoGroup
          /\ Source(r, s) \in Gid /\ Target(r, s) \in Gid /\ Source(r, s) # Target(r, s)
      BY <1>0, <2>3, <3>2, RecordType, GroupAssumption DEF Asks, Moving
    <3>4. store.Value # None /\ store.Value.Pending = r /\ r # None /\ store' = store
      BY <3>2, NoneAssumption DEF UnderWay
    <3>5. Stages(r, s)
      BY <2>1, <3>3, <3>4 DEF Shape
    <3>6. /\ Published(r) <=> Published(r)'
          /\ Copied(r, s) => Copied(r, s)'
      BY <1>4, <3>3, KnowledgeStays
    <3>7. \A g \in Group : shards[g][s].ConfigNum \in Nat
      BY <1>0 DEF ShardState
    <3>8. \A g \in Group : g # m.gid => shards'[g][s] = shards[g][s]
      BY <1>3
    <3>9. /\ shards[m.gid][s] = st /\ shards'[m.gid][s] = new
      BY <1>3, <2>3
    <3> HIDE DEF st
    <3>10. Fenced(Source(r, s), s, m.num) => Fenced(Source(r, s), s, m.num)'
      BY <1>1, <1>4, <3>3 DEF Fenced, Advances, Gid
    <3>11. Stages(r, s)'
      <4>1. CASE m.type = "Freeze"
        <5>1. m.gid = Source(r, s) /\ new.Status = "Frozen" /\ new.ConfigNum = m.num
          BY <1>1, <2>3, <3>2, <4>1 DEF Asks
        <5> QED BY <3>3, <3>5, <3>6, <3>8, <3>9, <3>10, <5>1 DEF Stages, Frozen, Gid
      <4>2. CASE m.type = "Install"
        <5>1. /\ m.gid = Target(r, s) /\ new.Status = "Serving" /\ new.ConfigNum = m.num
              /\ Fenced(Source(r, s), s, m.num)
          BY <1>1, <2>3, <3>2, <4>2 DEF Asks
        <5> QED BY <3>3, <3>5, <3>6, <3>8, <3>9, <3>10, <5>1 DEF Stages, Frozen, Gid
      <4>3. CASE m.type = "Delete"
        <5>1. /\ m.gid = Source(r, s) /\ new.Status = "Absent" /\ new.ConfigNum = m.num
              /\ Published(r)
          BY <1>1, <2>3, <3>2, <4>3 DEF Asks
        <5> QED BY <3>3, <3>5, <3>6, <3>8, <3>9, <3>10, <5>1 DEF Stages, Frozen, Gid
      <4> QED BY <4>1, <4>2, <4>3 DEF Requested, MigrationCall
    <3> QED BY <3>3, <3>4, <3>11 DEF Shape
  <2> QED BY <2>2, <2>3
<1> QED BY <1>3, <1>4, <1>5 DEF new

\* A step that changes the copies, of a controller that gets an answer or not.
LEMMA CopiesStep ==
    ASSUME MigrationInv, UNCHANGED <<store, sent>>, Advances,
           shards' \in [Group -> [Shard -> ShardState]],
           clients' \in [Write -> PutCall],
           \A s \in Shard : Shape(s)',
           \/ UNCHANGED ctl
           \/ \E c \in Controller : \E ct : Becomes(c, ct) /\ Controls(c, ct)'
    PROVE  MigrationInv'
<1>0. UNCHANGED store /\ ctl \in [Controller -> ControllerObject]
  BY DEF MigrationInv, TypeOK
<1>1. ASSUME NEW d \in Controller PROVE Controls(d, ctl[d])'
  <2>1. PICK x : x = ctl'[d]
    OBVIOUS
  <2>2. CASE x = ctl[d]
    <3>1. Controls(d, x)
      BY <2>2, InvTypes
    <3>2. Controls(d, x)'
      BY <1>0, <3>1, ControlsStay
    <3> QED BY <2>1, <3>2
  <2>3. CASE x # ctl[d]
    <3>1. PICK c \in Controller : \E ct : Becomes(c, ct) /\ Controls(c, ct)'
      BY <2>1, <2>3
    <3>0. PICK ct : Becomes(c, ct) /\ Controls(c, ct)'
      BY <3>1
    <3>2. d = c /\ x = ct
      BY <1>0, <2>1, <2>3, <3>0 DEF Becomes
    <3> QED BY <2>1, <3>0, <3>2
  <2> QED BY <2>2, <2>3
<1>2. ctl' \in [Controller -> ControllerObject]
  <2>1. CASE UNCHANGED ctl
    BY <1>0, <2>1
  <2>2. ASSUME NEW c \in Controller, NEW ct, Becomes(c, ct), Controls(c, ct)'
        PROVE  ctl' \in [Controller -> ControllerObject]
    BY <1>0, <2>2 DEF Becomes, Controls
  <2> QED BY <2>1, <2>2
<1>3. TypeOK'
  <2>1. ASSUME NEW d \in Controller
        PROVE  /\ ctl'[d].pc \in {"cas", "readback"} => ctl'[d].state # None /\ ctl'[d].after # None
               /\ ctl'[d].pc \in MigrationCall \union {"confirm"} =>
                      ctl'[d].state # None /\ ctl'[d].state.Pending # None
               /\ ctl'[d].pc = "choose" => ctl'[d].next # None
    <3>1. Controls(d, ctl[d])'
      BY <1>1
    <3> QED BY <3>1, NoneAssumption DEF Controls, Writing, Migrating, Successive
  <2> QED BY <1>2, <2>1 DEF MigrationInv, TypeOK
<1>4. ASSUME NEW m \in sent', m.type \in MigrationCall PROVE Harmless(m)'
  <2>1. m \in Messages /\ Harmless(m)
    BY <1>4 DEF MigrationInv, TypeOK
  <2>2. m.shard \in Shard /\ m.num \in Nat
    BY <1>4, <2>1, BoundAssumption DEF Messages, MigrationCall
  <2> QED BY <1>0, <2>1, <2>2, HarmlessStays
<1>5. Recorded'
  BY <1>0 DEF MigrationInv, Recorded
<1> QED BY <1>1, <1>3, <1>4, <1>5 DEF MigrationInv

\* A request is executed whose sender does not listen.
LEMMA DelayedStep ==
    ASSUME MigrationInv, NEW m \in sent, MigrationDelayed(m)
    PROVE  MigrationInv'
<1>1. m.type \in MigrationCall /\ UNCHANGED <<store, ctl, sent, clients>> /\ Executes(m)
  BY DEF MigrationDelayed, Executes
<1>2. m \in Messages /\ Harmless(m)
  BY <1>1 DEF MigrationInv, TypeOK
<1>3. Requested(m)
  BY <1>1, <1>2 DEF Messages, MigrationCall, Requested
<1>4. clients \in [Write -> PutCall]
  BY DEF MigrationInv, TypeOK
<1> QED BY <1>1, <1>2, <1>3, <1>4, ExecuteCopies, CopiesStep

\* The request of a controller is one of its migration, and harmless.
LEMMA RequestType ==
    ASSUME MigrationInv, NEW c \in Controller, ctl[c].pc \in MigrationCall
    PROVE  Requested(Request(ctl[c])) /\ Harmless(Request(ctl[c]))
<1>0. PICK ct, m, r : ct = ctl[c] /\ m = Request(ctl[c]) /\ r = ct.state.Pending
  OBVIOUS
<1>1. ct \in ControllerObject /\ Migrating(c, ct)
  BY <1>0, InvTypes DEF Controls
<1>2. r \in MigrationRecord /\ ct.shard \in Moving(r) /\ Harmless(m) /\ Successive(r)
  BY <1>0, <1>1 DEF Migrating, Successive
<1>3. m.type = ct.pc /\ m.shard = ct.shard /\ m.num = r.To.Num /\ m.data = ct.data
  BY <1>0 DEF Request
<1>4. ct.shard \in Shard /\ m.gid \in Group /\ ct.data \in Transfer
  BY <1>1, <1>2, RecordType DEF Harmless, ControllerObject
<1>5. r.To.Num \in 2..MaxNum
  BY <1>2, BoundAssumption DEF Successive, MigrationRecord, Config
<1> QED BY <1>0, <1>2, <1>3, <1>4, <1>5 DEF Requested

\* An answer arrives, and the controller goes on.
LEMMA MigratedStep ==
    ASSUME MigrationInv, NEW c \in Controller, MigrationAnswered(c)
    PROVE  MigrationInv'
<1>0. PICK ct, m, r : ct = ctl[c] /\ m = Request(ctl[c]) /\ r = ct.state.Pending
  OBVIOUS
<1>00. PICK st, new : st = shards[m.gid][m.shard] /\ new = DoMigration(st, m)
  OBVIOUS
<1>1. /\ ct.pc \in MigrationCall /\ UNCHANGED <<store, sent, clients>> /\ Executes(m)
      /\ Becomes(c, IF Accepted(st, m) THEN Proceed(ct, new.Data) ELSE Return(ct))
  BY <1>0, <1>00 DEF MigrationAnswered, Executes
<1>2. /\ ct \in ControllerObject /\ Migrating(c, ct) /\ ct.version <= store.Version
      /\ ct.version \in Nat /\ store.Version \in Nat
  BY <1>0, <1>1, InvTypes DEF Controls
<1>3. /\ r \in MigrationRecord /\ ct.shard \in Moving(r) /\ Harmless(m)
      /\ ct.state \in ControllerState /\ ct.state.Owner = c /\ Successive(r)
      /\ UnderWay(r) \/ Finished(r)
  BY <1>0, <1>2 DEF Migrating, Successive
<1>4. /\ m.type = ct.pc /\ m.shard = ct.shard /\ m.num = r.To.Num /\ m.data = ct.data
      /\ m.gid = IF ct.pc = "Install" THEN Target(r, ct.shard) ELSE Source(r, ct.shard)
  BY <1>0 DEF Request
<1>5. Requested(m) /\ ct.shard \in Shard /\ ct.shard + 1 \in 1..NShards + 1 /\ ct.shard \in Nat
  <2>1. Requested(m) /\ ct.shard \in Shard
    BY <1>0, <1>1, <1>3, RequestType, RecordType
  <2> QED BY <2>1, ShardAssumption DEF Shard
<1>6. /\ shards' \in [Group -> [Shard -> ShardState]] /\ shards'[m.gid][m.shard] = new
      /\ Advances /\ \A s \in Shard : Shape(s)'
  BY <1>00, <1>1, <1>3, <1>5, ExecuteCopies
<1>7. /\ UnderWay(r) <=> UnderWay(r)'
      /\ Published(r) <=> Published(r)'
      /\ Finished(r) => Finished(r)'
      /\ \A s \in Moving(r) : /\ Copied(r, s) => Copied(r, s)'
                              /\ Dropped(r, s) => Dropped(r, s)'
  BY <1>1, <1>3, <1>6, KnowledgeStays
<1>8. /\ new.ConfigNum \in Nat /\ m.num \in Nat
      /\ Accepted(st, m) =>
           IF m.type = "Delete"
           THEN new.ConfigNum > m.num \/ (new.ConfigNum = m.num /\ new.Status = "Absent")
           ELSE new.ConfigNum = m.num
  <2>1. st \in ShardState
    BY <1>00, <1>5 DEF MigrationInv, TypeOK, Requested
  <2> QED BY <1>00, <1>5, <2>1, ExecuteType
<1>9. PICK next : next = IF Accepted(st, m) THEN Proceed(ct, new.Data) ELSE Return(ct)
  OBVIOUS
<1>10. Controls(c, next)'
  <2>1. CASE ~Accepted(st, m)
    <3>1. Controls(c, Return(ct))'
      BY <1>1, <1>2, GoOnNext DEF ReturnsGoOn
    <3> QED BY <1>9, <2>1, <3>1
  <2>2. CASE Accepted(st, m) /\ ct.pc = "Freeze" /\ Target(r, ct.shard) # NoGroup
    <3>1. next = [ct EXCEPT !.pc = "Install", !.data = new.Data, !.called = FALSE]
      BY <1>0, <1>9, <2>2 DEF Proceed
    <3>2. /\ next \in ControllerObject /\ next.pc = "Install" /\ next.data = new.Data
          /\ next.version = ct.version /\ next.state = ct.state /\ next.shard = ct.shard
      <4>1. new.Data \in Transfer
        BY <1>5, <1>6 DEF Requested, ShardState
      <4> QED BY <1>2, <3>1, <4>1 DEF ControllerObject, MigrationCall
    <3>3. PICK q : q = Request(next)
      OBVIOUS
    <3>4. /\ q.type = "Install" /\ q.shard = ct.shard /\ q.num = r.To.Num
          /\ q.gid = Target(r, ct.shard) /\ q.data = new.Data
      BY <1>0, <3>2, <3>3 DEF Request
    <3>5. new.ConfigNum = r.To.Num /\ m.gid = Source(r, ct.shard) /\ m.shard = ct.shard
      BY <1>4, <1>8, <2>2
    <3>6. Fenced(Source(r, ct.shard), ct.shard, r.To.Num)'
      BY <1>6, <1>8, <1>4, <3>5 DEF Fenced
    <3>7. Harmless(q)'
      <4>1. q.gid \in Group /\ Source(r, ct.shard) # NoGroup
        BY <1>3, <1>5, <2>2, <3>4, <3>5, RecordType, GroupAssumption DEF Gid, Requested
      <4>2. CASE UnderWay(r)
        <5>1. Asks(q, r)'
          BY <1>3, <1>6, <3>4, <3>5, <3>6, <4>1 DEF Asks
        <5> QED BY <1>3, <1>7, <4>1, <4>2, <5>1 DEF Harmless, Wanted
      <4>3. CASE Finished(r)
        <5>1. Copied(r, ct.shard)'
          BY <1>3, <1>7, <4>3 DEF Finished
        <5> QED BY <2>2, <3>4, <4>1, <5>1 DEF Harmless, Spent, Copied, Fenced
      <4> QED BY <1>3, <4>2, <4>3
    <3>8. Migrating(c, next)'
      <4>1. /\ ct.state.Current = r.From
            /\ ct.version = store.Version =>
                 /\ store.Value = ct.state
                 /\ \A s \in Moving(r) : s < ct.shard => Copied(r, s)
        BY <1>0, <1>2, <2>2 DEF Migrating
      <4>2. ct.version = store'.Version =>
                 /\ store'.Value = ct.state
                 /\ \A s \in Moving(r) : s < ct.shard => Copied(r, s)'
        BY <1>1, <1>7, <4>1
      <4>3. Harmless(Request(next))'
        BY <3>3, <3>7
      <4> QED BY <1>0, <1>3, <1>7, <3>2, <4>1, <4>2, <4>3 DEF Migrating
    <3> QED BY <1>1, <1>2, <3>2, <3>8 DEF Controls, MigrationCall
  <2>3. ASSUME NEW k, k \in {ct, [ct EXCEPT !.called = FALSE]}
        PROVE  /\ Holds(c, k, ct.shard + 1)'
               /\ k.state = ct.state /\ k.version = ct.version
    <3>1. k \in ControllerObject /\ k.state = ct.state /\ k.version = ct.version
      BY <1>2, <2>3 DEF ControllerObject
    <3>2. ct.version = store.Version => store.Value = ct.state
      BY <1>2 DEF Migrating
    <3> QED BY <1>0, <1>1, <1>2, <1>3, <1>5, <1>7, <3>1, <3>2 DEF Holds
  <2>4. CASE /\ Accepted(st, m) /\ ct.pc \in {"Freeze", "Install"}
             /\ ct.pc = "Freeze" => Target(r, ct.shard) = NoGroup
    <3>1. PICK k \in {ct, [ct EXCEPT !.called = FALSE]} : next = CopyFrom(k, ct.shard + 1)
      BY <1>0, <1>9, <2>4 DEF Proceed
    <3>2. /\ ct.state.Current = r.From
          /\ ct.version = store.Version =>
               /\ store.Value = ct.state
               /\ \A s \in Moving(r) : s < ct.shard => Copied(r, s)
      BY <1>0, <1>2, <2>4 DEF Migrating
    <3>3. ct.version = store.Version => Copied(r, ct.shard)'
      <4>1. CASE ct.pc = "Freeze"
        BY <1>4, <1>6, <1>8, <2>4, <4>1 DEF Copied, Fenced
      <4>2. ASSUME ct.pc = "Install", ct.version = store.Version PROVE Copied(r, ct.shard)'
        <5>1. UnderWay(r) /\ store.Value # None /\ store.Value.Pending = r /\ r # None
          BY <1>0, <1>3, <3>2, <4>2, NoneAssumption DEF UnderWay
        <5>2. Stages(r, ct.shard)'
          <6>1. Shape(ct.shard)'
            BY <1>5, <1>6
          <6> QED BY <1>1, <1>3, <5>1, <6>1 DEF Shape
        <5>3. new.ConfigNum = r.To.Num /\ m.gid = Target(r, ct.shard) /\ m.gid # NoGroup
          BY <1>4, <1>5, <1>8, <2>4, <4>2, GroupAssumption DEF Requested
        <5>4. shards'[Target(r, ct.shard)][ct.shard].ConfigNum = r.To.Num /\ r.To.Num \in Nat
          BY <1>4, <1>6, <1>8, <5>3
        <5>5. Fenced(Source(r, ct.shard), ct.shard, r.To.Num)'
          BY <5>2, <5>3, <5>4 DEF Stages
        <5> QED BY <5>4, <5>5 DEF Copied, Fenced
      <4> QED BY <2>4, <4>1, <4>2
    <3>4. \A s \in Moving(r) : s < ct.shard + 1 => s < ct.shard \/ s = ct.shard
      BY <1>3, <1>5, RecordType
    <3>5. k.version = store'.Version => \A s \in Moving(r) : s < ct.shard + 1 => Copied(r, s)'
      BY <1>1, <1>7, <2>3, <3>1, <3>2, <3>3, <3>4
    <3>6. /\ Holds(c, k, ct.shard + 1)' /\ k.state.Pending = r /\ k.state.Current = r.From
      BY <1>0, <2>3, <3>1, <3>2
    <3>7. Controls(c, CopyFrom(k, ct.shard + 1))'
      BY <3>5, <3>6, GoOnNext DEF LoopsGoOn
    <3> QED BY <3>1, <3>7
  <2>5. CASE Accepted(st, m) /\ ct.pc = "Delete"
    <3>1. PICK k : k = [ct EXCEPT !.called = FALSE]
      OBVIOUS
    <3>2. next = DeleteFrom(k, ct.shard + 1)
      BY <1>0, <1>9, <2>5, <3>1 DEF Proceed
    <3>3. /\ ct.state.Current = r.To /\ (Published(r) \/ Finished(r))
          /\ ct.version = store.Version =>
               \A s \in Moving(r) : s < ct.shard => Dropped(r, s)
      BY <1>0, <1>2, <2>5 DEF Migrating
    <3>4. Dropped(r, ct.shard)'
      BY <1>4, <1>6, <1>8, <2>5 DEF Dropped, Frozen
    <3>5. \A s \in Moving(r) : s < ct.shard + 1 => s < ct.shard \/ s = ct.shard
      BY <1>3, <1>5, RecordType
    <3>6. k.version = store'.Version => \A s \in Moving(r) : s < ct.shard + 1 => Dropped(r, s)'
      BY <1>1, <1>7, <2>3, <3>1, <3>3, <3>4, <3>5
    <3>7. /\ Holds(c, k, ct.shard + 1)' /\ k.state.Pending = r /\ k.state.Current = r.To
          /\ Published(r)' \/ Finished(r)'
      BY <1>0, <1>7, <1>2, <2>3, <2>5, <3>1 DEF Migrating
    <3>8. Controls(c, DeleteFrom(k, ct.shard + 1))'
      BY <3>6, <3>7, GoOnNext DEF LoopsGoOn
    <3> QED BY <3>2, <3>8
  <2> QED BY <1>1, <2>1, <2>2, <2>4, <2>5 DEF MigrationCall
<1>11. clients \in [Write -> PutCall]
  BY DEF MigrationInv, TypeOK
<1> QED BY <1>1, <1>6, <1>9, <1>10, <1>11, CopiesStep

----------------------------------------------------------------------------
(***************************************************************************)
(* Steps of the clerks.                                                    *)
(***************************************************************************)
\* What a Put does to the values and the answered requests of a shard.
LEMMA PutType ==
    ASSUME NEW data \in Transfer, NEW w \in Write
    PROVE  /\ Answer(data, w) \in Reply
           /\ DoPut(data, w) \in Transfer
<1>1. data.Values \in Seq(Write) /\ data.Requests \in [Write -> Reply \cup {None}]
  BY DEF Transfer
<1>2. PutResult(data, clients[w].version) \in Reply
  <2>1. PutResult(data, clients[w].version) \in {"ErrNoKey", "ErrVersion", "OK"}
    BY DEF PutResult
  <2> QED BY <2>1 DEF Reply
<1>3. Append(data.Values, w) \in Seq(Write)
  BY <1>1
<1>4. [data.Requests EXCEPT ![w] = PutResult(data, clients[w].version)]
          \in [Write -> Reply \cup {None}]
  BY <1>1, <1>2
<1> QED BY <1>1, <1>2, <1>3, <1>4 DEF Answer, DoPut, Transfer

\* A group executes a Put: configuration numbers and statuses stay.
LEMMA PutStep ==
    ASSUME MigrationInv, NEW m \in sent, NEW heard \in BOOLEAN, Put(m, heard)
    PROVE  MigrationInv'
<1> DEFINE s0 == ShardOf[m.id]
           st == shards[m.gid][s0]
<1>0. /\ m.type = "Put" /\ UNCHANGED <<store, ctl, sent>>
      /\ shards' = IF st.Status = "Serving"
                   THEN [shards EXCEPT ![m.gid][s0].Data = DoPut(@, m.id)] ELSE shards
      /\ clients' = IF ~heard THEN clients
                    ELSE IF st.Status = "Serving"
                    THEN [clients EXCEPT ![m.id].pc = "done", ![m.id].gid = NoGroup,
                                         ![m.id].answer = Answer(st.Data, m.id)]
                    ELSE [clients EXCEPT ![m.id].gid = NoGroup]
  BY DEF Put
<1>1. m.id \in Write /\ m.gid \in Group /\ s0 \in Shard
  <2>1. m \in Messages /\ m.type \notin MigrationCall
    BY <1>0 DEF MigrationInv, TypeOK, MigrationCall
  <2> QED BY <2>1, ShardAssumption DEF Messages
<1>2. /\ shards \in [Group -> [Shard -> ShardState]] /\ clients \in [Write -> PutCall]
      /\ st \in ShardState /\ st.Data \in Transfer
  BY <1>1 DEF MigrationInv, TypeOK, ShardState
<1>3. shards' \in [Group -> [Shard -> ShardState]]
  <2>1. CASE st.Status = "Serving"
    <3>1. DoPut(st.Data, m.id) \in Transfer
      BY <1>1, <1>2, PutType
    <3>2. [st EXCEPT !.Data = DoPut(st.Data, m.id)] \in ShardState
      BY <1>2, <3>1 DEF ShardState
    <3>3. shards' = [shards EXCEPT ![m.gid][s0] = [st EXCEPT !.Data = DoPut(st.Data, m.id)]]
      BY <1>0, <2>1
    <3> HIDE DEF st, s0
    <3> QED BY <1>1, <1>2, <3>2, <3>3
  <2> QED BY <1>0, <1>2, <2>1
<1>4. ASSUME NEW g \in Group, NEW s \in Shard
      PROVE  /\ shards'[g][s].Status = shards[g][s].Status
             /\ shards'[g][s].ConfigNum = shards[g][s].ConfigNum
             /\ shards'[g][s].Status # "Serving" => shards'[g][s] = shards[g][s]
  <2>1. shards[g][s] \in ShardState
    BY <1>2
  <2>2. CASE g = m.gid /\ s = s0 /\ st.Status = "Serving"
    <3>1. shards'[g][s] = [st EXCEPT !.Data = DoPut(st.Data, m.id)]
      BY <1>0, <1>1, <1>2, <2>2
    <3> QED BY <2>1, <2>2, <3>1 DEF ShardState
  <2>3. CASE ~(g = m.gid /\ s = s0 /\ st.Status = "Serving")
    <3>1. shards'[g][s] = shards[g][s]
      <4>1. CASE st.Status # "Serving"
        BY <1>0, <4>1
      <4>2. CASE st.Status = "Serving"
        BY <1>0, <1>1, <1>2, <2>3, <4>2
      <4> QED BY <4>1, <4>2
    <3> QED BY <3>1
  <2> QED BY <2>2, <2>3
<1>5. Advances
  <2>1. \A g \in Group, s \in Shard : shards[g][s].ConfigNum \in Nat
    BY <1>2 DEF ShardState
  <2> QED BY <1>4, <2>1 DEF Advances
<1>6. ASSUME NEW s \in Shard PROVE Shape(s)'
  <2>1. Shape(s)
    BY DEF MigrationInv
  <2>2. \A k : Settled(k, s) => Settled(k, s)'
    BY <1>4 DEF Settled
  <2>3. ASSUME NEW r \in MigrationRecord, s \in Moving(r), Stages(r, s) PROVE Stages(r, s)'
    <3>1. Source(r, s) \in Gid /\ Target(r, s) \in Gid
      BY RecordType
    <3>2. /\ Published(r) <=> Published(r)'
          /\ Copied(r, s) => Copied(r, s)'
      BY <1>0, <1>5, <2>3, KnowledgeStays
    <3> QED BY <1>4, <2>3, <3>1, <3>2 DEF Stages, Frozen, Fenced, Gid
  <2>4. PICK v : v = store /\ v = store'
    BY <1>0
  <2>5. v.Value # None /\ v.Value.Pending # None => v.Value.Pending \in MigrationRecord
    BY <2>4 DEF MigrationInv, Recorded, Successive
  <2>6. CASE v.Value # None /\ v.Value.Pending # None
    BY <2>1, <2>2, <2>3, <2>4, <2>5, <2>6 DEF Shape
  <2>7. CASE ~(v.Value # None /\ v.Value.Pending # None)
    BY <2>1, <2>2, <2>4, <2>7 DEF Shape
  <2> QED BY <2>6, <2>7
<1>7. clients' \in [Write -> PutCall]
  <2>1. Answer(st.Data, m.id) \in Reply \cup {None} /\ NoGroup \in Gid
    BY <1>1, <1>2, PutType DEF Gid
  <2>2. clients[m.id] \in PutCall
    BY <1>1, <1>2
  <2>3. /\ [clients[m.id] EXCEPT !.gid = NoGroup] \in PutCall
        /\ [clients[m.id] EXCEPT !.pc = "done", !.gid = NoGroup,
                                 !.answer = Answer(st.Data, m.id)] \in PutCall
    BY <2>1, <2>2 DEF PutCall
  <2> HIDE DEF st, s0
  <2>4. clients' \in {clients,
              [clients EXCEPT ![m.id] = [clients[m.id] EXCEPT !.gid = NoGroup]],
              [clients EXCEPT ![m.id] = [clients[m.id] EXCEPT !.pc = "done", !.gid = NoGroup,
                                                  !.answer = Answer(st.Data, m.id)]]}
    BY <1>0, <1>1, <1>2
  <2> QED BY <1>1, <1>2, <2>3, <2>4
<1> QED BY <1>0, <1>3, <1>5, <1>6, <1>7, CopiesStep

\* A clerk alone.
LEMMA ClerkAlone ==
    ASSUME MigrationInv, UNCHANGED <<store, ctl, shards>>,
           clients' \in [Write -> PutCall],
           \A m \in sent' : m \in sent \/ (m \in Messages /\ m.type = "Put")
    PROVE  MigrationInv'
<1>1. TypeOK'
  BY DEF MigrationInv, TypeOK
<1>2. ASSUME NEW d \in Controller PROVE Controls(d, ctl[d])'
  <2>1. PICK x : x = ctl[d] /\ x = ctl'[d]
    OBVIOUS
  <2>2. Controls(d, x)'
    BY <2>1, InvTypes, SameKnowledge
  <2> QED BY <2>1, <2>2
<1>3. \A m \in sent' : m.type \in MigrationCall => Harmless(m)'
  BY SameKnowledge DEF MigrationInv, MigrationCall
<1> QED BY <1>1, <1>2, <1>3, SameKnowledge DEF MigrationInv

\* The steps of a clerk that no group takes part in.
ClerkStep(w) ==
    \/ \E version \in 0..MaxVersion : BeginPut(w, version)
    \/ loadConfig(w)
    \/ SendPut(w)
    \/ GroupUnreachable(w)

\* They change the call of the clerk or send its Put.
LEMMA ClientStep ==
    ASSUME MigrationInv, NEW w \in Write, ClerkStep(w)
    PROVE  MigrationInv'
<1>0. /\ clients \in [Write -> PutCall] /\ clients[w] \in PutCall
      /\ store.Value \in ControllerState \cup {None}
  BY DEF MigrationInv, TypeOK
<1>1. ASSUME NEW version \in 0..MaxVersion, BeginPut(w, version) PROVE MigrationInv'
  <2>1. [clients[w] EXCEPT !.pc = "active", !.version = version] \in PutCall
    BY <1>0 DEF PutCall
  <2>2. clients' = [clients EXCEPT ![w] = [clients[w] EXCEPT !.pc = "active", !.version = version]]
    BY <1>0, <1>1 DEF BeginPut
  <2> QED BY <1>0, <1>1, <2>1, <2>2, ClerkAlone DEF BeginPut
<1>2. CASE loadConfig(w)
  <2>1. store.Value.Current.Shards[ShardOf[w]] \in Gid
    <3>1. store.Value.Current \in Config
      BY <1>0, <1>2 DEF loadConfig, ControllerState
    <3>2. store.Value.Current.Shards \in [Shard -> Gid]
      BY <3>1, AssignmentAssumption, GroupAssumption DEF Config, Gid
    <3> QED BY <3>2, ShardAssumption
  <2>2. [clients[w] EXCEPT !.gid = store.Value.Current.Shards[ShardOf[w]]] \in PutCall
    BY <1>0, <2>1 DEF PutCall
  <2>3. clients' = [clients EXCEPT ![w] =
            [clients[w] EXCEPT !.gid = store.Value.Current.Shards[ShardOf[w]]]]
    BY <1>0, <1>2 DEF loadConfig
  <2> QED BY <1>0, <1>2, <2>2, <2>3, ClerkAlone DEF loadConfig
<1>3. CASE SendPut(w)
  <2>1. PutMessage(w, clients[w].gid) \in Messages /\ PutMessage(w, clients[w].gid).type = "Put"
    BY <1>0, <1>3 DEF SendPut, PutMessage, Messages, PutCall, Gid
  <2> QED BY <1>0, <1>3, <2>1, ClerkAlone DEF SendPut
<1>4. CASE GroupUnreachable(w)
  <2>1. [clients[w] EXCEPT !.gid = NoGroup] \in PutCall
    BY <1>0 DEF PutCall, Gid
  <2>2. clients' = [clients EXCEPT ![w] = [clients[w] EXCEPT !.gid = NoGroup]]
    BY <1>0, <1>4 DEF GroupUnreachable
  <2> QED BY <1>0, <1>4, <2>1, <2>2, ClerkAlone DEF GroupUnreachable
<1> QED BY <1>1, <1>2, <1>3, <1>4 DEF ClerkStep

----------------------------------------------------------------------------
(***************************************************************************)
(* The theorems.                                                           *)
(***************************************************************************)
\* Every shard starts at the first group, and no migration has begun.
LEMMA InitInv == Init => MigrationInv
<1> SUFFICES ASSUME Init PROVE MigrationInv
  OBVIOUS
<1>0. /\ store.Version = 0 /\ store.Value = None /\ sent = {}
      /\ ctl = [c \in Controller |-> IdleController]
      /\ shards \in [Group -> [Shard -> ShardState]]
      /\ clients \in [Write -> PutCall]
  <2>1. shards \in [Group -> [Shard -> ShardState]]
    <3>1. 0 \in 0..MaxNum /\ 1 \in 0..MaxNum
      BY BoundAssumption
    <3> QED BY <3>1, EmptyType DEF Init, ShardState
  <2>2. clients \in [Write -> PutCall]
    <3>1. 0 \in 0..MaxVersion
      BY BoundAssumption
    <3> QED BY <3>1 DEF Init, PutCall, Gid
  <2> QED BY <2>1, <2>2 DEF Init
<1>1. IdleController \in ControllerObject /\ IdleController.pc = "idle"
      /\ IdleController.version = 0
  BY EmptyType, ShardAssumption, BoundAssumption DEF IdleController, ControllerObject
<1>2. \A c \in Controller : Controls(c, ctl[c])
  BY <1>0, <1>1, RestingControls
<1>3. TypeOK
  <2>1. store \in [Version : Nat, Value : ControllerState \union {None}]
    BY DEF Init
  <2> QED BY <1>0, <1>1, <2>1 DEF TypeOK, MigrationCall
<1>4. ASSUME NEW s \in Shard PROVE Shape(s)
  <2>1. InitialConfig.Num = 1 /\ InitialConfig.Shards[s] = Gid1
    BY DEF InitialConfig
  <2>2. \A g \in Group : /\ shards[g][s].ConfigNum <= 1
                         /\ shards[g][s].Status = IF Gid1 = g THEN "Serving" ELSE "Absent"
    BY DEF Init
  <2> QED BY <1>0, <2>1, <2>2 DEF Shape, Settled
<1> QED BY <1>0, <1>2, <1>3, <1>4 DEF MigrationInv, Recorded

\* Every step keeps what is known true.
LEMMA NextInv == MigrationInv /\ [Next]_vars => MigrationInv'
<1> SUFFICES ASSUME MigrationInv, [Next]_vars PROVE MigrationInv'
  OBVIOUS
<1>1. ASSUME NEW c \in Controller,
             \/ InitConfig(c)
             \/ \E next \in Configured \union {None} : Call(c, next)
             \/ ControllerStep(c)
             \/ PutFailed(c)
             \/ CallFailed(c)
      PROVE  MigrationInv'
  <2>1. CASE ControllerStep(c)
    BY <2>1, ElectStep, AnsweredStep, ReadBackStep, RecoverStep, ConfirmStep, ChooseStep,
       SendStep, MigratedStep DEF ControllerStep
  <2> QED BY <1>1, <2>1, BeginStep, FailedStep, SendStep
<1>2. ASSUME NEW m \in sent, MigrationDelayed(m) PROVE MigrationInv'
  BY <1>2, DelayedStep
<1>3. ASSUME NEW w \in Write, ClerkStep(w) PROVE MigrationInv'
  BY <1>3, ClientStep
<1>4. ASSUME NEW m \in sent, NEW heard \in BOOLEAN, Put(m, heard) PROVE MigrationInv'
  BY <1>4, PutStep
<1>5. CASE UNCHANGED vars
  BY <1>5, ClerkAlone DEF vars, MigrationInv, TypeOK
<1> QED BY <1>1, <1>2, <1>3, <1>4, <1>5 DEF Next, ClerkStep

\* Whoever takes over when, and whatever arrives late: every controller, every
\* request under way and every copy is as MigrationInv says.
THEOREM MigrationInvariant == Spec => []MigrationInv
  BY InitInv, NextInv, PTL DEF Spec

\* Where the copies of a shard can be: by the record, the copies of a shard that
\* does not move are settled, and a shard that moves is at one of its stages.
LEMMA ShapeCases ==
    ASSUME MigrationInv, NEW s \in Shard
    PROVE  /\ \A g \in Group : shards[g][s].ConfigNum \in Nat
           /\ \/ \E k : /\ Settled(k, s) /\ k.Num \in Nat
                        /\ store.Value # None => store.Value.Current.Shards[s] = k.Shards[s]
              \/ \E r \in MigrationRecord :
                   /\ store.Value # None /\ store.Value.Pending = r /\ r # None
                   /\ store.Value.Current \in {r.From, r.To} /\ Successive(r)
                   /\ s \in Moving(r) /\ Stages(r, s)
                   /\ Source(r, s) \in Gid /\ Target(r, s) \in Gid
                   /\ Source(r, s) # Target(r, s) /\ r.To.Num \in Nat
<1>1. \A g \in Group : shards[g][s].ConfigNum \in Nat
  BY DEF MigrationInv, TypeOK, ShardState
<1>2. Shape(s) /\ Recorded /\ store.Value \in ControllerState \cup {None}
  BY DEF MigrationInv, TypeOK
<1>3. CASE store.Value = None
  BY <1>1, <1>2, <1>3 DEF Shape, InitialConfig
<1>4. CASE store.Value # None /\ store.Value.Pending = None
  <2>1. store.Value.Current.Num \in Nat
    BY <1>2, <1>4 DEF ControllerState, Config
  <2> QED BY <1>1, <1>2, <1>4, <2>1 DEF Shape
<1>5. CASE store.Value # None /\ store.Value.Pending # None
  <2>1. PICK r : r = store.Value.Pending
    OBVIOUS
  <2>2. r \in MigrationRecord /\ Successive(r) /\ store.Value.Current \in {r.From, r.To}
    BY <1>2, <1>5, <2>1 DEF Recorded, Successive
  <2>3. CASE s \in Moving(r)
    <3>1. Stages(r, s)
      BY <1>2, <1>5, <2>1, <2>3 DEF Shape
    <3>2. /\ Source(r, s) \in Gid /\ Target(r, s) \in Gid
          /\ Source(r, s) # Target(r, s) /\ r.To.Num \in Nat
      BY <2>2, <2>3, RecordType DEF Moving
    <3> QED BY <1>1, <1>5, <2>1, <2>2, <2>3, <3>1, <3>2
  <2>4. CASE s \notin Moving(r)
    <3>1. Settled(r.From, s)
      BY <1>2, <1>5, <2>1, <2>4 DEF Shape
    <3>2. r.From.Num \in Nat /\ r.From.Shards[s] = r.To.Shards[s]
      BY <2>2, <2>4, RecordType DEF Moving, Source, Target
    <3> QED BY <1>1, <2>2, <3>1, <3>2
  <2> QED BY <2>3, <2>4
<1> QED BY <1>3, <1>4, <1>5

\* The serving copy is the newest.
LEMMA NewestCopy == MigrationInv => ServingCopyIsNewest
<1> SUFFICES ASSUME MigrationInv, NEW s \in Shard, NEW g \in Group, NEW h \in Group,
                    shards[g][s].Status = "Serving", g # h
             PROVE  \/ shards[h][s].Status = "Absent"
                    \/ /\ shards[h][s].Status = "Frozen"
                       /\ shards[h][s].ConfigNum <= shards[g][s].ConfigNum
  BY DEF ServingCopyIsNewest
<1>1. CASE \E k : Settled(k, s)
  BY <1>1 DEF Settled
<1>2. ASSUME NEW r \in MigrationRecord, Stages(r, s), Source(r, s) # Target(r, s),
             r.To.Num \in Nat
      PROVE  \/ shards[h][s].Status = "Absent"
             \/ /\ shards[h][s].Status = "Frozen"
                /\ shards[h][s].ConfigNum <= shards[g][s].ConfigNum
  <2>1. g # NoGroup /\ h # NoGroup
    BY GroupAssumption
  <2>2. shards[g][s].ConfigNum \in Nat /\ shards[h][s].ConfigNum \in Nat
    BY ShapeCases
  <2>3. CASE h \notin {Source(r, s), Target(r, s)}
    BY <1>2, <2>3 DEF Stages
  <2>4. CASE h = Source(r, s)
    <3>1. g = Target(r, s)
      BY <1>2, <2>4 DEF Stages
    <3>2. shards[g][s].ConfigNum = r.To.Num /\ shards[h][s].ConfigNum >= r.To.Num
      BY <1>2, <2>1, <2>4, <3>1 DEF Stages, Fenced
    <3> QED BY <1>2, <2>1, <2>2, <2>4, <3>2 DEF Stages, Frozen
  <2>5. CASE h = Target(r, s)
    <3>1. g = Source(r, s)
      BY <1>2, <2>5 DEF Stages
    <3>2. shards[g][s].ConfigNum < r.To.Num
      BY <1>2, <2>1, <3>1 DEF Stages, Frozen
    <3> QED BY <1>2, <2>1, <2>2, <2>5, <3>1, <3>2 DEF Stages, Fenced
  <2> QED BY <2>3, <2>4, <2>5
<1> QED BY <1>1, <1>2, ShapeCases

\* At most one group serves a shard, and no frozen copy is newer (the fencing of
\* DoOp by configuration number), for any number of groups and controllers.
THEOREM ServingIsNewest == Spec => []ServingCopyIsNewest
  BY NewestCopy, MigrationInvariant, PTL

\* When no migration is pending every shard is where the record says, and only
\* there (recoverPendingLocked clears the record last).
THEOREM SettledHolds == Spec => []SettledConfigurationHolds
<1>1. MigrationInv => SettledConfigurationHolds
  BY DEF MigrationInv, SettledConfigurationHolds, Shape, Settled
<1> QED BY <1>1, MigrationInvariant, PTL

\* The owner a published configuration names serves its shard, or has frozen it
\* for the migration that is pending.
THEOREM PublishedServes == Spec => []PublishedOwnerServes
<1>1. MigrationInv => PublishedOwnerServes
  <2> SUFFICES ASSUME MigrationInv, store.Value # None, NEW s \in Shard,
                      NEW g, g = store.Value.Current.Shards[s], g # NoGroup
               PROVE  \/ shards[g][s].Status = "Serving"
                      \/ /\ store.Value.Pending # None
                         /\ store.Value.Current = store.Value.Pending.From
                         /\ store.Value.Pending.To.Shards[s] # g
                         /\ shards[g][s].Status = "Frozen"
    BY DEF PublishedOwnerServes
  <2>1. g \in Group
    <3>1. store.Value.Current \in Config
      BY DEF MigrationInv, TypeOK, ControllerState
    <3> QED BY <3>1, AssignmentAssumption, GroupAssumption DEF Config, Gid
  <2>2. CASE \E k : Settled(k, s) /\ store.Value.Current.Shards[s] = k.Shards[s]
    BY <2>1, <2>2 DEF Settled
  <2>3. ASSUME NEW r \in MigrationRecord, store.Value.Pending = r, r # None,
               store.Value.Current \in {r.From, r.To}, Successive(r), Stages(r, s),
               Source(r, s) # Target(r, s), r.To.Num \in Nat
        PROVE  \/ shards[g][s].Status = "Serving"
               \/ /\ store.Value.Pending # None
                  /\ store.Value.Current = store.Value.Pending.From
                  /\ store.Value.Pending.To.Shards[s] # g
                  /\ shards[g][s].Status = "Frozen"
    <3>1. shards[g][s].ConfigNum \in Nat
      BY <2>1, ShapeCases
    <3>2. CASE store.Value.Current = r.To
      <4>1. Published(r) /\ Copied(r, s) /\ g = Target(r, s)
        BY <2>3, <3>2 DEF Published, UnderWay, Stages, Target
      <4> QED BY <2>3, <3>1, <4>1 DEF Stages, Copied, Fenced
    <3>3. CASE store.Value.Current = r.From
      <4>1. r.From # r.To
        BY <2>3, RecordType DEF Successive
      <4>2. ~Published(r) /\ g = Source(r, s)
        BY <3>3, <4>1 DEF Published, Source
      <4> QED BY <2>3, <3>3, <4>2 DEF Stages, Frozen, Source, Target
    <3> QED BY <2>3, <3>2, <3>3
  <2> QED BY <2>2, <2>3, ShapeCases
<1> QED BY <1>1, MigrationInvariant, PTL

\* A chosen migration is never replaced, and only its target is published.
THEOREM PlanStaysImmutable == Spec => PlanIsImmutable
<1> DEFINE Immutable ==
      store.Value # None =>
        LET old == store.Value
            new == store'.Value
        IN  /\ old.Pending \notin {None, new.Pending} =>
                    new.Pending = None /\ old.Current = old.Pending.To
            /\ old.Current # new.Current =>
                    old.Pending = [From |-> old.Current, To |-> new.Current]
<1>1. ASSUME MigrationInv, [Next]_vars PROVE [Immutable]_vars
  <2>0. SUFFICES ASSUME store.Value # None PROVE Immutable
    OBVIOUS
  <2>1. CASE UNCHANGED store
    BY <2>1
  <2>2. CASE \E c \in Controller : Written(c)
    <3>1. PICK c \in Controller : Written(c)
      BY <2>2
    <3>2. PICK old, new : old = store.Value /\ new = store'.Value
      OBVIOUS
    <3>3. old # None /\ old \in ControllerState /\ new = ctl[c].state
      BY <1>1, <2>0, <3>1, <3>2, WriteIsLegal, InvTypes
    <3>4. Legal(c, ctl[c]) /\ ctl[c].after # "initialized"
      BY <1>1, <2>0, <3>1, WriteIsLegal
    <3>5. /\ old.Pending \notin {None, new.Pending} =>
                    new.Pending = None /\ old.Current = old.Pending.To
          /\ old.Current # new.Current =>
                    old.Pending = [From |-> old.Current, To |-> new.Current]
      <4>1. CASE new = Elected(c)
        BY <3>2, <3>3, <4>1 DEF Elected, ControllerState
      <4>2. CASE old.Pending = None /\ \E r : new = [old EXCEPT !.Pending = r]
        BY <3>3, <4>2 DEF ControllerState
      <4>3. CASE /\ old.Pending # None /\ old.Current = old.Pending.From
                 /\ new = [old EXCEPT !.Current = old.Pending.To]
        <5>1. new.Pending = old.Pending /\ new.Current = old.Pending.To
          BY <3>3, <4>3 DEF ControllerState
        <5>2. old.Pending \in MigrationRecord
          BY <3>3, <4>3 DEF ControllerState
        <5>3. old.Pending = [From |-> old.Pending.From, To |-> old.Pending.To]
          BY <5>2 DEF MigrationRecord
        <5> QED BY <4>3, <5>1, <5>3
      <4>4. CASE /\ old.Current = old.Pending.To /\ new = [old EXCEPT !.Pending = None]
        BY <3>3, <4>4 DEF ControllerState
      <4> QED BY <3>2, <3>3, <3>4, <4>1, <4>2, <4>3, <4>4 DEF Legal
    <3> QED BY <3>2, <3>5
  <2>3. UNCHANGED store \/ \E c \in Controller : Written(c)
    <3>1. ASSUME NEW c \in Controller, PutAnswered(c) \/ PutFailed(c)
          PROVE  UNCHANGED store \/ Written(c)
      BY <3>1 DEF PutAnswered, PutFailed, PutEntry, Written
    <3>2. CASE \E c \in Controller : PutAnswered(c) \/ PutFailed(c)
      BY <3>1, <3>2
    <3>3. CASE ~\E c \in Controller : PutAnswered(c) \/ PutFailed(c)
      BY <1>1, <3>3 DEF Next, ControllerStep, InitConfig, Call, ensureLeadership, ReadBack,
            recoverPending, confirmPublished, chooseMigration, SendMigration,
            MigrationAnswered, CallFailed, MigrationDelayed, BeginPut, loadConfig, SendPut,
            GroupUnreachable, Put, vars
    <3> QED BY <3>2, <3>3
  <2> QED BY <2>1, <2>2, <2>3
<1>2. MigrationInv /\ [Next]_vars => [Immutable]_vars
  BY <1>1
<1>3. Spec => [][Immutable]_vars
  BY <1>2, MigrationInvariant, PTL DEF Spec
<1> QED BY <1>3 DEF PlanIsImmutable

----------------------------------------------------------------------------
(***************************************************************************)
(* The refinement: the groups together are one store.                      *)
(***************************************************************************)
\* Which copy of a shard counts.
HeldByCopies ==
    \A s \in Shard :
        /\ \A g \in Group : shards[g][s].Status = "Serving" => Held(s) = shards[g][s].Data
        /\ \A g \in Group :
              /\ shards[g][s].Status = "Frozen"
              /\ \A h \in Group \ {g} : shards[h][s].Status = "Absent"
              => Held(s) = shards[g][s].Data
        /\ (\A g \in Group : shards[g][s].Status = "Absent") => Held(s) = EmptyTransfer

\* The serving copy counts, or the only one, which is frozen.
LEMMA HeldCopy == MigrationInv => HeldByCopies
<1> SUFFICES ASSUME MigrationInv, NEW s \in Shard
             PROVE  /\ \A g \in Group : shards[g][s].Status = "Serving" =>
                                            Held(s) = shards[g][s].Data
                    /\ \A g \in Group :
                          /\ shards[g][s].Status = "Frozen"
                          /\ \A h \in Group \ {g} : shards[h][s].Status = "Absent"
                          => Held(s) = shards[g][s].Data
                    /\ (\A g \in Group : shards[g][s].Status = "Absent") =>
                            Held(s) = EmptyTransfer
  BY DEF HeldByCopies
<1>0. /\ \A g \in Group : shards[g][s].ConfigNum \in Nat
      /\ \A g, h \in Group :
            shards[g][s].Status = "Serving" /\ g # h =>
              \/ shards[h][s].Status = "Absent"
              \/ /\ shards[h][s].Status = "Frozen"
                 /\ shards[h][s].ConfigNum <= shards[g][s].ConfigNum
  BY ShapeCases, NewestCopy DEF ServingCopyIsNewest
<1> DEFINE Counts(g) == \A h \in Copies(s) :
              \/ shards[h][s].ConfigNum < shards[g][s].ConfigNum
              \/ /\ shards[h][s].ConfigNum = shards[g][s].ConfigNum
                 /\ shards[g][s].Status = "Serving" \/ g = h
<1>1. ASSUME NEW g \in Copies(s), Counts(g) PROVE Held(s) = shards[g][s].Data
  <2>1. Newest(s) \in Copies(s) /\ Counts(Newest(s))
    <3>1. Newest(s) = CHOOSE x \in Copies(s) : Counts(x)
      BY DEF Newest
    <3> HIDE DEF Counts
    <3> QED BY <1>1, <3>1
  <2>2. Copies(s) \subseteq Group
    BY DEF Copies
  <2>3. Newest(s) = g
    <3>1. SUFFICES ASSUME Newest(s) # g PROVE FALSE
      OBVIOUS
    <3>2. PICK x : x = Newest(s)
      OBVIOUS
    <3>3. x \in Group /\ g \in Group /\ Counts(x) /\ x \in Copies(s) /\ x # g
      BY <1>1, <2>1, <2>2, <3>1, <3>2
    <3>4. /\ shards[x][s].ConfigNum = shards[g][s].ConfigNum
          /\ shards[x][s].Status = "Serving" /\ shards[g][s].Status = "Serving"
      BY <1>0, <1>1, <3>3
    <3> QED BY <1>0, <3>3, <3>4
  <2> QED BY <1>1, <2>3 DEF Held
<1>2. ASSUME NEW g \in Group, shards[g][s].Status = "Serving"
      PROVE  Held(s) = shards[g][s].Data
  <2>1. g \in Copies(s)
    BY <1>2 DEF Copies
  <2>2. Counts(g)
    BY <1>0, <1>2 DEF Copies
  <2> QED BY <1>1, <2>1, <2>2
<1>3. ASSUME NEW g \in Group, shards[g][s].Status = "Frozen",
             \A h \in Group \ {g} : shards[h][s].Status = "Absent"
      PROVE  Held(s) = shards[g][s].Data
  <2>1. g \in Copies(s) /\ Counts(g)
    BY <1>3 DEF Copies
  <2> QED BY <1>1, <2>1
<1>4. ASSUME \A g \in Group : shards[g][s].Status = "Absent" PROVE Held(s) = EmptyTransfer
  BY <1>4 DEF Held, Copies
<1> QED BY <1>2, <1>3, <1>4

\* The same of the state after a step.
LEMMA HeldCopyNext == MigrationInv' => HeldByCopies'
  BY HeldCopy, PTL

\* The initial states are those of the store.
LEMMA StoreInitial == Init => Store!StoreInit
<1> SUFFICES ASSUME Init PROVE Store!StoreInit
  OBVIOUS
<1>1. HeldByCopies
  BY InitInv, HeldCopy
<1>2. ASSUME NEW s \in Shard PROVE Held(s) = EmptyTransfer
  <2>1. /\ Gid1 \in Group /\ shards[Gid1][s].Status = "Serving"
        /\ shards[Gid1][s].Data = EmptyTransfer
    BY GroupAssumption DEF Init
  <2> QED BY <1>1, <2>1 DEF HeldByCopies
<1>3. Stored = [s \in Shard |-> Store!Blank]
  BY <1>2 DEF Stored, Store!Blank, EmptyTransfer
<1>4. Assigned = [s \in Shard |-> TRUE]
  BY DEF Assigned, Init
<1>5. Calls = [w \in Write |-> [pc |-> "idle", version |-> 0, answer |-> None]]
  BY DEF Calls, Init
<1> QED BY <1>3, <1>4, <1>5 DEF Store!StoreInit

\* A Put that is under way was begun.
PutsBegun == \A m \in sent : m.type = "Put" => clients[m.id].pc # "idle"
StoreInv == MigrationInv /\ PutsBegun

\* Nobody goes back to idle.
LEMMA BegunNext == StoreInv /\ [Next]_vars => PutsBegun'
<1> SUFFICES ASSUME StoreInv, [Next]_vars PROVE PutsBegun'
  OBVIOUS
<1>0. MigrationInv /\ PutsBegun /\ clients \in [Write -> PutCall]
      /\ \A m \in sent : m \in Messages
  BY DEF StoreInv, MigrationInv, TypeOK
<1>1. \A m \in sent : m.type = "Put" => m.id \in Write
  BY <1>0 DEF Messages, MigrationCall
<1>2. CASE UNCHANGED <<sent, clients>>
  BY <1>0, <1>2 DEF PutsBegun
<1>3. ASSUME NEW w \in Write, NEW version \in 0..MaxVersion, BeginPut(w, version) PROVE PutsBegun'
  <2>1. \A x \in Write : clients[x].pc # "idle" => clients'[x].pc # "idle"
    BY <1>0, <1>3 DEF BeginPut, PutCall
  <2> QED BY <1>0, <1>1, <1>3, <2>1 DEF PutsBegun, BeginPut
<1>4. ASSUME NEW w \in Write, loadConfig(w) \/ GroupUnreachable(w) PROVE PutsBegun'
  <2>1. \A x \in Write : clients'[x].pc = clients[x].pc
    BY <1>0, <1>4 DEF loadConfig, GroupUnreachable, PutCall
  <2> QED BY <1>0, <1>1, <1>4, <2>1 DEF PutsBegun, loadConfig, GroupUnreachable
<1>5. ASSUME NEW w \in Write, SendPut(w) PROVE PutsBegun'
  BY <1>0, <1>1, <1>5 DEF PutsBegun, SendPut, PutMessage
<1>6. ASSUME NEW m \in sent, NEW heard \in BOOLEAN, Put(m, heard) PROVE PutsBegun'
  <2>1. m.id \in Write /\ sent' = sent
    BY <1>1, <1>6 DEF Put
  <2>2. \/ clients' = clients
        \/ \E a : clients' = [clients EXCEPT ![m.id].pc = "done", ![m.id].gid = NoGroup,
                                             ![m.id].answer = a]
        \/ clients' = [clients EXCEPT ![m.id].gid = NoGroup]
    BY <1>6 DEF Put
  <2>3. ASSUME NEW x \in Write, clients[x].pc # "idle" PROVE clients'[x].pc # "idle"
    <3>1. clients[x] \in PutCall
      BY <1>0
    <3>2. CASE \E a : clients' = [clients EXCEPT ![m.id].pc = "done", ![m.id].gid = NoGroup,
                                                 ![m.id].answer = a]
      <4>1. PICK a : clients' = [clients EXCEPT ![m.id].pc = "done", ![m.id].gid = NoGroup,
                                                ![m.id].answer = a]
        BY <3>2
      <4>2. clients'[x].pc = IF x = m.id THEN "done" ELSE clients[x].pc
        BY <1>0, <2>1, <3>1, <4>1 DEF PutCall
      <4> QED BY <2>3, <4>2
    <3>3. CASE clients' = [clients EXCEPT ![m.id].gid = NoGroup]
      BY <1>0, <2>1, <2>3, <3>1, <3>3 DEF PutCall
    <3> QED BY <2>2, <2>3, <3>2, <3>3
  <2> QED BY <1>0, <1>1, <2>1, <2>3 DEF PutsBegun
<1>7. ASSUME NEW c \in Controller, SendMigration(c) PROVE PutsBegun'
  <2>1. clients' = clients /\ \A m \in sent' : m \in sent \/ m.type \in MigrationCall
    BY <1>7 DEF SendMigration, Request
  <2> QED BY <1>0, <2>1 DEF PutsBegun, MigrationCall
<1>8. ASSUME ~\E c \in Controller : SendMigration(c),
             ~\E w \in Write : ClerkStep(w),
             ~\E m \in sent, heard \in BOOLEAN : Put(m, heard)
      PROVE  UNCHANGED <<sent, clients>>
  BY <1>8 DEF Next, ClerkStep, ControllerStep, InitConfig, Call, ensureLeadership, ReadBack,
        recoverPending, confirmPublished, chooseMigration, PutAnswered, PutFailed,
        MigrationAnswered, CallFailed, MigrationDelayed, vars
<1> QED BY <1>2, <1>3, <1>4, <1>5, <1>6, <1>7, <1>8 DEF ClerkStep

\* The invariant of the refinement.
LEMMA StoreInvariant == Spec => []StoreInv
<1>1. Init => StoreInv
  BY InitInv DEF StoreInv, PutsBegun, Init
<1>2. StoreInv /\ [Next]_vars => StoreInv'
  BY NextInv, BegunNext DEF StoreInv
<1> QED BY <1>1, <1>2, PTL DEF Spec

\* What the clients see depends on the copies, the record and the calls.
LEMMA SameStore ==
    /\ UNCHANGED shards => UNCHANGED Stored
    /\ UNCHANGED store => UNCHANGED Assigned
    /\ UNCHANGED clients => UNCHANGED Calls
<1>1. UNCHANGED shards => UNCHANGED Stored
  <2> SUFFICES ASSUME UNCHANGED shards PROVE UNCHANGED Stored
    OBVIOUS
  <2>1. \A s : Copies(s)' = Copies(s)
    BY DEF Copies
  <2>2. \A s : Newest(s)' = Newest(s)
    BY <2>1 DEF Newest
  <2> QED BY <2>1, <2>2 DEF Stored, Held
<1> QED BY <1>1 DEF Assigned, Calls

\* A write of the record is at most a publication.
LEMMA WriteIsPublish ==
    ASSUME UNCHANGED <<shards, clients>>
    PROVE  Store!Publish
<1>1. UNCHANGED <<Stored, Calls>>
  BY SameStore
<1>2. Assigned' \in [Shard -> BOOLEAN]
  BY DEF Assigned
<1> QED BY <1>1, <1>2 DEF Store!Publish

\* The copy that counts depends on the copies of its shard only.
LEMMA HeldByShard ==
    ASSUME MigrationInv, MigrationInv', NEW t \in Shard,
           \A g \in Group : shards'[g][t] = shards[g][t]
    PROVE  Held(t)' = Held(t)
<1>0. HeldByCopies /\ HeldByCopies' /\ \A g \in Group : shards[g][t] \in ShardState
  BY HeldCopy, HeldCopyNext DEF MigrationInv, TypeOK
<1>1. CASE \A g \in Group : shards[g][t].Status = "Absent"
  BY <1>0, <1>1 DEF HeldByCopies
<1>2. CASE \E g \in Group : shards[g][t].Status = "Serving"
  BY <1>0, <1>2 DEF HeldByCopies
<1>3. CASE /\ ~\A g \in Group : shards[g][t].Status = "Absent"
           /\ ~\E g \in Group : shards[g][t].Status = "Serving"
  <2>1. PICK g \in Group : shards[g][t].Status # "Absent"
    BY <1>3
  <2>2. shards[g][t].Status = "Frozen"
    BY <1>0, <1>3, <2>1 DEF ShardState
  <2>3. \A h \in Group \ {g} : shards[h][t].Status = "Absent"
    <3>1. CASE \E k : Settled(k, t)
      BY <1>3, <2>2, <3>1 DEF Settled
    <3>2. ASSUME NEW r \in MigrationRecord, Stages(r, t), Source(r, t) # Target(r, t)
          PROVE  \A h \in Group \ {g} : shards[h][t].Status = "Absent"
      BY <1>3, <2>2, <3>2, GroupAssumption DEF Stages
    <3> QED BY <3>1, <3>2, ShapeCases
  <2> QED BY <1>0, <2>2, <2>3 DEF HeldByCopies
<1> QED BY <1>1, <1>2, <1>3

\* A Freeze, an Install or a Delete moves the data or forgets what nobody is
\* assigned.
LEMMA ExecuteRefines ==
    ASSUME MigrationInv, MigrationInv', NEW m, Requested(m), Harmless(m), Executes(m),
           UNCHANGED <<store, clients>>
    PROVE  (\E s \in Shard : Store!Forget(s)) \/ UNCHANGED Store!storeVars
<1>0. PICK st, new : st = shards[m.gid][m.shard] /\ new = DoMigration(st, m)
  OBVIOUS
<1>1. /\ shards \in [Group -> [Shard -> ShardState]] /\ m.gid \in Group /\ m.shard \in Shard
      /\ st \in ShardState
  BY <1>0 DEF MigrationInv, TypeOK, Requested
<1>2. /\ st.ConfigNum \in Nat /\ new.ConfigNum \in Nat /\ m.num \in Nat
      /\ \/ new = st
         \/ /\ m.type = "Freeze" /\ st.Status = "Serving" /\ m.num > st.ConfigNum
            /\ new.Status = "Frozen" /\ new.ConfigNum = m.num /\ new.Data = st.Data
         \/ /\ m.type = "Install" /\ st.Status = "Absent" /\ m.num > st.ConfigNum
            /\ new.Status = "Serving" /\ new.ConfigNum = m.num /\ new.Data = m.data
         \/ /\ m.type = "Delete" /\ st.Status = "Frozen" /\ m.num = st.ConfigNum
            /\ new.Status = "Absent" /\ new.ConfigNum = m.num
            /\ new.Data = EmptyTransfer
  BY <1>0, <1>1, ExecuteType
<1>3. /\ shards' = [shards EXCEPT ![m.gid][m.shard] = new]
      /\ UNCHANGED <<Assigned, Calls>>
  BY <1>0, SameStore DEF Executes
<1>4. /\ shards'[m.gid][m.shard] = new
      /\ \A g \in Group, s \in Shard :
            g # m.gid \/ s # m.shard => shards'[g][s] = shards[g][s]
  BY <1>1, <1>3
<1>5. CASE new = st
  <2>1. shards' = shards
    BY <1>0, <1>1, <1>3, <1>5
  <2> QED BY <1>3, <2>1, SameStore DEF Store!storeVars
<1>6. CASE new # st
  <2>1. ~Spent(m)
    BY <1>0, <1>2, <1>6 DEF Spent, Frozen
  <2>2. PICK r \in MigrationRecord : UnderWay(r) /\ Asks(m, r)
    BY <2>1 DEF Harmless, Wanted
  <2>3. PICK s \in Shard : s = m.shard
    BY <1>1
  <2>4. /\ s \in Moving(r) /\ r.To.Num = m.num /\ m.gid # NoGroup
        /\ Source(r, s) \in Gid /\ Target(r, s) \in Gid /\ Source(r, s) # Target(r, s)
    BY <1>1, <2>2, <2>3, RecordType, GroupAssumption DEF Asks, Moving
  <2>5. Stages(r, s)
    <3>1. store.Value # None /\ store.Value.Pending = r /\ r # None
      BY <2>2, NoneAssumption DEF UnderWay
    <3>2. Shape(s)
      BY DEF MigrationInv
    <3> QED BY <2>4, <3>1, <3>2 DEF Shape
  <2>6. \A g \in Group : shards[g][s].ConfigNum \in Nat
    BY ShapeCases
  <2>7. HeldByCopies /\ HeldByCopies'
    BY HeldCopy, HeldCopyNext
  <2>8. ASSUME NEW t \in Shard, t # s PROVE Held(t)' = Held(t)
    <3>1. \A g \in Group : shards'[g][t] = shards[g][t]
      BY <1>4, <2>3, <2>8
    <3> QED BY <3>1, HeldByShard
  <2>9. /\ shards[m.gid][s] = st /\ shards'[m.gid][s] = new
        /\ \A g \in Group : g # m.gid => shards'[g][s] = shards[g][s]
    BY <1>0, <1>4, <2>3
  <2>10. ASSUME Held(s)' = Held(s) PROVE UNCHANGED Store!storeVars
    BY <1>3, <2>8, <2>10 DEF Stored, Store!storeVars
  <2>11. CASE m.type = "Freeze"
    <3>1. /\ m.gid = Source(r, s) /\ st.Status = "Serving" /\ m.num > st.ConfigNum
          /\ new.Status = "Frozen" /\ new.Data = st.Data
      BY <1>2, <1>6, <2>2, <2>3, <2>11 DEF Asks
    <3>2. \A g \in Group \ {m.gid} : shards[g][s].Status = "Absent"
      BY <1>2, <2>4, <2>5, <2>9, <3>1, GroupAssumption DEF Stages, Fenced
    <3>3. Held(s) = st.Data
      BY <1>1, <2>7, <2>9, <3>1 DEF HeldByCopies
    <3>4. Held(s)' = new.Data
      BY <1>1, <2>7, <2>9, <3>1, <3>2 DEF HeldByCopies
    <3> QED BY <2>10, <3>1, <3>3, <3>4
  <2>12. CASE m.type = "Install"
    <3>1. /\ m.gid = Target(r, s) /\ st.Status = "Absent" /\ m.num > st.ConfigNum
          /\ new.Status = "Serving" /\ new.Data = m.data
          /\ Fenced(Source(r, s), s, m.num)
          /\ IF Source(r, s) = NoGroup THEN m.data = EmptyTransfer
             ELSE Frozen(Source(r, s), s, m.num) => m.data = shards[Source(r, s)][s].Data
      BY <1>2, <1>6, <2>2, <2>3, <2>12 DEF Asks
    <3>2. Held(s)' = m.data
      BY <1>1, <2>7, <2>9, <3>1 DEF HeldByCopies
    <3>3. ~Published(r)
      BY <1>2, <2>4, <2>5, <2>9, <3>1 DEF Stages, Copied, Fenced
    <3>4. CASE Source(r, s) = NoGroup
      <4>1. \A g \in Group : shards[g][s].Status = "Absent"
        BY <2>4, <2>5, <2>9, <3>1, <3>4, GroupAssumption DEF Stages
      <4>2. Held(s) = EmptyTransfer
        BY <2>7, <4>1 DEF HeldByCopies
      <4> QED BY <2>10, <3>1, <3>2, <3>4, <4>2
    <3>5. CASE Source(r, s) # NoGroup
      <4>1. Source(r, s) \in Group /\ Frozen(Source(r, s), s, m.num)
        BY <1>2, <2>4, <2>5, <2>6, <3>1, <3>3, <3>5 DEF Stages, Fenced, Gid
      <4>2. \A g \in Group \ {Source(r, s)} : shards[g][s].Status = "Absent"
        BY <2>4, <2>5, <2>9, <3>1, <4>1 DEF Stages
      <4>3. Held(s) = shards[Source(r, s)][s].Data
        BY <2>7, <4>1, <4>2 DEF HeldByCopies, Frozen
      <4> QED BY <2>10, <3>1, <3>2, <3>5, <4>1, <4>3
    <3> QED BY <3>4, <3>5
  <2>13. CASE m.type = "Delete"
    <3>1. /\ m.gid = Source(r, s) /\ st.Status = "Frozen" /\ new.Status = "Absent"
          /\ Published(r) /\ Copied(r, s)
      BY <1>2, <1>6, <2>2, <2>3, <2>5, <2>13 DEF Asks, Stages
    <3>2. CASE Target(r, s) # NoGroup
      <4>1. /\ Target(r, s) \in Group /\ Target(r, s) # m.gid
            /\ shards[Target(r, s)][s].Status = "Serving"
        BY <1>2, <2>4, <2>5, <2>6, <3>1, <3>2 DEF Stages, Copied, Fenced, Gid
      <4>2. PICK b \in Group : b = Target(r, s)
        BY <4>1
      <4>3. shards[b][s].Status = "Serving" /\ shards'[b][s] = shards[b][s]
        BY <2>9, <4>1, <4>2
      <4>4. Held(s) = shards[b][s].Data /\ Held(s)' = shards'[b][s].Data
        BY <2>7, <4>3 DEF HeldByCopies
      <4> QED BY <2>10, <4>3, <4>4
    <3>3. CASE Target(r, s) = NoGroup
      <4>1. \A g \in Group : shards'[g][s].Status = "Absent"
        BY <2>4, <2>5, <2>9, <3>1, <3>3, GroupAssumption DEF Stages
      <4>2. Held(s)' = EmptyTransfer
        BY <2>7, <4>1 DEF HeldByCopies
      <4>3. ~Assigned[s]
        BY <3>1, <3>3 DEF Assigned, Published, UnderWay, Target
      <4>4. Stored' = [Stored EXCEPT ![s] = Store!Blank]
        <5>1. Store!Blank = EmptyTransfer
          BY DEF Store!Blank, EmptyTransfer
        <5> QED BY <2>8, <4>2, <5>1 DEF Stored
      <4> QED BY <1>3, <4>3, <4>4 DEF Store!Forget
    <3> QED BY <3>2, <3>3
  <2> QED BY <2>11, <2>12, <2>13 DEF Requested, MigrationCall
<1> QED BY <1>5, <1>6

\* The state machine answers a Put as the store does.
LEMMA SameOutcome ==
    ASSUME NEW d \in Transfer, NEW version \in Nat
    PROVE  PutResult(d, version) = Store!Outcome(d, version)
<1>1. d.Values \in Seq(Write)
  BY DEF Transfer
<1>2. CASE d.Values = << >>
  <2>1. Len(d.Values) = 0
    BY <1>2
  <2> QED BY <1>2, <2>1 DEF PutResult, Store!Outcome
<1>3. CASE d.Values # << >>
  BY <1>1, <1>3 DEF PutResult, Store!Outcome
<1> QED BY <1>2, <1>3

\* A Put that a group executes performs the request, tells its client or both.
LEMMA PutRefines ==
    ASSUME StoreInv, MigrationInv', NEW m \in sent, NEW heard \in BOOLEAN, Put(m, heard)
    PROVE  \/ \E w \in Write : Store!Perform(w) \/ Store!Tell(w) \/ Store!PerformAndTell(w)
           \/ UNCHANGED Store!storeVars
<1>0. PICK w, g, st : w = m.id /\ g = m.gid /\ st = shards[m.gid][ShardOf[m.id]]
  OBVIOUS
<1>1. /\ m.type = "Put" /\ UNCHANGED <<store, ctl, sent>>
      /\ heard => clients[w].pc = "active"
      /\ shards' = IF st.Status = "Serving"
                   THEN [shards EXCEPT ![g][ShardOf[w]].Data = DoPut(@, w)] ELSE shards
      /\ clients' = IF ~heard THEN clients
                    ELSE IF st.Status = "Serving"
                    THEN [clients EXCEPT ![w].pc = "done", ![w].gid = NoGroup,
                                         ![w].answer = Answer(st.Data, w)]
                    ELSE [clients EXCEPT ![w].gid = NoGroup]
  BY <1>0 DEF Put
<1>2. w \in Write /\ g \in Group /\ ShardOf[w] \in Shard
  <2>1. m \in Messages /\ m.type \notin MigrationCall
    BY <1>1 DEF StoreInv, MigrationInv, TypeOK, MigrationCall
  <2> QED BY <1>0, <2>1, ShardAssumption DEF Messages
<1>3. /\ MigrationInv /\ shards \in [Group -> [Shard -> ShardState]]
      /\ clients \in [Write -> PutCall] /\ clients[w] \in PutCall
      /\ clients[w].pc # "idle" /\ clients[w].version \in Nat
      /\ st = shards[g][ShardOf[w]] /\ st \in ShardState /\ st.Data \in Transfer
  <2>1. /\ MigrationInv /\ shards \in [Group -> [Shard -> ShardState]]
        /\ clients \in [Write -> PutCall]
    BY DEF StoreInv, MigrationInv, TypeOK
  <2>2. clients[w].pc # "idle"
    BY <1>0, <1>1 DEF StoreInv, PutsBegun
  <2>3. clients[w] \in PutCall /\ clients[w].version \in Nat
    BY <1>2, <2>1, BoundAssumption DEF PutCall
  <2>4. st = shards[g][ShardOf[w]] /\ st \in ShardState /\ st.Data \in Transfer
    BY <1>0, <1>2, <2>1 DEF ShardState
  <2> QED BY <2>1, <2>2, <2>3, <2>4
<1>4. UNCHANGED Assigned
  BY <1>1, SameStore
<1>5. /\ Calls[w].pc = clients[w].pc /\ Calls[w].version = clients[w].version
      /\ Calls \in [Write -> [pc : {"idle", "active", "done"}, version : 0..MaxVersion,
                              answer : Reply \union {None}]]
  BY <1>2, <1>3 DEF Calls, PutCall
<1>6. CASE st.Status # "Serving"
  <2>1. UNCHANGED Stored
    BY <1>1, <1>6, SameStore
  <2>2. \A x \in Write : /\ clients'[x].pc = clients[x].pc /\ clients'[x].answer = clients[x].answer
                         /\ clients'[x].version = clients[x].version
    BY <1>1, <1>2, <1>3, <1>6 DEF PutCall
  <2>3. UNCHANGED Calls
    BY <2>2 DEF Calls
  <2> QED BY <1>4, <2>1, <2>3 DEF Store!storeVars
<1>7. CASE st.Status = "Serving"
  <2>0. PICK s, d, a, res : /\ s = ShardOf[w] /\ d = st.Data /\ a = Answer(st.Data, w)
                            /\ res = PutResult(st.Data, clients[w].version)
    OBVIOUS
  <2>1. /\ shards' = [shards EXCEPT ![g][s] = [st EXCEPT !.Data = DoPut(d, w)]]
        /\ s \in Shard
    BY <1>1, <1>2, <1>3, <1>7, <2>0
  <2>2. /\ shards'[g][s].Status = "Serving" /\ shards'[g][s].Data = DoPut(d, w)
        /\ \A h \in Group, t \in Shard : t # s => shards'[h][t] = shards[h][t]
    BY <1>2, <1>3, <1>7, <2>1 DEF ShardState
  <2>3. Held(s) = d /\ Held(s)' = DoPut(d, w)
    <3>1. HeldByCopies /\ HeldByCopies'
      BY <1>3, HeldCopy, HeldCopyNext
    <3> QED BY <1>2, <1>3, <1>7, <2>0, <2>1, <2>2, <3>1 DEF HeldByCopies
  <2>4. \A t \in Shard : t # s => Held(t)' = Held(t)
    BY <1>3, <2>2, HeldByShard
  <2>5. /\ Stored' = [Stored EXCEPT ![s] = DoPut(d, w)] /\ Stored[s] = d
        /\ Stored = [Stored EXCEPT ![s] = d]
    BY <2>1, <2>3, <2>4 DEF Stored
  <2>6. heard => Calls' = [Calls EXCEPT ![w].pc = "done", ![w].answer = a]
    <3> SUFFICES ASSUME heard PROVE Calls' = [Calls EXCEPT ![w].pc = "done", ![w].answer = a]
      OBVIOUS
    <3>1. \A x \in Write :
            /\ clients'[x].pc = IF x = w THEN "done" ELSE clients[x].pc
            /\ clients'[x].answer = IF x = w THEN a ELSE clients[x].answer
            /\ clients'[x].version = clients[x].version
      BY <1>1, <1>2, <1>3, <1>7, <2>0 DEF PutCall
    <3> QED BY <1>2, <3>1 DEF Calls
  <2>7. ~heard => UNCHANGED Calls
    BY <1>1, SameStore
  <2>8. d \in Transfer /\ d.Requests \in [Write -> Reply \cup {None}]
    BY <1>3, <2>0 DEF Transfer
  <2>9. CASE d.Requests[w] # None
    <3>1. DoPut(d, w) = d /\ a = d.Requests[w]
      BY <2>0, <2>9 DEF DoPut, Answer
    <3>2. UNCHANGED Stored
      BY <2>5, <3>1
    <3>3. CASE heard
      <4>1. Store!Tell(w)
        BY <1>1, <1>4, <1>5, <2>0, <2>5, <2>6, <2>9, <3>1, <3>2, <3>3
           DEF Store!Tell, Store!Told
      <4> QED BY <1>2, <4>1
    <3>4. CASE ~heard
      BY <1>4, <2>7, <3>2, <3>4 DEF Store!storeVars
    <3> QED BY <3>3, <3>4
  <2>10. CASE d.Requests[w] = None
    <3>1. res = Store!Outcome(d, Calls[w].version) /\ res \in Reply /\ res # None /\ a = res
      <4>1. res = Store!Outcome(d, Calls[w].version)
        BY <1>3, <1>5, <2>0, <2>8, SameOutcome
      <4>2. a = res
        BY <2>0, <2>10 DEF Answer
      <4>3. a \in Reply
        BY <1>2, <2>0, <2>8, PutType
      <4> QED BY <4>1, <4>2, <4>3, NoneAssumption
    <3>2. DoPut(d, w) = [Values |-> IF res = "OK" THEN Append(d.Values, w) ELSE d.Values,
                         Requests |-> [d.Requests EXCEPT ![w] = res]]
      BY <2>0, <2>10 DEF DoPut
    <3>3. Store!Effect(w)
      BY <2>0, <2>5, <2>10, <3>1, <3>2 DEF Store!Effect
    <3>4. CASE heard
      <4>1. Store!PerformAndTell(w)
        BY <1>1, <1>4, <1>5, <2>0, <2>5, <2>6, <3>1, <3>3, <3>4
           DEF Store!PerformAndTell, Store!Told
      <4> QED BY <1>2, <4>1
    <3>5. CASE ~heard
      <4>1. Store!Perform(w)
        BY <1>3, <1>4, <1>5, <2>7, <3>3, <3>5 DEF Store!Perform
      <4> QED BY <1>2, <4>1
    <3> QED BY <3>4, <3>5
  <2> QED BY <2>9, <2>10
<1> QED BY <1>6, <1>7

\* A step of a clerk alone begins a call or is not seen.
LEMMA ClerkRefines ==
    ASSUME StoreInv, NEW w \in Write, ClerkStep(w)
    PROVE  \/ \E version \in 0..MaxVersion : Store!Begin(w, version)
           \/ UNCHANGED Store!storeVars
<1>0. clients \in [Write -> PutCall] /\ UNCHANGED <<store, shards>>
  BY DEF StoreInv, MigrationInv, TypeOK, ClerkStep, BeginPut, loadConfig, SendPut,
         GroupUnreachable
<1>1. UNCHANGED <<Stored, Assigned>>
  BY <1>0, SameStore
<1>2. ASSUME NEW version \in 0..MaxVersion, BeginPut(w, version)
      PROVE  Store!Begin(w, version)
  <2>1. \A x \in Write :
          /\ clients'[x].pc = IF x = w THEN "active" ELSE clients[x].pc
          /\ clients'[x].version = IF x = w THEN version ELSE clients[x].version
          /\ clients'[x].answer = clients[x].answer
    BY <1>0, <1>2 DEF BeginPut, PutCall
  <2>2. Calls' = [Calls EXCEPT ![w].pc = "active", ![w].version = version]
    BY <2>1 DEF Calls
  <2>3. Calls[w].pc = "idle"
    BY <1>2 DEF Calls, BeginPut
  <2> QED BY <1>1, <2>2, <2>3 DEF Store!Begin
<1>3. CASE loadConfig(w) \/ GroupUnreachable(w)
  <2>1. \A x \in Write : /\ clients'[x].pc = clients[x].pc /\ clients'[x].answer = clients[x].answer
                         /\ clients'[x].version = clients[x].version
    BY <1>0, <1>3 DEF loadConfig, GroupUnreachable, PutCall
  <2>2. UNCHANGED Calls
    BY <2>1 DEF Calls
  <2> QED BY <1>1, <2>2 DEF Store!storeVars
<1>4. CASE SendPut(w)
  <2>1. UNCHANGED Calls
    BY <1>4, SameStore DEF SendPut
  <2> QED BY <1>1, <2>1 DEF Store!storeVars
<1> QED BY <1>2, <1>3, <1>4 DEF ClerkStep

\* Every step is a step of the store, or not seen.
LEMMA StoreStep == StoreInv /\ [Next]_vars => [Store!StoreNext]_(Store!storeVars)
<1> SUFFICES ASSUME StoreInv, [Next]_vars
             PROVE  Store!StoreNext \/ UNCHANGED Store!storeVars
  OBVIOUS
<1>0. MigrationInv /\ MigrationInv'
  BY NextInv DEF StoreInv
<1>1. ASSUME NEW m \in sent, MigrationDelayed(m)
      PROVE  Store!StoreNext \/ UNCHANGED Store!storeVars
  <2>1. m.type \in MigrationCall /\ UNCHANGED <<store, clients>> /\ Executes(m)
    BY <1>1 DEF MigrationDelayed, Executes
  <2>2. m \in Messages /\ Harmless(m)
    BY <1>0, <2>1 DEF MigrationInv, TypeOK
  <2>3. Requested(m)
    BY <2>1, <2>2 DEF Messages, MigrationCall, Requested
  <2> QED BY <1>0, <2>1, <2>2, <2>3, ExecuteRefines DEF Store!StoreNext
<1>2. ASSUME NEW c \in Controller, MigrationAnswered(c)
      PROVE  Store!StoreNext \/ UNCHANGED Store!storeVars
  <2>0. PICK m : m = Request(ctl[c])
    OBVIOUS
  <2>1. ctl[c].pc \in MigrationCall /\ UNCHANGED <<store, clients>> /\ Executes(m)
    BY <1>2, <2>0 DEF MigrationAnswered, Executes
  <2>2. Requested(m) /\ Harmless(m)
    BY <1>0, <2>0, <2>1, RequestType
  <2> QED BY <1>0, <2>1, <2>2, ExecuteRefines DEF Store!StoreNext
<1>3. ASSUME NEW m \in sent, NEW heard \in BOOLEAN, Put(m, heard)
      PROVE  Store!StoreNext \/ UNCHANGED Store!storeVars
  BY <1>0, <1>3, PutRefines DEF Store!StoreNext
<1>4. ASSUME NEW w \in Write, ClerkStep(w)
      PROVE  Store!StoreNext \/ UNCHANGED Store!storeVars
  BY <1>4, ClerkRefines DEF Store!StoreNext
<1>5. ASSUME NEW c \in Controller, PutAnswered(c) \/ PutFailed(c)
      PROVE  Store!StoreNext \/ UNCHANGED Store!storeVars
  <2>1. UNCHANGED <<shards, clients>>
    BY <1>5 DEF PutAnswered, PutFailed
  <2> QED BY <2>1, WriteIsPublish DEF Store!StoreNext
<1>6. ASSUME ~\E m \in sent : MigrationDelayed(m),
             ~\E c \in Controller :
                MigrationAnswered(c) \/ PutAnswered(c) \/ PutFailed(c),
             ~\E w \in Write : ClerkStep(w),
             ~\E m \in sent, heard \in BOOLEAN : Put(m, heard)
      PROVE  UNCHANGED Store!storeVars
  <2>1. UNCHANGED <<store, shards, clients>>
    BY <1>6 DEF Next, ClerkStep, ControllerStep, InitConfig, Call, ensureLeadership, ReadBack,
          recoverPending, confirmPublished, chooseMigration, SendMigration, CallFailed, vars
  <2> QED BY <2>1, SameStore DEF Store!storeVars
<1> QED BY <1>1, <1>2, <1>3, <1>4, <1>5, <1>6

\* Through every migration, takeover, delayed request and retry the groups
\* together are one store that executes each Put at most once.
THEOREM GroupsAreOneStore == Spec => ImplementsStore
<1>1. Spec => Store!StoreSpec
  BY StoreInitial, StoreStep, StoreInvariant, PTL DEF Spec, Store!StoreSpec
<1> QED BY <1>1 DEF ImplementsStore
=============================================================================
