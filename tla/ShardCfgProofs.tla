--------------------------- MODULE ShardCfgProofs ---------------------------
(***************************************************************************)
(* Proofs about ShardCfg, for every number of groups and administrators    *)
(* and up to 256 shards.  An iteration of Rebalance, in whatever order Go  *)
(* walks through the map of groups, is a function of the state             *)
(* it starts from, so what an administrator arrives at is determined       *)
(* (SameResult); and no group both gives and receives a shard, from which  *)
(* it follows that the result is balanced at the least cost                *)
(* (RebalanceIsOptimal).                                                   *)
(***************************************************************************)
EXTENDS ShardCfg, FiniteSetTheorems, FunctionTheorems, TLAPS

(***************************************************************************)
(* Finite sets.                                                            *)
(***************************************************************************)
\* A function on a finite set has a least value.
LEMMA LeastOfFinite ==
  ASSUME NEW S, IsFiniteSet(S), S # {}, NEW f \in [S -> Int]
  PROVE  \E x \in S : \A y \in S : f[x] <= f[y]
<1> DEFINE below(x) == {y \in S : f[y] < f[x]}
           family == {below(x) : x \in S}
           R == StrictSubsetOrdering(S)
           F == FiniteSubsetsOf(S)
<1>1. IsWellFoundedOn(R, F)
  BY FS_StrictSubsetOrderingWellFounded
<1>2. family \subseteq F
  BY FS_Subset DEF FiniteSubsetsOf
<1>3. family # {}
  <2>1. PICK z \in S : TRUE
    OBVIOUS
  <2>2. below(z) \in family
    OBVIOUS
  <2> QED BY <2>2
<1>4. \E u \in family : \A v \in family : ~(<<v, u>> \in R)
  <2> HIDE DEF family, R, F
  <2> QED BY <1>1, <1>2, <1>3, WFMin
<1>5. PICK x \in S : \A v \in family : ~(<<v, below(x)>> \in R)
  BY <1>4
<1>6. ASSUME NEW y \in S, f[y] < f[x] PROVE FALSE
  <2>1. below(y) \subseteq below(x) /\ y \in below(x) /\ y \notin below(y)
    BY <1>6
  <2>2. <<below(y), below(x)>> \in R
    BY <2>1 DEF StrictSubsetOrdering
  <2> QED BY <2>2, <1>5
<1>7. \A y \in S : f[x] <= f[y]
  BY <1>6
<1> QED BY <1>7

LEMMA ShardsFinite ==
  /\ IsFiniteSet(Shard)
  /\ Cardinality(Shard) = NShards
  /\ \A X \in SUBSET Shard : IsFiniteSet(X) /\ Cardinality(X) \in Nat
<1>1. NShards \in Int /\ ~(1 > NShards)
  BY SizeAssumption
<1>2. IsFiniteSet(Shard) /\ Cardinality(Shard) = NShards
  BY <1>1, FS_Interval DEF Shard
<1>3. ASSUME NEW X \in SUBSET Shard PROVE IsFiniteSet(X) /\ Cardinality(X) \in Nat
  BY <1>2, FS_Subset, FS_CardinalityType
<1> QED BY <1>2, <1>3

\* A finite set that is no larger than another can be mapped into it.
LEMMA SmallerInjects ==
  ASSUME NEW A, NEW B, IsFiniteSet(A), IsFiniteSet(B), Cardinality(A) <= Cardinality(B)
  PROVE  \E f : f \in Injection(A, B)
<1>1. PICK m \in Nat : m = Cardinality(A)
  BY FS_CardinalityType
<1>2. PICK n \in Nat : n = Cardinality(B)
  BY FS_CardinalityType
<1>3. PICK p \in Bijection(1..m, A) : TRUE
  BY <1>1, FS_CardinalityType DEF ExistsBijection
<1>4. PICK q \in Bijection(1..n, B) : TRUE
  BY <1>2, FS_CardinalityType DEF ExistsBijection
<1>5. m <= n
  BY <1>1, <1>2
<1>6. /\ p \in [1..m -> A]
      /\ \A x \in A : \E i \in 1..m : p[i] = x
      /\ q \in [1..n -> B]
      /\ \A i, j \in 1..n : q[i] = q[j] => i = j
  BY DEF Bijection, Injection, Surjection, IsInjective
<1> DEFINE at == [x \in A |-> CHOOSE i \in 1..m : p[i] = x]
           f == [x \in A |-> q[at[x]]]
<1>7. \A x \in A : at[x] \in 1..m /\ p[at[x]] = x
  BY <1>6
<1> HIDE DEF at
<1>8. \A i \in 1..m : i \in 1..n
  BY <1>5
<1>9. f \in [A -> B]
  BY <1>6, <1>7, <1>8
<1>10. ASSUME NEW x \in A, NEW y \in A, f[x] = f[y] PROVE x = y
  <2>1. q[at[x]] = q[at[y]]
    BY <1>10
  <2>2. at[x] = at[y]
    BY <2>1, <1>6, <1>7, <1>8
  <2> QED BY <2>2, <1>7
<1> QED BY <1>9, <1>10 DEF Injection, IsInjective

\* No value of G is taken more often on X by a than on Y by b.
NoMoreOften(X, a, Y, b, G) ==
    \A g \in G : Cardinality({s \in X : a[s] = g}) <= Cardinality({s \in Y : b[s] = g})

\* If so, and X has no other values, X is no larger than Y.
LEMMA Dominated ==
  ASSUME NEW X \in SUBSET Shard, NEW Y \in SUBSET Shard, NEW G,
         NEW a, NEW b,
         \A s \in X : a[s] \in G,
         NoMoreOften(X, a, Y, b, G)
  PROVE  Cardinality(X) <= Cardinality(Y)
<1> DEFINE from(g) == {s \in X : a[s] = g}
           into(g) == {s \in Y : b[s] = g}
           map(g) == CHOOSE f : f \in Injection(from(g), into(g))
           f == [s \in X |-> map(a[s])[s]]
<1>1. ASSUME NEW g \in G PROVE map(g) \in Injection(from(g), into(g))
  <2>1. from(g) \in SUBSET Shard /\ into(g) \in SUBSET Shard
    OBVIOUS
  <2>2. IsFiniteSet(from(g)) /\ IsFiniteSet(into(g))
    BY <2>1, ShardsFinite
  <2>3. Cardinality(from(g)) <= Cardinality(into(g))
    BY DEF NoMoreOften
  <2> HIDE DEF from, into
  <2> QED BY <2>2, <2>3, SmallerInjects
<1> HIDE DEF map
<1>2. ASSUME NEW g \in G, NEW s \in X, a[s] = g
      PROVE  map(g)[s] \in Y /\ b[map(g)[s]] = g
  <2>1. map(g) \in [from(g) -> into(g)]
    BY <1>1 DEF Injection
  <2>2. s \in from(g)
    BY <1>2
  <2>3. map(g)[s] \in into(g)
    BY <2>1, <2>2
  <2> QED BY <2>3
<1>3. f \in [X -> Y] /\ \A s \in X : b[f[s]] = a[s]
  BY <1>2
<1>4. ASSUME NEW s \in X, NEW t \in X, f[s] = f[t] PROVE s = t
  <2>1. a[s] = a[t] /\ a[s] \in G
    BY <1>3, <1>4
  <2>2. map(a[s])[s] = map(a[s])[t]
    BY <1>4, <2>1
  <2>3. s \in from(a[s]) /\ t \in from(a[s])
    BY <2>1
  <2> QED BY <1>1, <2>1, <2>2, <2>3 DEF Injection, IsInjective
<1>5. f \in Injection(X, Y)
  BY <1>3, <1>4 DEF Injection, IsInjective
<1>6. IsFiniteSet(Y)
  BY ShardsFinite
<1> QED BY <1>5, <1>6, FS_Injection

(***************************************************************************)
(* analyze.                                                                *)
(***************************************************************************)
GroupsFinite(G) == G \in SUBSET Gid /\ IsFiniteSet(G) /\ Cardinality(G) \in Nat

\* How many groups of G come before g, and g itself.
rank(G, g) == Cardinality({h \in G : h <= g})

\* The groups of G in order.
sorted(G) == [i \in 1..Cardinality(G) |-> CHOOSE g \in G : rank(G, g) = i]

LEMMA GroupsAreFinite ==
  ASSUME NEW G \in SUBSET Gid
  PROVE  GroupsFinite(G)
BY GidAssumption, FS_Subset, FS_CardinalityType DEF GroupsFinite

\* Every walk over the groups comes to every group, so that sorting gives the
\* same sequence whatever the walk was.
LEMMA SameOrder ==
  ASSUME NEW G \in SUBSET Gid, NEW order \in SetToSeqs(G)
  PROVE  inOrder(order) = sorted(G)
<1> DEFINE D == 1..Cardinality(G)
<1>1. IsFiniteSet(G) /\ Cardinality(G) \in Nat
  BY GroupsAreFinite DEF GroupsFinite
<1>2. order \in [D -> G] /\ \A i, j \in D : i # j => order[i] # order[j]
  BY DEF SetToSeqs
<1>3. order \in Injection(D, G)
  BY <1>2 DEF Injection, IsInjective
<1>4. Cardinality(D) = Cardinality(G)
  BY <1>1, FS_Interval
<1>5. order \in Surjection(D, G)
  BY <1>1, <1>3, <1>4, FS_Injection
<1>6. DOMAIN order = D /\ Range(order) = G
  BY <1>2, <1>5 DEF Surjection, Range
<1> QED BY <1>6 DEF inOrder, sorted, rank

\* Sorting loses no group.
LEMMA SortedHasAll ==
  ASSUME NEW G \in SUBSET Gid
  PROVE  /\ sorted(G) \in [1..Cardinality(G) -> G]
         /\ \A g \in G : \E i \in 1..Cardinality(G) : sorted(G)[i] = g
<1> DEFINE upto(g) == {h \in G : h <= g}
           r == [g \in G |-> rank(G, g)]
<1>1. PICK n \in Nat : n = Cardinality(G)
  BY GroupsAreFinite DEF GroupsFinite
<1>2. IsFiniteSet(G) /\ \A g \in G : g \in Nat
  BY GroupsAreFinite, GidAssumption DEF GroupsFinite
<1>3. ASSUME NEW g \in G
      PROVE  IsFiniteSet(upto(g)) /\ rank(G, g) \in 1..n
  <2>1. upto(g) \in SUBSET G /\ g \in upto(g)
    BY <1>2
  <2>2. IsFiniteSet(upto(g)) /\ Cardinality(upto(g)) <= n
    BY <1>1, <1>2, <2>1, FS_Subset
  <2>3. Cardinality(upto(g)) \in Nat /\ Cardinality(upto(g)) # 0
    BY <2>1, <2>2, FS_CardinalityType, FS_EmptySet
  <2>4. rank(G, g) = Cardinality(upto(g))
    BY DEF rank
  <2> HIDE DEF upto
  <2>5. PICK k \in Nat : k = Cardinality(upto(g))
    BY <2>3
  <2>6. k \in 1..n
    BY <2>5, <2>2, <2>3
  <2> QED BY <2>2, <2>4, <2>5, <2>6
<1>4. ASSUME NEW g \in G, NEW h \in G, g < h PROVE rank(G, g) # rank(G, h)
  <2>1. upto(g) \in SUBSET upto(h) /\ h \in upto(h) /\ h \notin upto(g)
    BY <1>2, <1>4
  <2>2. IsFiniteSet(upto(h))
    BY <1>3
  <2> HIDE DEF upto
  <2>3. Cardinality(upto(h)) # Cardinality(upto(g))
    BY <2>1, <2>2, FS_Subset
  <2> QED BY <2>3 DEF rank, upto
<1>5. ASSUME NEW g \in G, NEW h \in G, rank(G, g) = rank(G, h) PROVE g = h
  <2>1. g \in Nat /\ h \in Nat /\ ~(g < h) /\ ~(h < g)
    BY <1>2, <1>4, <1>5
  <2> QED BY <2>1
<1>6. r \in Injection(G, 1..n)
  BY <1>3, <1>5 DEF Injection, IsInjective
<1>7. IsFiniteSet(1..n) /\ Cardinality(1..n) = n
  BY FS_Interval
<1>8. r \in Surjection(G, 1..n)
  BY <1>1, <1>6, <1>7, FS_Injection
<1>9. ASSUME NEW i \in 1..n
      PROVE  sorted(G)[i] \in G /\ rank(G, sorted(G)[i]) = i
  <2>1. \E g \in G : rank(G, g) = i
    BY <1>8 DEF Surjection
  <2> QED BY <1>1, <2>1 DEF sorted
<1>10. sorted(G) \in [1..n -> G]
  BY <1>1, <1>9 DEF sorted
<1>11. ASSUME NEW g \in G PROVE sorted(G)[rank(G, g)] = g
  BY <1>3, <1>5, <1>9
<1> QED BY <1>1, <1>3, <1>10, <1>11

\* The first of the positions where something holds is one of them.
LEMMA FirstOf ==
  ASSUME NEW n \in Nat, NEW I \in SUBSET (1..n), I # {}
  PROVE  Min(I) \in I
<1>1. IsFiniteSet(I)
  <2>1. IsFiniteSet(1..n)
    BY FS_Interval
  <2> QED BY <2>1, FS_Subset
<1> DEFINE f == [i \in I |-> i]
<1>2. f \in [I -> Int]
  OBVIOUS
<1>3. PICK x \in I : \A y \in I : f[x] <= f[y]
  <2> HIDE DEF f
  <2> QED BY <1>1, <1>2, LeastOfFinite
<1>4. \A y \in I : x <= y
  BY <1>3
<1> QED BY <1>4 DEF Min

\* What count is about.
of(shards, g) == {s \in Shard : shards[s] = g}

LEMMA CountType ==
  ASSUME NEW c, NEW g
  PROVE  /\ count(c, g) \in 0..NShards
         /\ count(c, g) = Cardinality(of(c.Shards, g))
         /\ IsFiniteSet(of(c.Shards, g))
<1>1. of(c.Shards, g) \in SUBSET Shard
  BY DEF of
<1>2. /\ IsFiniteSet(of(c.Shards, g))
      /\ Cardinality(of(c.Shards, g)) \in Nat
      /\ Cardinality(of(c.Shards, g)) <= Cardinality(Shard)
  BY <1>1, ShardsFinite, FS_Subset
<1>3. count(c, g) = Cardinality(of(c.Shards, g))
  BY DEF count, of
<1>4. NShards \in Nat
  BY SizeAssumption
<1> QED BY <1>2, <1>3, <1>4, ShardsFinite

\* analyze finds a group none has more shards than.
LEMMA MostGroup ==
  ASSUME NEW c \in Config, c.Groups # {}
  PROVE  LET most == mostGroup(c, sorted(c.Groups))
         IN  most \in c.Groups /\ \A h \in c.Groups : count(c, h) <= count(c, most)
<1> DEFINE G == c.Groups
           s == sorted(G)
           most(g) == \A h \in G : count(c, h) <= count(c, g)
           I == {i \in 1..Len(s) : most(s[i])}
           f == [g \in G |-> 0 - count(c, g)]
<1>1. G \in SUBSET Gid /\ IsFiniteSet(G)
  BY GroupsAreFinite DEF GroupsFinite, Config
<1>2. PICK n \in Nat : n = Cardinality(G)
  BY <1>1, GroupsAreFinite DEF GroupsFinite
<1>3. s \in [1..n -> G] /\ \A g \in G : \E i \in 1..n : s[i] = g
  BY <1>1, <1>2, SortedHasAll
<1> HIDE DEF s
<1>4. Len(s) = n
  BY <1>3
<1>5. \E g \in G : most(g)
  <2>1. NShards \in Nat
    BY SizeAssumption
  <2>2. \A g \in G : count(c, g) \in Int
    BY CountType, <2>1
  <2>3. f \in [G -> Int]
    BY <2>2
  <2>4. PICK g \in G : \A h \in G : f[g] <= f[h]
    <3> HIDE DEF f
    <3> QED BY <1>1, <2>3, LeastOfFinite
  <2>5. ASSUME NEW h \in G PROVE count(c, h) <= count(c, g)
    <3>1. PICK x \in Int : x = count(c, g)
      BY <2>2
    <3>2. PICK y \in Int : y = count(c, h)
      BY <2>2
    <3>3. 0 - x <= 0 - y
      BY <2>4, <3>1, <3>2
    <3> QED BY <3>1, <3>2, <3>3
  <2> QED BY <2>5
<1>6. I \in SUBSET (1..n) /\ I # {}
  BY <1>3, <1>4, <1>5
<1>7. Min(I) \in I
  <2> HIDE DEF I
  <2> QED BY <1>6, FirstOf
<1>8. mostGroup(c, s) = s[Min(I)]
  BY <1>6 DEF mostGroup, SelectInSeq
<1>9. s[Min(I)] \in G /\ most(s[Min(I)])
  BY <1>3, <1>4, <1>7
<1> QED BY <1>8, <1>9 DEF s

\* analyze finds a group none has fewer shards than.
LEMMA LeastGroup ==
  ASSUME NEW c \in Config, c.Groups # {}
  PROVE  LET least == leastGroup(c, sorted(c.Groups))
         IN  least \in c.Groups /\ \A h \in c.Groups : count(c, h) >= count(c, least)
<1> DEFINE G == c.Groups
           s == sorted(G)
           least(g) == \A h \in G : count(c, h) >= count(c, g)
           I == {i \in 1..Len(s) : least(s[i])}
           f == [g \in G |-> count(c, g)]
<1>1. G \in SUBSET Gid /\ IsFiniteSet(G)
  BY GroupsAreFinite DEF GroupsFinite, Config
<1>2. PICK n \in Nat : n = Cardinality(G)
  BY <1>1, GroupsAreFinite DEF GroupsFinite
<1>3. s \in [1..n -> G] /\ \A g \in G : \E i \in 1..n : s[i] = g
  BY <1>1, <1>2, SortedHasAll
<1> HIDE DEF s
<1>4. Len(s) = n
  BY <1>3
<1>5. \E g \in G : least(g)
  <2>1. NShards \in Nat
    BY SizeAssumption
  <2>2. \A g \in G : count(c, g) \in Int
    BY CountType, <2>1
  <2>3. f \in [G -> Int]
    BY <2>2
  <2>4. PICK g \in G : \A h \in G : f[g] <= f[h]
    <3> HIDE DEF f
    <3> QED BY <1>1, <2>3, LeastOfFinite
  <2>5. least(g)
    BY <2>2, <2>4
  <2> QED BY <2>5
<1>6. I \in SUBSET (1..n) /\ I # {}
  BY <1>3, <1>4, <1>5
<1>7. Min(I) \in I
  <2> HIDE DEF I
  <2> QED BY <1>6, FirstOf
<1>8. leastGroup(c, s) = s[Min(I)]
  BY <1>6 DEF leastGroup, SelectInSeq
<1>9. s[Min(I)] \in G /\ least(s[Min(I)])
  BY <1>3, <1>4, <1>7
<1> QED BY <1>8, <1>9 DEF s

\* The group with too many shards has a first one.
LEMMA FirstShard ==
  ASSUME NEW c, NEW g, count(c, g) # 0
  PROVE  FirstShardOf(c, g) \in Shard /\ c.Shards[FirstShardOf(c, g)] = g
<1> DEFINE S == of(c.Shards, g)
           f == [s \in S |-> s]
<1>1. IsFiniteSet(S) /\ S # {}
  BY CountType, FS_EmptySet
<1>2. S \subseteq Shard
  BY DEF of
<1>3. f \in [S -> Int]
  BY <1>2 DEF Shard
<1>4. PICK x \in S : \A y \in S : f[x] <= f[y]
  <2> HIDE DEF f, S
  <2> QED BY <1>1, <1>3, LeastOfFinite
<1>5. x \in Shard /\ c.Shards[x] = g /\ \A r \in Shard : c.Shards[r] = g => x <= r
  BY <1>4 DEF of
<1> QED BY <1>5 DEF FirstShardOf

(***************************************************************************)
(* An iteration of Rebalance as a function of what it starts from.         *)
(***************************************************************************)
WorkType == [pc : {"idle", "assign", "move", "ready"},
             shard : 0..NShards, base : Config, cfg : Config]

\* What holds at the beginning of every iteration.
AtWork(w) ==
    /\ w.pc # "idle"
    /\ w.pc = "assign" => w.shard \in Shard
    /\ w.pc = "move" => w.cfg.Groups # {}

Busy == {w \in WorkType : AtWork(w)}

assigned(w) ==
    [w EXCEPT !.cfg.Shards[w.shard] =
                  IF NeedsGroup(w.cfg, w.shard)
                  THEN leastGroup(w.cfg, sorted(w.cfg.Groups)) ELSE @,
              !.shard = IF w.shard = NShards THEN 0 ELSE w.shard + 1,
              !.pc = IF w.shard = NShards THEN "move" ELSE "assign"]

moved(w) ==
    LET most == mostGroup(w.cfg, sorted(w.cfg.Groups))
        least == leastGroup(w.cfg, sorted(w.cfg.Groups))
    IN  IF Even(w.cfg, most, least) THEN [w EXCEPT !.pc = "ready"]
        ELSE [w EXCEPT !.cfg.Shards[FirstShardOf(w.cfg, most)] = least]

unassigned(w) == [w EXCEPT !.cfg.Shards = [s \in Shard |-> 0], !.pc = "ready"]

iteration(w) ==
    CASE w.pc = "assign" /\ w.cfg.Groups = {} -> unassigned(w)
      [] w.pc = "assign" /\ w.cfg.Groups # {} -> assigned(w)
      [] w.pc = "move" -> moved(w)
      [] OTHER -> w

\* What JoinBalance or LeaveBalance sets out from.
start(base, groups) ==
    [pc |-> "assign", shard |-> 1, base |-> base,
     cfg |-> [base EXCEPT !.Num = @ + 1, !.Groups = groups]]

LEMMA UnassignedType ==
  ASSUME NEW w \in Busy, w.pc = "assign", w.cfg.Groups = {}
  PROVE  unassigned(w) \in Busy /\ unassigned(w).base = w.base
BY DEF Busy, WorkType, AtWork, Config, unassigned

LEMMA AssignedType ==
  ASSUME NEW w \in Busy, w.pc = "assign", w.cfg.Groups # {}
  PROVE  /\ assigned(w) \in Busy
         /\ assigned(w).base = w.base
         /\ assigned(w).cfg.Groups = w.cfg.Groups
         /\ assigned(w).cfg.Shards = [w.cfg.Shards EXCEPT ![w.shard] =
                IF NeedsGroup(w.cfg, w.shard)
                THEN leastGroup(w.cfg, sorted(w.cfg.Groups)) ELSE w.cfg.Shards[w.shard]]
         /\ assigned(w).pc = IF w.shard = NShards THEN "move" ELSE "assign"
         /\ w.shard # NShards => assigned(w).shard = w.shard + 1
<1> DEFINE c == w.cfg
           s == w.shard
           G == c.Groups
           l == leastGroup(c, sorted(G))
           g == IF NeedsGroup(c, s) THEN l ELSE c.Shards[s]
           d == [c EXCEPT !.Shards = [c.Shards EXCEPT ![s] = g]]
<1>1. c \in Config /\ s \in Shard /\ w.base \in Config
  BY DEF Busy, WorkType, AtWork
<1>2. l \in Gid
  BY <1>1, LeastGroup DEF Config
<1> HIDE DEF l
<1>3. g \in Gid \union {0}
  BY <1>1, <1>2 DEF Config
<1> HIDE DEF g
<1>4. d \in Config /\ d.Groups = G
  BY <1>1, <1>3 DEF Config
<1>5. assigned(w) = [pc |-> IF s = NShards THEN "move" ELSE "assign",
                     shard |-> IF s = NShards THEN 0 ELSE s + 1,
                     base |-> w.base, cfg |-> d]
  <2> DEFINE e == [w EXCEPT !.cfg.Shards[s] = g]
  <2>1. assigned(w) = [e EXCEPT !.shard = IF s = NShards THEN 0 ELSE s + 1,
                                !.pc = IF s = NShards THEN "move" ELSE "assign"]
    BY DEF assigned, g, l
  <2>2. e = [pc |-> w.pc, shard |-> s, base |-> w.base, cfg |-> d]
    BY <1>1 DEF Busy, WorkType, Config
  <2> HIDE DEF e, d
  <2> QED BY <2>1, <2>2
<1>6. (IF s = NShards THEN 0 ELSE s + 1) \in 0..NShards
      /\ (s # NShards => s + 1 \in Shard)
  BY <1>1, SizeAssumption DEF Shard
<1>7. d.Shards = [c.Shards EXCEPT ![s] = g]
  BY <1>1 DEF Config
<1> HIDE DEF d
<1>8. assigned(w) \in Busy
  BY <1>1, <1>4, <1>5, <1>6 DEF Busy, WorkType, AtWork
<1> QED BY <1>4, <1>5, <1>7, <1>8 DEF g, l

\* If the loads are not even, a shard of the most loaded group is moved.
LEMMA UnevenMove ==
  ASSUME NEW c \in Config, c.Groups # {},
         ~Even(c, mostGroup(c, sorted(c.Groups)), leastGroup(c, sorted(c.Groups)))
  PROVE  LET most == mostGroup(c, sorted(c.Groups))
             least == leastGroup(c, sorted(c.Groups))
         IN  /\ count(c, most) >= count(c, least) + 2
             /\ FirstShardOf(c, most) \in Shard
             /\ c.Shards[FirstShardOf(c, most)] = most
<1> DEFINE most == mostGroup(c, sorted(c.Groups))
           least == leastGroup(c, sorted(c.Groups))
<1> HIDE DEF most, least
<1>1. PICK m \in Nat : m = count(c, most)
  BY CountType, SizeAssumption
<1>2. PICK l \in Nat : l = count(c, least)
  BY CountType, SizeAssumption
<1>3. ~(m < l + 2)
  BY <1>1, <1>2 DEF Even, most, least
<1>4. m >= l + 2 /\ m # 0
  BY <1>3
<1>5. FirstShardOf(c, most) \in Shard /\ c.Shards[FirstShardOf(c, most)] = most
  BY <1>1, <1>4, FirstShard
<1> QED BY <1>1, <1>2, <1>4, <1>5 DEF most, least

LEMMA MovedType ==
  ASSUME NEW w \in Busy, w.pc = "move"
  PROVE  /\ moved(w) \in Busy
         /\ moved(w).base = w.base
         /\ moved(w).cfg.Groups = w.cfg.Groups
         /\ LET most == mostGroup(w.cfg, sorted(w.cfg.Groups))
                least == leastGroup(w.cfg, sorted(w.cfg.Groups))
            IN  IF Even(w.cfg, most, least)
                THEN moved(w).pc = "ready" /\ moved(w).cfg = w.cfg
                ELSE /\ moved(w).pc = "move"
                     /\ moved(w).cfg.Shards =
                            [w.cfg.Shards EXCEPT ![FirstShardOf(w.cfg, most)] = least]
<1> DEFINE c == w.cfg
           G == c.Groups
           most == mostGroup(c, sorted(G))
           least == leastGroup(c, sorted(G))
           f == FirstShardOf(c, most)
           d == [c EXCEPT !.Shards = [c.Shards EXCEPT ![f] = least]]
<1>1. c \in Config /\ G # {} /\ w.base \in Config /\ w.shard \in 0..NShards
  BY DEF Busy, WorkType, AtWork
<1>2. least \in Gid
  BY <1>1, LeastGroup DEF Config
<1>3. CASE Even(c, most, least)
  <2>1. moved(w) = [w EXCEPT !.pc = "ready"]
    BY <1>3 DEF moved
  <2>2. moved(w) \in Busy
    BY <2>1 DEF Busy, WorkType, AtWork
  <2>3. moved(w).pc = "ready" /\ moved(w).cfg = c /\ moved(w).base = w.base
    BY <2>1 DEF Busy, WorkType
  <2> QED BY <1>3, <2>2, <2>3
<1>4. CASE ~Even(c, most, least)
  <2>1. f \in Shard
    BY <1>1, <1>4, UnevenMove
  <2>2. moved(w) = [w EXCEPT !.cfg.Shards[f] = least]
    BY <1>4 DEF moved
  <2> HIDE DEF f, least, most
  <2>3. d \in Config /\ d.Groups = G
    BY <1>1, <1>2, <2>1 DEF Config
  <2>4. moved(w) = [pc |-> "move", shard |-> w.shard, base |-> w.base, cfg |-> d]
    BY <1>1, <2>2 DEF Busy, WorkType, Config
  <2>5. d.Shards = [c.Shards EXCEPT ![f] = least]
    BY <1>1 DEF Config
  <2> HIDE DEF d
  <2>6. moved(w) \in Busy
    BY <1>1, <2>3, <2>4 DEF Busy, WorkType, AtWork
  <2>7. moved(w).pc = "move" /\ moved(w).cfg = d /\ moved(w).base = w.base
    BY <2>4
  <2> QED BY <1>4, <2>3, <2>5, <2>6, <2>7 DEF f, least, most
<1> QED BY <1>3, <1>4

\* An iteration leads from a computation under way to one.
LEMMA IterationType ==
  ASSUME NEW w \in Busy
  PROVE  iteration(w) \in Busy
<1>1. w.pc \in {"assign", "move", "ready"}
  BY DEF Busy, WorkType, AtWork
<1>2. CASE w.pc = "assign" /\ w.cfg.Groups = {}
  BY <1>2, UnassignedType DEF iteration
<1>3. CASE w.pc = "assign" /\ w.cfg.Groups # {}
  BY <1>3, AssignedType DEF iteration
<1>4. CASE w.pc = "move"
  BY <1>4, MovedType DEF iteration
<1>5. CASE w.pc = "ready"
  BY <1>5 DEF iteration
<1> QED BY <1>1, <1>2, <1>3, <1>4, <1>5

(***************************************************************************)
(* What a sequence of iterations arrives at.                               *)
(***************************************************************************)
\* Going on from x with the function f one comes to y: every set that x is in
\* and f does not leave has y.
Reaches(f, x, y) ==
    \A S \in SUBSET DOMAIN f : x \in S /\ (\A z \in S : f[z] \in S) => y \in S

Rebalancing == [w \in Busy |-> iteration(w)]

\* Whoever has come to y, comes to the next after y.
LEMMA ReachesNext ==
  ASSUME NEW f, NEW x, NEW y, y \in DOMAIN f, Reaches(f, x, y)
  PROVE  Reaches(f, x, f[y])
BY DEF Reaches

\* Two who set out from the same place and have come to an end have come to
\* the same one.
LEMMA SameEnd ==
  ASSUME NEW State, NEW f \in [State -> State],
         NEW x \in State, NEW y1 \in State, NEW y2 \in State,
         Reaches(f, x, y1), f[y1] = y1,
         Reaches(f, x, y2), f[y2] = y2
  PROVE  y1 = y2
<1> DEFINE S == {z \in State : Reaches(f, z, y1)}
<1>1. S \in SUBSET DOMAIN f /\ x \in S
  OBVIOUS
<1>2. ASSUME NEW z \in S PROVE f[z] \in S
  <2>1. CASE z = y1
    BY <2>1
  <2>2. CASE z # y1
    <3> SUFFICES ASSUME NEW T \in SUBSET DOMAIN f, f[z] \in T, \A u \in T : f[u] \in T
                 PROVE  y1 \in T
      BY DEF Reaches
    <3> DEFINE U == T \union {z}
    <3>1. U \in SUBSET DOMAIN f /\ z \in U
      OBVIOUS
    <3>2. \A u \in U : f[u] \in U
      OBVIOUS
    <3>3. y1 \in U
      <4>1. Reaches(f, z, y1)
        OBVIOUS
      <4> HIDE DEF U
      <4> QED BY <4>1, <3>1, <3>2 DEF Reaches
    <3> QED BY <3>3, <2>2
  <2> QED BY <2>1, <2>2
<1>3. y2 \in S
  <2> HIDE DEF S
  <2> QED BY <1>1, <1>2 DEF Reaches
<1>4. Reaches(f, y2, y1)
  BY <1>3
<1>5. {y2} \in SUBSET DOMAIN f /\ y2 \in {y2} /\ \A z \in {y2} : f[z] \in {y2}
  OBVIOUS
<1>6. y1 \in {y2}
  BY <1>4, <1>5 DEF Reaches
<1> QED BY <1>6

(***************************************************************************)
(* The loads while the shards are assigned and moved.                      *)
(***************************************************************************)
\* The group got a shard it did not have, or lost one it had.
Received(w, g) == \E s \in Shard : w.cfg.Shards[s] = g /\ w.base.Shards[s] # g

Gave(w, g) == \E s \in Shard : w.base.Shards[s] = g /\ w.cfg.Shards[s] # g

\* No group does both.
OneWay(w) == \A g \in w.cfg.Groups : ~(Received(w, g) /\ Gave(w, g))

\* A group that received a shard has at most one more than any other.
ReceiversAreLow(w) ==
    \A g, h \in w.cfg.Groups : Received(w, h) => count(w.cfg, h) <= count(w.cfg, g) + 1

\* No group has more than one more than a group that gave a shard.
GiversAreHigh(w) ==
    \A g, h \in w.cfg.Groups : Gave(w, g) => count(w.cfg, h) <= count(w.cfg, g) + 1

\* A group that received a shard has no more than one that gave one.
ReceiversBelowGivers(w) ==
    \A g, h \in w.cfg.Groups :
        Received(w, h) /\ Gave(w, g) => count(w.cfg, h) <= count(w.cfg, g)

\* Before the loop over the shards has come to a shard, it may be unassigned;
\* this loop takes no shard from a group.
AssignedSoFar(w) ==
    \A s \in Shard :
        /\ s < w.shard => w.cfg.Shards[s] \in w.cfg.Groups
        /\ w.cfg.Shards[s] = w.base.Shards[s] \/ w.base.Shards[s] \notin w.cfg.Groups

AllAssigned(w) == \A s \in Shard : w.cfg.Shards[s] \in w.cfg.Groups

\* What holds of a computation under way, about the shards and their groups.
OnTheWay(w) ==
    /\ OneWay(w) /\ ReceiversAreLow(w) /\ GiversAreHigh(w) /\ ReceiversBelowGivers(w)
    /\ w.pc = "assign" => AssignedSoFar(w)
    /\ w.pc = "move" => AllAssigned(w)
    /\ w.pc = "ready" => Valid(w.cfg.Shards, w.cfg.Groups)

LEMMA LoadType ==
  ASSUME NEW c, NEW g
  PROVE  count(c, g) \in Nat
BY CountType, SizeAssumption

\* The shard s is given to the group l, and what that does to the loads.
GivenTo(c, d, s, l) ==
    /\ s \in Shard
    /\ c.Shards \in [Shard -> Gid \union {0}]
    /\ d.Shards = [c.Shards EXCEPT ![s] = l]
    /\ c.Shards[s] # l

CountedAfter(c, d, m, l) ==
    /\ count(d, l) = count(c, l) + 1
    /\ count(d, m) = count(c, m) - 1
    /\ \A g : g # l /\ g # m => count(d, g) = count(c, g)

LEMMA CountAfter ==
  ASSUME NEW c, NEW d, NEW s, NEW l, GivenTo(c, d, s, l)
  PROVE  CountedAfter(c, d, c.Shards[s], l)
<1> DEFINE m == c.Shards[s]
<1>0. /\ s \in Shard
      /\ c.Shards \in [Shard -> Gid \union {0}]
      /\ d.Shards = [c.Shards EXCEPT ![s] = l]
      /\ c.Shards[s] # l
  BY DEF GivenTo
<1>1. of(d.Shards, l) = of(c.Shards, l) \union {s} /\ s \notin of(c.Shards, l)
  BY <1>0 DEF of
<1>2. of(d.Shards, m) = of(c.Shards, m) \ {s} /\ s \in of(c.Shards, m)
  BY <1>0 DEF of
<1>3. ASSUME NEW g, g # l, g # m PROVE of(d.Shards, g) = of(c.Shards, g)
  BY <1>0, <1>3 DEF of
<1>4. count(d, l) = count(c, l) + 1
  BY <1>1, CountType, FS_AddElement
<1>5. count(d, m) = count(c, m) - 1
  BY <1>2, CountType, FS_RemoveElement
<1>6. ASSUME NEW g, g # l, g # m PROVE count(d, g) = count(c, g)
  BY <1>3, <1>6, CountType
<1> QED BY <1>4, <1>5, <1>6 DEF CountedAfter

\* The loop that assigns shards takes none from a group.
LEMMA NobodyGave ==
  ASSUME NEW w, AssignedSoFar(w), NEW g \in w.cfg.Groups
  PROVE  ~Gave(w, g)
BY DEF AssignedSoFar, Gave

\* An iteration of the loop that assigns the shards keeps the loads in order.
LEMMA AssignedOnTheWay ==
  ASSUME NEW w \in Busy, w.pc = "assign", w.cfg.Groups # {}, OnTheWay(w)
  PROVE  OnTheWay(assigned(w))
<1> DEFINE c == w.cfg
           s == w.shard
           G == c.Groups
           l == leastGroup(c, sorted(G))
<1>1. c \in Config /\ s \in Shard /\ c.Shards \in [Shard -> Gid \union {0}]
  BY DEF Busy, WorkType, AtWork, Config
<1>2. l \in G /\ \A h \in G : count(c, h) >= count(c, l)
  BY <1>1, LeastGroup
<1> HIDE DEF l
<1>3. PICK v : v = assigned(w)
  OBVIOUS
<1>4. /\ v.base = w.base /\ v.cfg.Groups = G
      /\ v.cfg.Shards = [c.Shards EXCEPT ![s] = IF NeedsGroup(c, s) THEN l ELSE c.Shards[s]]
      /\ v.pc = IF s = NShards THEN "move" ELSE "assign"
      /\ s # NShards => v.shard = s + 1
  BY <1>3, AssignedType DEF l
<1>5. AssignedSoFar(w) /\ ReceiversAreLow(w)
  BY DEF OnTheWay
<1>6. v.cfg.Shards[s] \in G
  BY <1>1, <1>2, <1>4 DEF NeedsGroup
<1>7. ASSUME NEW t \in Shard
      PROVE  /\ t # s => v.cfg.Shards[t] = c.Shards[t]
             /\ v.cfg.Shards[t] = v.base.Shards[t] \/ v.base.Shards[t] \notin G
             /\ t < s => v.cfg.Shards[t] \in G
  <2>1. t # s => v.cfg.Shards[t] = c.Shards[t]
    BY <1>1, <1>4
  <2>2. /\ t < s => c.Shards[t] \in G
        /\ c.Shards[t] = w.base.Shards[t] \/ w.base.Shards[t] \notin G
    BY <1>5 DEF AssignedSoFar
  <2>3. CASE t # s
    <3>1. v.cfg.Shards[t] = c.Shards[t] /\ v.base = w.base
      BY <1>4, <2>1, <2>3
    <3> QED BY <3>1, <2>2
  <2>4. CASE t = s
    <3>1. ~(t < s)
      BY <1>1, <2>4 DEF Shard
    <3>2. v.cfg.Shards[s] = IF NeedsGroup(c, s) THEN l ELSE c.Shards[s]
      BY <1>1, <1>4
    <3>3. v.base.Shards[s] = w.base.Shards[s]
      BY <1>4
    <3>4. CASE NeedsGroup(c, s)
      BY <3>1, <3>3, <3>4, <2>2, <2>4 DEF NeedsGroup
    <3>5. CASE ~NeedsGroup(c, s)
      BY <3>1, <3>2, <3>3, <3>5, <2>2, <2>4
    <3> QED BY <3>4, <3>5
  <2> QED BY <2>1, <2>3, <2>4
<1>8. \A g \in G : ~Gave(v, g)
  BY <1>7 DEF Gave
<1>9. OneWay(v) /\ GiversAreHigh(v) /\ ReceiversBelowGivers(v)
  BY <1>4, <1>8 DEF OneWay, GiversAreHigh, ReceiversBelowGivers
<1>10. ReceiversAreLow(v)
  <2> SUFFICES ASSUME NEW g \in G, NEW h \in G, Received(v, h)
               PROVE  count(v.cfg, h) <= count(v.cfg, g) + 1
    BY <1>4 DEF ReceiversAreLow
  <2>1. CASE ~NeedsGroup(c, s)
    <3>1. v.cfg.Shards = c.Shards
      BY <1>1, <1>4, <2>1
    <3>2. Received(w, h) /\ count(v.cfg, h) = count(c, h) /\ count(v.cfg, g) = count(c, g)
      BY <3>1, <1>4 DEF Received, count
    <3> QED BY <3>2, <1>5 DEF ReceiversAreLow
  <2>2. CASE NeedsGroup(c, s)
    <3>1. v.cfg.Shards = [c.Shards EXCEPT ![s] = l] /\ c.Shards[s] # l /\ c.Shards[s] \notin G
      BY <1>2, <1>4, <2>2 DEF NeedsGroup
    <3>2. /\ count(v.cfg, l) = count(c, l) + 1
          /\ \A k : k # l /\ k # c.Shards[s] => count(v.cfg, k) = count(c, k)
      <4>1. GivenTo(c, v.cfg, s, l)
        BY <1>1, <3>1 DEF GivenTo
      <4>2. CountedAfter(c, v.cfg, c.Shards[s], l)
        BY <4>1, CountAfter
      <4> QED BY <4>2 DEF CountedAfter
    <3>3. \A k \in G : count(v.cfg, k) = IF k = l THEN count(c, k) + 1 ELSE count(c, k)
      BY <3>1, <3>2
    <3>4. PICK x \in Nat : x = count(c, g)
      BY LoadType
    <3>5. PICK y \in Nat : y = count(c, h)
      BY LoadType
    <3>6. x <= count(v.cfg, g)
      BY <3>3, <3>4
    <3>7. CASE h = l
      <4>1. y <= x /\ count(v.cfg, h) = y + 1
        BY <1>2, <3>3, <3>4, <3>5, <3>7
      <4>2. PICK z \in Nat : z = count(v.cfg, g)
        BY LoadType
      <4> QED BY <4>1, <4>2, <3>6
    <3>8. CASE h # l
      <4>1. PICK t \in Shard : v.cfg.Shards[t] = h /\ v.base.Shards[t] # h
        BY DEF Received
      <4>2. t # s
        BY <3>1, <3>8, <4>1, <1>1
      <4>3. Received(w, h)
        BY <4>1, <4>2, <1>4, <1>7 DEF Received
      <4>4. y <= x + 1
        BY <4>3, <1>5, <3>4, <3>5 DEF ReceiversAreLow
      <4>5. count(v.cfg, h) = y
        BY <3>3, <3>5, <3>8
      <4>6. PICK z \in Nat : z = count(v.cfg, g)
        BY LoadType
      <4> QED BY <4>4, <4>5, <4>6, <3>6
    <3> QED BY <3>7, <3>8
  <2> QED BY <2>1, <2>2
<1>11. v.pc = "assign" => AssignedSoFar(v)
  <2> SUFFICES ASSUME v.pc = "assign", NEW t \in Shard
               PROVE  /\ t < v.shard => v.cfg.Shards[t] \in G
                      /\ v.cfg.Shards[t] = v.base.Shards[t] \/ v.base.Shards[t] \notin G
    BY <1>4 DEF AssignedSoFar
  <2>1. v.shard = s + 1
    BY <1>4
  <2>2. t < v.shard => (t < s \/ t = s)
    BY <2>1, <1>1 DEF Shard
  <2> QED BY <2>2, <1>6, <1>7
<1>12. v.pc = "move" => AllAssigned(v)
  <2> SUFFICES ASSUME v.pc = "move", NEW t \in Shard
               PROVE  v.cfg.Shards[t] \in G
    BY <1>4 DEF AllAssigned
  <2>1. s = NShards
    BY <1>4
  <2>2. t < s \/ t = s
    BY <2>1, SizeAssumption DEF Shard
  <2> QED BY <2>2, <1>6, <1>7
<1>13. v.pc # "ready"
  BY <1>4
<1>14. OnTheWay(v)
  BY <1>9, <1>10, <1>11, <1>12, <1>13 DEF OnTheWay
<1> QED BY <1>3, <1>14

\* An iteration of the loop that evens the loads out keeps them in order: the
\* shard it takes was the group's from the beginning, and the group it gives
\* it to has lost none.
LEMMA MovedOnTheWay ==
  ASSUME NEW w \in Busy, w.pc = "move", OnTheWay(w)
  PROVE  OnTheWay(moved(w))
<1> DEFINE c == w.cfg
           G == c.Groups
           m == mostGroup(c, sorted(G))
           l == leastGroup(c, sorted(G))
           s == FirstShardOf(c, m)
<1>1. c \in Config /\ c.Shards \in [Shard -> Gid \union {0}] /\ G # {}
  BY DEF Busy, WorkType, AtWork, Config
<1>2. l \in G /\ \A h \in G : count(c, h) >= count(c, l)
  BY <1>1, LeastGroup
<1>3. m \in G /\ \A h \in G : count(c, h) <= count(c, m)
  BY <1>1, MostGroup
<1>4. /\ OneWay(w) /\ ReceiversAreLow(w) /\ GiversAreHigh(w)
      /\ ReceiversBelowGivers(w) /\ AllAssigned(w)
  BY DEF OnTheWay
<1>5. PICK v : v = moved(w)
  OBVIOUS
<1>6. v.base = w.base /\ v.cfg.Groups = G
  BY <1>5, MovedType
<1>7. CASE Even(c, m, l)
  <2>1. v.pc = "ready" /\ v.cfg = c
    BY <1>5, <1>7, MovedType
  <2>2. /\ OneWay(v) /\ ReceiversAreLow(v) /\ GiversAreHigh(v) /\ ReceiversBelowGivers(v)
    BY <1>4, <1>6, <2>1 DEF OneWay, ReceiversAreLow, GiversAreHigh, ReceiversBelowGivers,
                            Received, Gave
  <2>3. ASSUME NEW g \in G, NEW h \in G PROVE count(c, g) <= count(c, h) + 1
    <3> HIDE DEF m, l
    <3>1. PICK x \in Nat : x = count(c, g)
      BY LoadType
    <3>2. PICK y \in Nat : y = count(c, h)
      BY LoadType
    <3>3. PICK p \in Nat : p = count(c, m)
      BY LoadType
    <3>4. PICK q \in Nat : q = count(c, l)
      BY LoadType
    <3>5. p < q + 2
      BY <1>7, <3>3, <3>4 DEF Even
    <3>6. x <= p /\ q <= y
      BY <1>2, <1>3, <3>1, <3>2, <3>3, <3>4
    <3> QED BY <3>1, <3>2, <3>5, <3>6
  <2>4. Valid(v.cfg.Shards, v.cfg.Groups)
    BY <1>4, <2>1, <2>3 DEF Valid, AllAssigned, count
  <2>5. OnTheWay(v)
    BY <2>1, <2>2, <2>4 DEF OnTheWay
  <2> QED BY <1>5, <2>5
<1>8. CASE ~Even(c, m, l)
  <2>1. count(c, m) >= count(c, l) + 2 /\ s \in Shard /\ c.Shards[s] = m
    BY <1>1, <1>8, UnevenMove
  <2>2. v.pc = "move" /\ v.cfg.Shards = [c.Shards EXCEPT ![s] = l]
    BY <1>5, <1>8, MovedType
  <2> HIDE DEF m, l, s
  <2>3. PICK p \in Nat : p = count(c, m)
    BY LoadType
  <2>4. PICK q \in Nat : q = count(c, l)
    BY LoadType
  <2>5. p >= q + 2
    BY <2>1, <2>3, <2>4
  <2>6. m # l
    BY <2>3, <2>4, <2>5
  <2>7. /\ count(v.cfg, l) = q + 1
        /\ count(v.cfg, m) = p - 1
        /\ \A k : k # l /\ k # m => count(v.cfg, k) = count(c, k)
    <3>1. GivenTo(c, v.cfg, s, l)
      BY <1>1, <2>1, <2>2, <2>6 DEF GivenTo
    <3>2. CountedAfter(c, v.cfg, m, l)
      BY <2>1, <3>1, CountAfter
    <3> QED BY <2>3, <2>4, <3>2 DEF CountedAfter
  <2>8. /\ v.cfg.Shards[s] = l
        /\ \A t \in Shard : t # s => v.cfg.Shards[t] = c.Shards[t]
    BY <1>1, <2>1, <2>2
  <2>9. ~Received(w, m)
    BY <1>2, <1>3, <1>4, <2>3, <2>4, <2>5 DEF ReceiversAreLow
  <2>10. ~Gave(w, l)
    BY <1>2, <1>3, <1>4, <2>3, <2>4, <2>5 DEF GiversAreHigh
  <2>11. w.base.Shards[s] = m
    BY <2>1, <2>9 DEF Received
  <2>12. ASSUME NEW h \in G, Received(v, h) PROVE h # m /\ (h = l \/ Received(w, h))
    <3>1. PICK t \in Shard : v.cfg.Shards[t] = h /\ w.base.Shards[t] # h
      BY <1>6, <2>12 DEF Received
    <3>2. CASE t = s
      BY <3>1, <3>2, <2>6, <2>8
    <3>3. CASE t # s
      <4>1. Received(w, h)
        BY <3>1, <3>3, <2>8 DEF Received
      <4> QED BY <4>1, <2>9
    <3> QED BY <3>2, <3>3
  <2>13. ASSUME NEW g \in G, Gave(v, g) PROVE g # l /\ (g = m \/ Gave(w, g))
    <3>1. PICK t \in Shard : w.base.Shards[t] = g /\ v.cfg.Shards[t] # g
      BY <1>6, <2>13 DEF Gave
    <3>2. CASE t = s
      BY <3>1, <3>2, <2>6, <2>11
    <3>3. CASE t # s
      <4>1. Gave(w, g)
        BY <3>1, <3>3, <2>8 DEF Gave
      <4> QED BY <4>1, <2>10
    <3> QED BY <3>2, <3>3
  <2>14. OneWay(v)
    <3> SUFFICES ASSUME NEW g \in G, Received(v, g), Gave(v, g) PROVE FALSE
      BY <1>6 DEF OneWay
    <3>1. g # l /\ g # m /\ Received(w, g) /\ Gave(w, g)
      BY <2>12, <2>13
    <3> QED BY <3>1, <1>4 DEF OneWay
  <2>15. ReceiversAreLow(v)
    <3> SUFFICES ASSUME NEW g \in G, NEW h \in G, Received(v, h)
                 PROVE  count(v.cfg, h) <= count(v.cfg, g) + 1
      BY <1>6 DEF ReceiversAreLow
    <3>1. PICK x \in Nat : x = count(c, g)
      BY LoadType
    <3>2. PICK y \in Nat : y = count(c, h)
      BY LoadType
    <3>3. count(v.cfg, g) = IF g = l THEN q + 1 ELSE IF g = m THEN p - 1 ELSE x
      BY <2>7, <3>1
    <3>4. count(v.cfg, h) = IF h = l THEN q + 1 ELSE y
      BY <2>7, <2>12, <3>2
    <3>5. x <= p /\ q <= x /\ y <= p /\ q <= y
      BY <1>2, <1>3, <2>3, <2>4, <3>1, <3>2
    <3>6. h # l => y <= x + 1
      BY <1>4, <2>12, <3>1, <3>2 DEF ReceiversAreLow
    <3>7. (g = l => x = q) /\ (g = m => x = p)
      BY <2>3, <2>4, <3>1
    <3> QED BY <2>5, <2>6, <3>3, <3>4, <3>5, <3>6, <3>7
  <2>16. GiversAreHigh(v)
    <3> SUFFICES ASSUME NEW g \in G, NEW h \in G, Gave(v, g)
                 PROVE  count(v.cfg, h) <= count(v.cfg, g) + 1
      BY <1>6 DEF GiversAreHigh
    <3>1. PICK x \in Nat : x = count(c, g)
      BY LoadType
    <3>2. PICK y \in Nat : y = count(c, h)
      BY LoadType
    <3>3. count(v.cfg, g) = IF g = m THEN p - 1 ELSE x
      BY <2>7, <2>13, <3>1
    <3>4. count(v.cfg, h) = IF h = l THEN q + 1 ELSE IF h = m THEN p - 1 ELSE y
      BY <2>7, <3>2
    <3>5. x <= p /\ q <= x /\ y <= p /\ q <= y
      BY <1>2, <1>3, <2>3, <2>4, <3>1, <3>2
    <3>6. g # m => p <= x + 1
      BY <1>3, <1>4, <2>3, <2>13, <3>1 DEF GiversAreHigh
    <3> QED BY <2>5, <2>6, <3>3, <3>4, <3>5, <3>6
  <2>17. ReceiversBelowGivers(v)
    <3> SUFFICES ASSUME NEW g \in G, NEW h \in G, Received(v, h), Gave(v, g)
                 PROVE  count(v.cfg, h) <= count(v.cfg, g)
      BY <1>6 DEF ReceiversBelowGivers
    <3>1. PICK x \in Nat : x = count(c, g)
      BY LoadType
    <3>2. PICK y \in Nat : y = count(c, h)
      BY LoadType
    <3>3. count(v.cfg, g) = IF g = m THEN p - 1 ELSE x
      BY <2>7, <2>13, <3>1
    <3>4. count(v.cfg, h) = IF h = l THEN q + 1 ELSE y
      BY <2>7, <2>12, <3>2
    <3>5. g # m => p <= x + 1
      BY <1>3, <1>4, <2>3, <2>13, <3>1 DEF GiversAreHigh
    <3>6. h # l => y <= q + 1
      BY <1>2, <1>4, <2>4, <2>12, <3>2 DEF ReceiversAreLow
    <3>7. (g # m /\ h # l) => y <= x
      BY <1>4, <2>12, <2>13, <3>1, <3>2 DEF ReceiversBelowGivers
    <3>8. CASE g = m
      BY <2>5, <3>3, <3>4, <3>6, <3>8
    <3>9. CASE g # m
      BY <2>5, <3>3, <3>4, <3>5, <3>7, <3>9
    <3> QED BY <3>8, <3>9
  <2>18. AllAssigned(v)
    BY <1>2, <1>4, <1>6, <2>1, <2>8 DEF AllAssigned
  <2>19. OnTheWay(v)
    BY <2>2, <2>14, <2>15, <2>16, <2>17, <2>18 DEF OnTheWay
  <2> QED BY <1>5, <2>19
<1> QED BY <1>7, <1>8

(***************************************************************************)
(* A computation whose loads are in order has moved as few as it could.    *)
(***************************************************************************)
Kept(from, to) == {s \in Shard : from[s] = to[s]}

\* What is moved is what is not kept.
LEMMA MovedIsRest ==
  ASSUME NEW from, NEW to
  PROVE  /\ Moved(from, to) = NShards - Cardinality(Kept(from, to))
         /\ Cardinality(Kept(from, to)) \in Nat
         /\ NShards \in Nat
<1> DEFINE K == Kept(from, to)
<1>1. K \in SUBSET Shard /\ {s \in Shard : from[s] # to[s]} = Shard \ K
  BY DEF Kept
<1>2. IsFiniteSet(Shard) /\ Cardinality(Shard) = NShards /\ Cardinality(K) \in Nat
  BY <1>1, ShardsFinite
<1>3. Shard \cap K = K
  BY <1>1
<1>4. Cardinality(Shard \ K) = Cardinality(Shard) - Cardinality(Shard \cap K)
  BY <1>2, FS_Difference
<1>5. NShards \in Nat
  BY SizeAssumption
<1>6. Moved(from, to) = Cardinality(Shard \ K)
  BY <1>1 DEF Moved
<1> QED BY <1>2, <1>3, <1>4, <1>5, <1>6

\* The shards of a set are those the condition holds of and the others.
LEMMA SplitCount ==
  ASSUME NEW X \in SUBSET Shard, NEW Y \in SUBSET Shard
  PROVE  /\ Cardinality(X) = Cardinality(X \cap Y) + Cardinality(X \ Y)
         /\ Cardinality(X) \in Nat
         /\ Cardinality(X \cap Y) \in Nat
         /\ Cardinality(X \ Y) \in Nat
<1>1. IsFiniteSet(X)
  BY ShardsFinite
<1>2. X \cap Y \in SUBSET Shard /\ X \ Y \in SUBSET Shard
  OBVIOUS
<1>3. Cardinality(X) \in Nat /\ Cardinality(X \cap Y) \in Nat /\ Cardinality(X \ Y) \in Nat
  BY <1>2, ShardsFinite
<1>4. Cardinality(X \ Y) = Cardinality(X) - Cardinality(X \cap Y)
  BY <1>1, FS_Difference
<1> QED BY <1>3, <1>4

LEMMA SubsetCount ==
  ASSUME NEW X, NEW Y \in SUBSET Shard, X \subseteq Y
  PROVE  Cardinality(X) <= Cardinality(Y)
BY ShardsFinite, FS_Subset

\* If no group that gave a shard is given more by the other assignment, that
\* one keeps no more: a group that gave keeps all it has now, and one that
\* did not, all it had before.
LEMMA OptimalForGivers ==
  ASSUME NEW w \in Busy, OneWay(w), AllAssigned(w),
         NEW other \in [Shard -> w.cfg.Groups],
         \A g \in w.cfg.Groups : Gave(w, g) =>
             Cardinality(of(other, g)) <= Cardinality(of(w.cfg.Shards, g))
  PROVE  Cardinality(Kept(w.base.Shards, other))
             <= Cardinality(Kept(w.base.Shards, w.cfg.Shards))
<1> DEFINE old == w.base.Shards
           new == w.cfg.Shards
           G == w.cfg.Groups
           X == Kept(old, other)
           Y == Kept(old, new)
<1>1. X \in SUBSET Shard /\ Y \in SUBSET Shard /\ \A s \in X : old[s] \in G
  BY DEF Kept
<1>2. ASSUME NEW g \in G
      PROVE  Cardinality({s \in X : old[s] = g}) <= Cardinality({s \in Y : old[s] = g})
  <2>1. CASE Gave(w, g)
    <3>1. ~Received(w, g)
      BY <2>1 DEF OneWay
    <3>2. {s \in Y : old[s] = g} = of(new, g)
      BY <3>1 DEF Received, Kept, of
    <3>3. {s \in X : old[s] = g} \subseteq of(other, g) /\ of(other, g) \in SUBSET Shard
      BY DEF Kept, of
    <3>4. Cardinality({s \in X : old[s] = g}) <= Cardinality(of(other, g))
      BY <3>3, SubsetCount
    <3>5. Cardinality(of(other, g)) <= Cardinality(of(new, g))
      BY <2>1
    <3>6. PICK x \in Nat : x = Cardinality({s \in X : old[s] = g})
      BY <1>1, ShardsFinite
    <3>7. PICK y \in Nat : y = Cardinality(of(other, g))
      BY <3>3, ShardsFinite
    <3>8. PICK z \in Nat : z = Cardinality(of(new, g))
      BY ShardsFinite DEF of
    <3>9. x <= y /\ y <= z
      BY <3>4, <3>5, <3>6, <3>7, <3>8
    <3>10. x <= z
      BY <3>9
    <3> QED BY <3>2, <3>6, <3>8, <3>10
  <2>2. CASE ~Gave(w, g)
    <3>1. {s \in Y : old[s] = g} = of(old, g)
      BY <2>2 DEF Gave, Kept, of
    <3>2. {s \in X : old[s] = g} \subseteq of(old, g) /\ of(old, g) \in SUBSET Shard
      BY DEF Kept, of
    <3> QED BY <3>1, <3>2, SubsetCount
  <2> QED BY <2>1, <2>2
<1>3. NoMoreOften(X, old, Y, old, G)
  BY <1>2 DEF NoMoreOften
<1> QED BY <1>1, <1>3, Dominated

\* If every group that received a shard is given as many by the other
\* assignment, that one keeps no more: it has no more shards left for the
\* other groups than they have now, and those are all kept.
LEMMA OptimalForReceivers ==
  ASSUME NEW w \in Busy, OneWay(w), AllAssigned(w),
         NEW other \in [Shard -> w.cfg.Groups],
         \A h \in w.cfg.Groups : Received(w, h) =>
             Cardinality(of(w.cfg.Shards, h)) <= Cardinality(of(other, h))
  PROVE  Cardinality(Kept(w.base.Shards, other))
             <= Cardinality(Kept(w.base.Shards, w.cfg.Shards))
<1> DEFINE old == w.base.Shards
           new == w.cfg.Shards
           G == w.cfg.Groups
           X == Kept(old, other)
           Y == Kept(old, new)
           R == {h \in G : Received(w, h)}
           there == {s \in Shard : other[s] \in R}
           here == {s \in Shard : new[s] \in R}
<1>1. /\ X \in SUBSET Shard /\ Y \in SUBSET Shard
      /\ there \in SUBSET Shard /\ here \in SUBSET Shard /\ Shard \in SUBSET Shard
  BY DEF Kept
<1>2. Cardinality(here) <= Cardinality(there)
  <2>1. \A s \in here : new[s] \in R
    OBVIOUS
  <2>2. ASSUME NEW h \in R
        PROVE  Cardinality({s \in here : new[s] = h}) <= Cardinality({s \in there : other[s] = h})
    <3>1. {s \in here : new[s] = h} = of(new, h) /\ {s \in there : other[s] = h} = of(other, h)
      BY DEF of
    <3>2. Cardinality(of(new, h)) <= Cardinality(of(other, h))
      OBVIOUS
    <3> QED BY <3>1, <3>2
  <2>3. NoMoreOften(here, new, there, other, R)
    BY <2>2 DEF NoMoreOften
  <2> HIDE DEF here, there, R
  <2> QED BY <1>1, <2>1, <2>3, Dominated
<1>3. Shard \ here = Y \ here
  <2>1. ASSUME NEW s \in Shard, new[s] \notin R PROVE old[s] = new[s]
    <3>1. new[s] \in G /\ ~Received(w, new[s])
      BY <2>1 DEF AllAssigned
    <3> QED BY <3>1 DEF Received
  <2> QED BY <2>1 DEF Kept
<1>4. X \cap there \subseteq Y \cap here
  <2> SUFFICES ASSUME NEW s \in Shard, old[s] = other[s], other[s] \in R
               PROVE  old[s] = new[s] /\ new[s] \in R
    BY DEF Kept
  <2>1. ~Gave(w, old[s])
    BY DEF OneWay
  <2> QED BY <2>1 DEF Gave
<1>5. X \ there \subseteq Shard \ there
  BY <1>1
<1> HIDE DEF X, Y, here, there
<1>6. Cardinality(X \cap there) <= Cardinality(Y \cap here)
  BY <1>1, <1>4, SubsetCount
<1>7. Cardinality(X \ there) <= Cardinality(Shard \ there)
  BY <1>1, <1>5, SubsetCount
<1>8. /\ Cardinality(Shard) = Cardinality(there) + Cardinality(Shard \ there)
      /\ Cardinality(Shard) = Cardinality(here) + Cardinality(Shard \ here)
  <2>1. Shard \cap there = there /\ Shard \cap here = here
    BY <1>1
  <2> QED BY <1>1, <2>1, SplitCount
<1>9. /\ Cardinality(X) = Cardinality(X \cap there) + Cardinality(X \ there)
      /\ Cardinality(Y) = Cardinality(Y \cap here) + Cardinality(Y \ here)
  BY <1>1, SplitCount
<1>10. PICK n1 \in Nat : n1 = Cardinality(there)
  BY <1>1, ShardsFinite
<1>11. PICK n2 \in Nat : n2 = Cardinality(here)
  BY <1>1, ShardsFinite
<1>12. PICK n3 \in Nat : n3 = Cardinality(Shard \ there)
  BY <1>1, SplitCount
<1>13. PICK n4 \in Nat : n4 = Cardinality(Shard \ here)
  BY <1>1, SplitCount
<1>14. PICK x1 \in Nat : x1 = Cardinality(X \cap there)
  BY <1>1, SplitCount
<1>15. PICK x2 \in Nat : x2 = Cardinality(X \ there)
  BY <1>1, SplitCount
<1>16. PICK y1 \in Nat : y1 = Cardinality(Y \cap here)
  BY <1>1, SplitCount
<1>17. n2 <= n1 /\ n1 + n3 = n2 + n4 /\ x1 <= y1 /\ x2 <= n3
  BY <1>2, <1>6, <1>7, <1>8, <1>10, <1>11, <1>12, <1>13, <1>14, <1>15, <1>16
<1>18. x1 + x2 <= y1 + n4
  BY <1>17
<1>19. Cardinality(X) = x1 + x2 /\ Cardinality(Y) = y1 + n4
  BY <1>3, <1>9, <1>13, <1>14, <1>15, <1>16
<1>20. Cardinality(X) <= Cardinality(Y)
  BY <1>18, <1>19
<1> QED BY <1>20 DEF X, Y

\* No valid assignment moves fewer shards than a computation that has come to
\* a valid one with its loads in order.
LEMMA Optimal ==
  ASSUME NEW w \in Busy, OneWay(w), ReceiversBelowGivers(w),
         Valid(w.cfg.Shards, w.cfg.Groups),
         NEW other \in [Shard -> w.cfg.Groups], Valid(other, w.cfg.Groups)
  PROVE  Cardinality(Kept(w.base.Shards, other))
             <= Cardinality(Kept(w.base.Shards, w.cfg.Shards))
<1> DEFINE new == w.cfg.Shards
           G == w.cfg.Groups
<1>1. AllAssigned(w)
  BY DEF Valid, AllAssigned
<1>2. CASE \A g \in G : Gave(w, g) => Cardinality(of(other, g)) <= Cardinality(of(new, g))
  BY <1>1, <1>2, OptimalForGivers
<1>3. ASSUME NEW g \in G, Gave(w, g), ~(Cardinality(of(other, g)) <= Cardinality(of(new, g))),
             NEW h \in G, Received(w, h)
      PROVE  Cardinality(of(new, h)) <= Cardinality(of(other, h))
  <2>1. of(other, g) \in SUBSET Shard /\ of(new, g) \in SUBSET Shard
        /\ of(other, h) \in SUBSET Shard /\ of(new, h) \in SUBSET Shard
    BY DEF of
  <2>2. PICK x \in Nat : x = Cardinality(of(other, g))
    BY <2>1, ShardsFinite
  <2>3. PICK y \in Nat : y = Cardinality(of(new, g))
    BY <2>1, ShardsFinite
  <2>4. PICK p \in Nat : p = Cardinality(of(other, h))
    BY <2>1, ShardsFinite
  <2>5. PICK q \in Nat : q = Cardinality(of(new, h))
    BY <2>1, ShardsFinite
  <2>6. x <= p + 1
    BY <2>2, <2>4 DEF Valid, of
  <2>7. q <= y
    BY <1>3, <2>3, <2>5, CountType DEF ReceiversBelowGivers
  <2>8. ~(x <= y)
    BY <1>3, <2>2, <2>3
  <2>9. q <= p
    BY <2>6, <2>7, <2>8
  <2> QED BY <2>4, <2>5, <2>9
<1>4. CASE \E g \in G : Gave(w, g) /\ ~(Cardinality(of(other, g)) <= Cardinality(of(new, g)))
  <2>1. \A h \in G : Received(w, h) => Cardinality(of(new, h)) <= Cardinality(of(other, h))
    BY <1>3, <1>4
  <2> QED BY <1>1, <2>1, OptimalForReceivers
<1> QED BY <1>2, <1>4

(***************************************************************************)
(* The inductive invariant.                                                *)
(***************************************************************************)
\* A computation under way: what it has come to it has come to by iterations
\* from the configuration it was begun with, and its loads are in order.
Computation(w) ==
    /\ w \in Busy
    /\ w.base.Num < MaxNum
    /\ Reaches(Rebalancing, start(w.base, w.cfg.Groups), w)
    /\ IF w.cfg.Groups = {} THEN w.pc = "ready" => \A s \in Shard : w.cfg.Shards[s] = 0
       ELSE OnTheWay(w)

CfgInv == TypeOK /\ \A a \in Admin : work[a].pc = "idle" \/ Computation(work[a])

LEMMA StartType ==
  ASSUME NEW base \in Config, base.Num < MaxNum, NEW G \in SUBSET Gid
  PROVE  /\ start(base, G) \in Busy
         /\ start(base, G).base = base
         /\ start(base, G).cfg.Groups = G
         /\ start(base, G).cfg.Shards = base.Shards
         /\ start(base, G).pc = "assign" /\ start(base, G).shard = 1
<1> DEFINE c == [base EXCEPT !.Num = @ + 1, !.Groups = G]
<1>1. base.Num + 1 \in 0..MaxNum
  BY SizeAssumption DEF Config
<1>2. c \in Config /\ c.Groups = G /\ c.Shards = base.Shards
  BY <1>1 DEF Config
<1>3. 1 \in Shard /\ 1 \in 0..NShards
  BY SizeAssumption DEF Shard
<1> HIDE DEF c
<1>4. start(base, G) = [pc |-> "assign", shard |-> 1, base |-> base, cfg |-> c]
  BY DEF start, c
<1> QED BY <1>2, <1>3, <1>4 DEF Busy, WorkType, AtWork

\* What is begun is a computation.
LEMMA StartComputes ==
  ASSUME NEW base \in Config, base.Num < MaxNum, NEW G \in SUBSET Gid
  PROVE  Computation(start(base, G))
<1>1. PICK w : w = start(base, G)
  OBVIOUS
<1>2. /\ w \in Busy /\ w.base = base /\ w.cfg.Groups = G
      /\ w.cfg.Shards = base.Shards /\ w.pc = "assign" /\ w.shard = 1
  BY <1>1, StartType
<1>3. Reaches(Rebalancing, w, w)
  BY DEF Reaches
<1>4. \A g : ~Received(w, g) /\ ~Gave(w, g)
  BY <1>2 DEF Received, Gave
<1>5. OneWay(w) /\ ReceiversAreLow(w) /\ GiversAreHigh(w) /\ ReceiversBelowGivers(w)
  BY <1>4 DEF OneWay, ReceiversAreLow, GiversAreHigh, ReceiversBelowGivers
<1>6. AssignedSoFar(w)
  <2>1. \A s \in Shard : ~(s < 1)
    BY DEF Shard
  <2> QED BY <1>2, <2>1 DEF AssignedSoFar
<1>7. OnTheWay(w)
  BY <1>2, <1>5, <1>6 DEF OnTheWay
<1> QED BY <1>1, <1>2, <1>3, <1>7 DEF Computation

\* Going on with a computation is one.
LEMMA IterationComputes ==
  ASSUME NEW w, Computation(w)
  PROVE  Computation(iteration(w))
<1>1. w \in Busy /\ w.pc \in {"assign", "move", "ready"}
  BY DEF Computation, Busy, WorkType, AtWork
<1>2. PICK v : v = iteration(w)
  OBVIOUS
<1>3. v \in Busy
  BY <1>1, <1>2, IterationType
<1>4. v.base = w.base /\ v.cfg.Groups = w.cfg.Groups
  <2>1. CASE w.pc = "assign" /\ w.cfg.Groups = {}
    <3>1. v = unassigned(w)
      BY <1>2, <2>1 DEF iteration
    <3> QED BY <3>1, <1>1 DEF unassigned, Busy, WorkType, Config
  <2>2. CASE w.pc = "assign" /\ w.cfg.Groups # {}
    <3>1. v = assigned(w)
      BY <1>2, <2>2 DEF iteration
    <3> QED BY <3>1, <2>2, <1>1, AssignedType
  <2>3. CASE w.pc = "move"
    <3>1. v = moved(w)
      BY <1>2, <2>3 DEF iteration
    <3> QED BY <3>1, <2>3, <1>1, MovedType
  <2>4. CASE w.pc = "ready"
    BY <1>2, <2>4 DEF iteration
  <2> QED BY <1>1, <2>1, <2>2, <2>3, <2>4
<1>5. Reaches(Rebalancing, start(v.base, v.cfg.Groups), v)
  <2>1. w \in DOMAIN Rebalancing /\ Rebalancing[w] = v
    BY <1>1, <1>2 DEF Rebalancing
  <2>2. Reaches(Rebalancing, start(w.base, w.cfg.Groups), w)
    BY DEF Computation
  <2>3. Reaches(Rebalancing, start(w.base, w.cfg.Groups), Rebalancing[w])
    BY <2>1, <2>2, ReachesNext
  <2> QED BY <1>4, <2>1, <2>3
<1>6. IF v.cfg.Groups = {} THEN v.pc = "ready" => \A s \in Shard : v.cfg.Shards[s] = 0
      ELSE OnTheWay(v)
  <2>1. CASE w.cfg.Groups = {}
    <3>1. w.pc # "move"
      BY <1>1, <2>1 DEF Busy, AtWork
    <3>2. CASE w.pc = "ready"
      BY <1>2, <2>1, <3>2 DEF iteration, Computation
    <3>3. CASE w.pc = "assign"
      <4>1. v = unassigned(w)
        BY <1>2, <2>1, <3>3 DEF iteration
      <4>2. v.cfg.Shards = [s \in Shard |-> 0]
        BY <4>1, <1>1 DEF unassigned, Busy, WorkType, Config
      <4> QED BY <1>4, <2>1, <4>2
    <3> QED BY <1>1, <3>1, <3>2, <3>3
  <2>2. CASE w.cfg.Groups # {}
    <3>1. OnTheWay(w)
      BY <2>2 DEF Computation
    <3>2. CASE w.pc = "ready"
      BY <1>2, <2>2, <3>1, <3>2 DEF iteration
    <3>3. CASE w.pc = "assign"
      <4>1. v = assigned(w)
        BY <1>2, <2>2, <3>3 DEF iteration
      <4> QED BY <1>1, <1>4, <2>2, <3>1, <3>3, <4>1, AssignedOnTheWay
    <3>4. CASE w.pc = "move"
      <4>1. v = moved(w)
        BY <1>2, <3>4 DEF iteration
      <4> QED BY <1>1, <1>4, <2>2, <3>1, <3>4, <4>1, MovedOnTheWay
    <3> QED BY <1>1, <3>2, <3>3, <3>4
  <2> QED BY <2>1, <2>2
<1>7. v.base.Num < MaxNum
  BY <1>4 DEF Computation
<1>8. Computation(v)
  BY <1>3, <1>5, <1>6, <1>7 DEF Computation
<1> QED BY <1>2, <1>8

\* Whatever order the map is walked through in, a step of Rebalance is the
\* iteration.
LEMMA RebalanceStep ==
  ASSUME TypeOK, NEW a \in Admin, Rebalance(a)
  PROVE  /\ work[a].pc # "idle"
         /\ work' = [work EXCEPT ![a] = iteration(work[a])]
         /\ published' = published
<1>1. PICK w : w = work[a]
  OBVIOUS
<1>2. w \in WorkType /\ w.cfg.Groups \in SUBSET Gid /\ work \in [Admin -> WorkType]
  BY <1>1 DEF TypeOK, WorkType, Config
<1>3. CASE Unassign(a)
  <2>1. w.pc = "assign" /\ w.cfg.Groups = {} /\ published' = published
    BY <1>1, <1>3 DEF Unassign
  <2>2. iteration(w) = unassigned(w)
    BY <2>1 DEF iteration
  <2>3. work' = [work EXCEPT ![a] = unassigned(w)]
    BY <1>1, <1>3, <1>2 DEF Unassign, unassigned, WorkType
  <2> QED BY <1>1, <2>1, <2>2, <2>3
<1>4. ASSUME NEW order \in SetToSeqs(work[a].cfg.Groups), Assign(a, inOrder(order))
      PROVE  /\ w.pc # "idle"
             /\ work' = [work EXCEPT ![a] = iteration(w)]
             /\ published' = published
  <2>1. w.pc = "assign" /\ w.cfg.Groups # {} /\ published' = published
    BY <1>1, <1>4 DEF Assign
  <2>2. iteration(w) = assigned(w)
    BY <2>1 DEF iteration
  <2>3. inOrder(order) = sorted(w.cfg.Groups)
    BY <1>1, <1>2, SameOrder
  <2>4. work' = [work EXCEPT ![a] = assigned(w)]
    BY <1>1, <1>4, <1>2, <2>3 DEF Assign, assigned, WorkType
  <2> QED BY <2>1, <2>2, <2>4
<1>5. ASSUME NEW order \in SetToSeqs(work[a].cfg.Groups), Move(a, inOrder(order))
      PROVE  /\ w.pc # "idle"
             /\ work' = [work EXCEPT ![a] = iteration(w)]
             /\ published' = published
  <2>1. w.pc = "move" /\ published' = published
    BY <1>1, <1>5 DEF Move
  <2>2. iteration(w) = moved(w)
    BY <2>1 DEF iteration
  <2>3. inOrder(order) = sorted(w.cfg.Groups)
    BY <1>1, <1>2, SameOrder
  <2>4. work' = [work EXCEPT ![a] = moved(w)]
    BY <1>1, <1>5, <1>2, <2>3 DEF Move, moved, WorkType
  <2> QED BY <2>1, <2>2, <2>4
<1> QED BY <1>1, <1>3, <1>4, <1>5 DEF Rebalance

LEMMA IdleType == MakeShardConfig \in Config /\ Idle \in WorkType /\ Idle.pc = "idle"
<1>1. 0 \in 0..MaxNum /\ 0 \in 0..NShards
  BY SizeAssumption
<1>2. MakeShardConfig \in Config
  BY <1>1 DEF MakeShardConfig, Config
<1> QED BY <1>1, <1>2 DEF Idle, WorkType

LEMMA CfgInvInit == Init => CfgInv
<1> SUFFICES ASSUME Init PROVE CfgInv
  OBVIOUS
<1>1. published \in Config /\ work \in [Admin -> WorkType] /\ \A a \in Admin : work[a] = Idle
  BY IdleType DEF Init
<1> QED BY <1>1, IdleType DEF CfgInv, TypeOK, WorkType

\* Replacing what one administrator does by something as good.
LEMMA CfgInvStep ==
  ASSUME CfgInv, NEW a \in Admin, NEW v \in WorkType, v.pc = "idle" \/ Computation(v),
         work' = [work EXCEPT ![a] = v], published' \in Config
  PROVE  CfgInv'
<1>1. work \in [Admin -> WorkType]
  BY DEF CfgInv, TypeOK, WorkType
<1>2. work' \in [Admin -> WorkType] /\ \A b \in Admin : work'[b] = IF b = a THEN v ELSE work[b]
  BY <1>1
<1>3. TypeOK'
  BY <1>2 DEF TypeOK, WorkType
<1>4. ASSUME NEW b \in Admin PROVE work'[b].pc = "idle" \/ Computation(work'[b])
  BY <1>2 DEF CfgInv
<1>5. \A b \in Admin : work'[b].pc = "idle" \/ Computation(work[b])'
  BY <1>4 DEF Computation, Busy, WorkType, AtWork, Reaches, OnTheWay
<1> QED BY <1>3, <1>5 DEF CfgInv

LEMMA CfgInvNext == CfgInv /\ [Next]_vars => CfgInv'
<1> SUFFICES ASSUME CfgInv, [Next]_vars PROVE CfgInv'
  OBVIOUS
<1>1. TypeOK /\ published \in Config /\ work \in [Admin -> WorkType]
  BY DEF CfgInv, TypeOK, WorkType
<1>2. ASSUME NEW a \in Admin, NEW G \in SUBSET Gid, Computes(a, G) PROVE CfgInv'
  <2>1. published.Num < MaxNum /\ published' = published
    BY <1>2 DEF Computes
  <2>2. work' = [work EXCEPT ![a] = start(published, G)]
    BY <1>2 DEF Computes, start
  <2>3. Computation(start(published, G)) /\ start(published, G) \in WorkType
    BY <1>1, <2>1, StartComputes DEF Computation, Busy
  <2>4. PICK v : v = start(published, G)
    OBVIOUS
  <2> QED BY <1>1, <2>1, <2>2, <2>3, <2>4, CfgInvStep
<1>3. ASSUME NEW a \in Admin, NEW gids \in SUBSET Gid, JoinBalance(a, gids) PROVE CfgInv'
  <2>1. published.Groups \union gids \in SUBSET Gid
    BY <1>1 DEF Config
  <2> QED BY <1>2, <1>3, <2>1 DEF JoinBalance
<1>4. ASSUME NEW a \in Admin, NEW gids \in SUBSET Gid, LeaveBalance(a, gids) PROVE CfgInv'
  <2>1. published.Groups \ gids \in SUBSET Gid
    BY <1>1 DEF Config
  <2> QED BY <1>2, <1>4, <2>1 DEF LeaveBalance
<1>5. ASSUME NEW a \in Admin, Rebalance(a) PROVE CfgInv'
  <2>1. PICK v : v = iteration(work[a])
    OBVIOUS
  <2>2. work[a].pc # "idle" /\ work' = [work EXCEPT ![a] = v] /\ published' = published
    BY <1>1, <1>5, <2>1, RebalanceStep
  <2>3. Computation(v) /\ v \in WorkType
    <3>1. Computation(work[a])
      BY <2>2 DEF CfgInv
    <3>2. Computation(v)
      BY <2>1, <3>1, IterationComputes
    <3> QED BY <3>2 DEF Computation, Busy
  <2> QED BY <1>1, <2>2, <2>3, CfgInvStep
<1>6. ASSUME NEW a \in Admin, ChangeConfigTo(a) PROVE CfgInv'
  <2>1. work' = [work EXCEPT ![a] = Idle] /\ published' \in Config
    BY <1>1, <1>6 DEF ChangeConfigTo, WorkType
  <2> QED BY <2>1, IdleType, CfgInvStep
<1>7. CASE UNCHANGED vars
  BY <1>7 DEF vars, CfgInv, TypeOK, Computation, Busy, WorkType, AtWork, Reaches, OnTheWay
<1> QED BY <1>3, <1>4, <1>5, <1>6, <1>7 DEF Next

\* Every computation of a configuration that is under way has come from the
\* configuration and the change it was begun with, its loads in order, in
\* whatever way the administrators take turns.
THEOREM CfgInvAlways == Spec => []CfgInv
BY CfgInvInit, CfgInvNext, PTL DEF Spec

\* In a computation that has come to an end, the next iteration changes nothing.
LEMMA ReadyIsEnd ==
  ASSUME NEW w \in Busy, w.pc = "ready"
  PROVE  Rebalancing[w] = w
BY DEF Rebalancing, iteration

\* Rebalance is deterministic, although Go walks through the map of groups in
\* any order: whoever makes the same change to the same configuration comes to
\* the same one.
THEOREM SameResultAlways == Spec => []SameResult
<1>1. CfgInv => SameResult
  <2> SUFFICES ASSUME CfgInv, NEW a \in Admin, NEW b \in Admin,
                      work[a].pc = "ready", work[b].pc = "ready",
                      work[a].base = work[b].base, work[a].cfg.Groups = work[b].cfg.Groups
               PROVE  work[a].cfg = work[b].cfg
    BY DEF SameResult
  <2>1. PICK v : v = work[a]
    OBVIOUS
  <2>2. PICK w : w = work[b]
    OBVIOUS
  <2>3. Computation(v) /\ Computation(w) /\ v.pc = "ready" /\ w.pc = "ready"
    BY <2>1, <2>2 DEF CfgInv
  <2>4. PICK x : x = start(v.base, v.cfg.Groups)
    OBVIOUS
  <2>5. x = start(w.base, w.cfg.Groups)
    BY <2>1, <2>2, <2>4
  <2>6. v \in Busy /\ w \in Busy
    BY <2>3 DEF Computation
  <2>7. x \in Busy
    <3>1. v.base \in Config /\ v.base.Num < MaxNum /\ v.cfg.Groups \in SUBSET Gid
      BY <2>3, <2>6 DEF Computation, Busy, WorkType, Config
    <3> QED BY <2>4, <3>1, StartType
  <2>8. Reaches(Rebalancing, x, v) /\ Reaches(Rebalancing, x, w)
    BY <2>3, <2>4, <2>5 DEF Computation
  <2>9. Rebalancing \in [Busy -> Busy] /\ Rebalancing[v] = v /\ Rebalancing[w] = w
    BY <2>3, <2>6, IterationType, ReadyIsEnd DEF Rebalancing
  <2>10. v = w
    BY <2>6, <2>7, <2>8, <2>9, SameEnd
  <2> QED BY <2>1, <2>2, <2>10
<1> QED BY <1>1, CfgInvAlways, PTL

\* Rebalance ends in a configuration CheckConfig accepts, and no configuration
\* it accepts moves fewer shards.
THEOREM RebalanceIsOptimalAlways == Spec => []RebalanceIsOptimal
<1>1. CfgInv => RebalanceIsOptimal
  <2> SUFFICES ASSUME CfgInv, NEW a \in Admin, work[a].pc = "ready"
               PROVE  LET old == work[a].base.Shards
                          new == work[a].cfg
                      IN  IF new.Groups = {} THEN \A s \in Shard : new.Shards[s] = 0
                          ELSE /\ Valid(new.Shards, new.Groups)
                               /\ \A other \in [Shard -> new.Groups] :
                                      Moved(old, other) < Moved(old, new.Shards)
                                      => ~Valid(other, new.Groups)
    BY DEF RebalanceIsOptimal
  <2>1. PICK w : w = work[a]
    OBVIOUS
  <2>2. Computation(w) /\ w \in Busy /\ w.pc = "ready"
    BY <2>1 DEF CfgInv, Computation
  <2>3. CASE w.cfg.Groups = {}
    BY <2>1, <2>2, <2>3 DEF Computation
  <2>4. CASE w.cfg.Groups # {}
    <3>1. OnTheWay(w)
      BY <2>2, <2>4 DEF Computation
    <3>2. Valid(w.cfg.Shards, w.cfg.Groups) /\ OneWay(w) /\ ReceiversBelowGivers(w)
      BY <2>2, <3>1 DEF OnTheWay
    <3>3. ASSUME NEW other \in [Shard -> w.cfg.Groups], Valid(other, w.cfg.Groups)
          PROVE  ~(Moved(w.base.Shards, other) < Moved(w.base.Shards, w.cfg.Shards))
      <4>1. Cardinality(Kept(w.base.Shards, other))
              <= Cardinality(Kept(w.base.Shards, w.cfg.Shards))
        BY <2>2, <3>2, <3>3, Optimal
      <4>2. PICK x \in Nat : x = Cardinality(Kept(w.base.Shards, other))
        BY MovedIsRest
      <4>3. PICK y \in Nat : y = Cardinality(Kept(w.base.Shards, w.cfg.Shards))
        BY MovedIsRest
      <4>4. /\ Moved(w.base.Shards, other) = NShards - x
            /\ Moved(w.base.Shards, w.cfg.Shards) = NShards - y
            /\ NShards \in Nat
        BY <4>2, <4>3, MovedIsRest
      <4>5. x <= y
        BY <4>1, <4>2, <4>3
      <4> QED BY <4>4, <4>5
    <3> QED BY <2>1, <2>4, <3>2, <3>3
  <2> QED BY <2>3, <2>4
<1> QED BY <1>1, CfgInvAlways, PTL
=============================================================================
