----------------------------- MODULE RsmProofs -----------------------------
(***************************************************************************)
(* Submit answers its own operation, for any number of servers, calls,     *)
(* terms and restarts.                                                     *)
(***************************************************************************)
EXTENDS Rsm, TLAPS, SequenceTheorems, WellFoundedInduction

Id == (Server \cup {None}) \X Nat \X Nat
Entry == [id : Id, call : Call, term : 0..MaxTerm]
Waiter == [id : Id, call : Call]
Submitted ==
    [pc : {"idle", "registered", "waiting", "returned"}, server : Server \cup {None},
     epoch : Nat, sequence : Nat, term : 0..MaxTerm, waiter : Nat,
     answer : Nat \cup {ErrWrongLeader}]

\* The types, with positions in the log that exist.
RsmTypes ==
    /\ term \in [Server -> 0..MaxTerm] /\ leader \in [Server -> BOOLEAN]
    /\ proposals \subseteq Entry /\ log \in Seq(Entry)
    /\ alive \in [Server -> BOOLEAN]
    /\ epoch \in [Server -> Nat] /\ nextSequence \in [Server -> Nat]
    /\ waiters \in [Server -> SUBSET Waiter]
    /\ applied \in [Server -> 0..Len(log)] /\ snapshotIndex \in [Server -> 0..Len(log)]
    /\ inHand \in [Server -> 0..Len(log)]
    /\ calls \in [Call -> Submitted]

\* A call got its identity from a start of its server that is over, or from
\* the present one, whose counter has passed it.
Numbered(c) ==
    LET s == calls[c].server IN
    /\ s \in Server
    /\ \/ calls[c].epoch < epoch[s]
       \/ calls[c].epoch = epoch[s] /\ calls[c].sequence <= nextSequence[s]

\* What carries an identity carries that of the call it belongs to.
Owns(op) == calls[op.call].pc # "idle" /\ op.id = opID(calls[op.call])

\* A reply for call c is the position of its operation.
Own(c, index) == index \in 1..Len(log) /\ log[index].call = c

RsmInv ==
    /\ RsmTypes
    /\ \A c \in Call : calls[c].pc # "idle" => Numbered(c)
    /\ \A c, d \in Call : calls[c].pc # "idle" /\ calls[d].pc # "idle"
                        /\ opID(calls[c]) = opID(calls[d]) => c = d
    /\ \A p \in proposals : Owns(p)
    /\ \A i \in 1..Len(log) : Owns(log[i])
    /\ \A s \in Server : \A w \in waiters[s] : Owns(w)
    /\ \A c \in Call : calls[c].waiter # None => Own(c, calls[c].waiter)
    /\ \A c \in Call : calls[c].pc = "returned" /\ calls[c].answer # ErrWrongLeader =>
                       Own(c, calls[c].answer)

----------------------------------------------------------------------------
\* FiniteSetsExt's Max, on the terms of the servers.
LEMMA MaxIsMember ==
    ASSUME NEW b \in Nat, NEW S, S \subseteq 0..b, S # {}
    PROVE  Max(S) \in S
<1> DEFINE T == {n \in 0..b : b - n \in S}
           R == OpToRel(<, Nat)
<1>1. T \subseteq Nat /\ T # {}
  <2>1. PICK x \in S : TRUE
    OBVIOUS
  <2>2. b - x \in 0..b /\ b - (b - x) = x
    OBVIOUS
  <2>3. b - x \in T
    BY <2>2
  <2> QED BY <2>3
<1>2. IsWellFoundedOn(R, Nat)
  BY NatLessThanWellFounded
<1>3. R = {ss \in Nat \X Nat : ss[1] < ss[2]}
  BY Zenon DEF OpToRel
<1> HIDE DEF R, T
<1>4. PICK m \in T : \A y \in T : ~(<<y, m>> \in R)
  BY <1>1, <1>2, WFMin
<1>5. ASSUME NEW y \in T PROVE m <= y
  <2>1. <<y, m>> \in Nat \X Nat /\ ~(<<y, m>> \in {ss \in Nat \X Nat : ss[1] < ss[2]})
    BY <1>1, <1>3, <1>4
  <2>2. ~(<<y, m>>[1] < <<y, m>>[2])
    BY <2>1
  <2> QED BY <1>1, <2>2
<1>6. b - m \in S /\ m \in 0..b
  BY DEF T
<1>7. ASSUME NEW x \in S PROVE b - m >= x
  <2>1. b - x \in 0..b /\ b - (b - x) = x
    OBVIOUS
  <2>2. b - x \in T
    BY <2>1 DEF T
  <2> QED BY <1>5, <1>6, <2>2
<1> QED BY <1>6, <1>7 DEF Max

\* The latest term is the term of a server.
LEMMA LatestTermType ==
    ASSUME RsmTypes, NEW s \in Server
    PROVE  LatestTerm \in 0..MaxTerm
<1> DEFINE S == {term[u] : u \in Server}
<1>1. S \subseteq 0..MaxTerm /\ S # {}
  BY DEF RsmTypes
<1> HIDE DEF S
<1>2. Max(S) \in S
  BY <1>1, MaxIsMember, BoundAssumption
<1>3. LatestTerm = Max(S)
  BY DEF LatestTerm, S
<1> QED BY <1>1, <1>2, <1>3

\* A step that gives no call a new identity keeps the invariant if what it adds
\* to Raft's log and proposals belongs to a call, and what it passes on as a
\* reply is the position of the call's operation.
LEMMA Frame ==
    ASSUME RsmInv, RsmTypes',
           \A c \in Call : /\ calls'[c].pc = "idle" <=> calls[c].pc = "idle"
                           /\ calls'[c].server = calls[c].server
                           /\ calls'[c].epoch = calls[c].epoch
                           /\ calls'[c].sequence = calls[c].sequence,
           \A s \in Server : \/ epoch'[s] > epoch[s]
                             \/ epoch'[s] = epoch[s] /\ nextSequence'[s] = nextSequence[s],
           \A p \in proposals' : p \in proposals \/ Owns(p),
           Len(log') >= Len(log),
           \A i \in 1..Len(log) : log'[i] = log[i],
           \A i \in 1..Len(log') : i > Len(log) => Owns(log'[i]),
           \A s \in Server : waiters'[s] \subseteq waiters[s],
           \A c \in Call : calls'[c].waiter # None => Own(c, calls'[c].waiter),
           \A c \in Call : calls'[c].pc = "returned" /\ calls'[c].answer # ErrWrongLeader =>
                           Own(c, calls'[c].answer)
    PROVE  RsmInv'
<1>0. RsmTypes /\ Len(log) \in Nat /\ Len(log') \in Nat
  BY DEF RsmInv, RsmTypes
<1>1. \A c \in Call : opID(calls'[c]) = opID(calls[c])
  BY DEF opID
<1>2. \A op : op.call \in Call /\ Owns(op) => Owns(op)'
  BY <1>1 DEF Owns
<1>3. \A c \in Call, i \in Nat : Own(c, i) => Own(c, i)'
  BY <1>0 DEF Own
<1>4. ASSUME NEW c \in Call, calls'[c].pc # "idle" PROVE Numbered(c)'
  <2>1. Numbered(c)
    BY <1>4 DEF RsmInv
  <2>2. /\ calls[c].epoch \in Nat /\ epoch \in [Server -> Nat] /\ epoch' \in [Server -> Nat]
    BY <1>0 DEF RsmTypes, Submitted
  <2> QED BY <2>1, <2>2 DEF Numbered
<1>5. \A c, d \in Call : calls'[c].pc # "idle" /\ calls'[d].pc # "idle"
                         /\ opID(calls'[c]) = opID(calls'[d]) => c = d
  BY <1>1 DEF RsmInv
<1>6. \A p \in proposals' : Owns(p)'
  <2>1. \A p \in proposals' : p.call \in Call
    BY DEF RsmTypes, Entry
  <2> QED BY <1>2, <2>1 DEF RsmInv
<1>7. \A i \in 1..Len(log') : Owns(log[i])'
  <2>1. \A i \in 1..Len(log') : log'[i].call \in Call
    <3>1. \A i \in 1..Len(log') : log'[i] \in Entry
      BY ElementOfSeq DEF RsmTypes
    <3> QED BY <3>1 DEF Entry
  <2>2. \A i \in 1..Len(log') : Owns(log'[i])
    <3>1. SUFFICES ASSUME NEW i \in 1..Len(log') PROVE Owns(log'[i])
      OBVIOUS
    <3>2. CASE i \in 1..Len(log)
      BY <3>2 DEF RsmInv
    <3>3. CASE i > Len(log)
      BY <3>3
    <3> QED BY <1>0, <3>2, <3>3
  <2> QED BY <1>2, <2>1, <2>2
<1>8. \A s \in Server : \A w \in waiters'[s] : Owns(w)'
  <2>1. \A s \in Server : \A w \in waiters'[s] : w.call \in Call
    BY DEF RsmTypes, Waiter
  <2> QED BY <1>2, <2>1 DEF RsmInv
<1>9. /\ \A c \in Call : calls'[c].waiter # None => Own(c, calls[c].waiter)'
      /\ \A c \in Call : calls'[c].pc = "returned" /\ calls'[c].answer # ErrWrongLeader =>
                         Own(c, calls[c].answer)'
  <2>1. \A c \in Call : calls'[c].waiter \in Nat
                        /\ calls'[c].answer \in Nat \cup {ErrWrongLeader}
    BY DEF RsmTypes, Submitted
  <2> QED BY <1>3, <2>1
<1> QED BY <1>4, <1>5, <1>6, <1>7, <1>8, <1>9 DEF RsmInv

----------------------------------------------------------------------------
\* Every return passes on a result or none.
LEMMA ReturnStep ==
    ASSUME RsmInv, NEW c \in Call, NEW answer, Return(c, answer), calls[c].pc # "idle",
           answer = ErrWrongLeader \/ Own(c, answer)
    PROVE  RsmInv'
<1>0. /\ RsmTypes /\ calls \in [Call -> Submitted] /\ calls[c] \in Submitted
      /\ calls[c].server \in Server /\ waiters \in [Server -> SUBSET Waiter]
  BY DEF RsmInv, RsmTypes, Numbered
<1>1. answer \in Nat \cup {ErrWrongLeader}
  BY <1>0 DEF Own, RsmTypes
<1> DEFINE new == [calls[c] EXCEPT !.pc = "returned", !.answer = answer]
<1>2. calls' = [calls EXCEPT ![c] = new]
  BY <1>0 DEF Return
<1>3. /\ new \in Submitted /\ new.pc = "returned" /\ new.answer = answer
      /\ new.server = calls[c].server /\ new.epoch = calls[c].epoch
      /\ new.sequence = calls[c].sequence /\ new.waiter = calls[c].waiter
  BY <1>0, <1>1 DEF Submitted
<1> HIDE DEF new
<1>4. /\ calls' \in [Call -> Submitted] /\ calls'[c] = new
      /\ \A d \in Call : d # c => calls'[d] = calls[d]
  BY <1>0, <1>2, <1>3
<1>5. /\ waiters' \in [Server -> SUBSET Waiter]
      /\ \A s \in Server : waiters'[s] \subseteq waiters[s]
  BY <1>0 DEF Return, removeWaiter
<1>6. UNCHANGED <<term, leader, proposals, log, alive, epoch, nextSequence,
                  applied, snapshotIndex, inHand>>
  BY DEF Return, raft, machine
<1>7. RsmTypes'
  BY <1>0, <1>4, <1>5, <1>6 DEF RsmTypes
<1>8. Len(log) \in Nat
  BY <1>0 DEF RsmTypes
<1>9. /\ \A d \in Call : calls'[d].waiter # None => Own(d, calls'[d].waiter)
      /\ \A d \in Call : calls'[d].pc = "returned" /\ calls'[d].answer # ErrWrongLeader =>
                         Own(d, calls'[d].answer)
  BY <1>3, <1>4 DEF RsmInv
<1>10. \A d \in Call : /\ calls'[d].pc = "idle" <=> calls[d].pc = "idle"
                       /\ calls'[d].server = calls[d].server
                       /\ calls'[d].epoch = calls[d].epoch
                       /\ calls'[d].sequence = calls[d].sequence
  BY <1>3, <1>4
<1> QED BY <1>5, <1>6, <1>7, <1>8, <1>9, <1>10, Frame

\* The process of a call that was started again has other epochs, and the
\* counter of the present one has not come to the new number.
LEMMA SubmitStep ==
    ASSUME RsmInv, NEW c \in Call, NEW s \in Server, Submit(c, s)
    PROVE  RsmInv'
<1>0. /\ RsmTypes /\ calls \in [Call -> Submitted] /\ epoch[s] \in Nat /\ nextSequence[s] \in Nat
      /\ nextSequence \in [Server -> Nat] /\ waiters \in [Server -> SUBSET Waiter]
  BY DEF RsmInv, RsmTypes
<1> DEFINE n == nextSequence[s] + 1
           call == [Idle EXCEPT !.pc = "registered", !.server = s,
                                !.epoch = epoch[s], !.sequence = n]
           id == opID(call)
           waiter == [id |-> id, call |-> c]
<1>1. /\ calls[c].pc = "idle"
      /\ nextSequence' = [nextSequence EXCEPT ![s] = n]
      /\ calls' = [calls EXCEPT ![c] = call]
      /\ waiters' = [waiters EXCEPT ![s] = @ \cup {waiter}]
      /\ UNCHANGED <<term, leader, proposals, log, alive, epoch, applied, snapshotIndex, inHand>>
  BY DEF Submit, raft, machine
<1>2. Idle \in Submitted /\ Idle.waiter = None /\ n \in Nat
  BY <1>0, BoundAssumption DEF Idle, Submitted, None
<1>3. /\ call \in Submitted /\ call.pc = "registered" /\ call.server = s
      /\ call.epoch = epoch[s] /\ call.sequence = n /\ call.waiter = None
  <2> HIDE DEF n
  <2> QED BY <1>0, <1>2 DEF Submitted
<1> HIDE DEF call
<1>4. id = <<s, epoch[s], n>> /\ id \in Id
  BY <1>0, <1>3 DEF opID, Id
<1> HIDE DEF id
<1>5. waiter \in Waiter /\ waiter.id = id /\ waiter.call = c
  BY <1>4 DEF Waiter
<1> HIDE DEF waiter
<1>6. /\ calls' \in [Call -> Submitted] /\ calls'[c] = call
      /\ \A d \in Call : d # c => calls'[d] = calls[d]
  BY <1>0, <1>1, <1>3
<1>7. /\ nextSequence' \in [Server -> Nat] /\ nextSequence'[s] = n
      /\ \A u \in Server : u # s => nextSequence'[u] = nextSequence[u]
  BY <1>0, <1>1
<1>8. /\ waiters' \in [Server -> SUBSET Waiter] /\ waiters'[s] = waiters[s] \cup {waiter}
      /\ \A u \in Server : u # s => waiters'[u] = waiters[u]
  BY <1>0, <1>1, <1>5
<1>9. RsmTypes'
  BY <1>0, <1>1, <1>6, <1>7, <1>8 DEF RsmTypes
<1>10. \A op : op.call \in Call /\ Owns(op) => Owns(op)'
  BY <1>1, <1>6 DEF Owns
<1>11. ASSUME NEW d \in Call, calls'[d].pc # "idle" PROVE Numbered(d)'
  <2>1. CASE d = c
    BY <1>0, <1>1, <1>3, <1>6, <1>7, <2>1 DEF Numbered
  <2>2. CASE d # c
    <3>1. Numbered(d) /\ calls[d].sequence \in Nat /\ calls'[d] = calls[d]
      BY <1>0, <1>6, <1>11, <2>2 DEF RsmInv, Submitted
    <3> QED BY <1>0, <1>1, <1>7, <3>1 DEF Numbered
  <2> QED BY <2>1, <2>2
<1>12. ASSUME NEW d \in Call, d # c, calls[d].pc # "idle" PROVE opID(calls[d]) # id
  <2>1. Numbered(d) /\ calls[d].sequence \in Nat /\ calls[d].epoch \in Nat
    BY <1>0, <1>12 DEF RsmInv, Submitted
  <2>2. calls[d].server # s \/ calls[d].epoch # epoch[s] \/ calls[d].sequence # n
    BY <1>0, <2>1 DEF Numbered
  <2> QED BY <1>4, <2>2 DEF opID
<1>13. \A d, e \in Call : calls'[d].pc # "idle" /\ calls'[e].pc # "idle"
                          /\ opID(calls'[d]) = opID(calls'[e]) => d = e
  <2>1. opID(calls'[c]) = id
    BY <1>6 DEF id
  <2> QED BY <1>6, <1>12, <2>1 DEF RsmInv
<1>14. \A p \in proposals' : Owns(p)'
  BY <1>0, <1>1, <1>10 DEF RsmInv, RsmTypes, Entry
<1>15. \A i \in 1..Len(log') : Owns(log[i])'
  <2>1. \A i \in 1..Len(log) : log[i] \in Entry
    BY <1>0, ElementOfSeq DEF RsmTypes
  <2>2. \A i \in 1..Len(log) : log[i].call \in Call /\ Owns(log[i])
    BY <2>1 DEF RsmInv, Entry
  <2> QED BY <1>1, <1>10, <2>2
<1>16. \A u \in Server : \A w \in waiters'[u] : Owns(w)'
  <2>1. \A op : op = waiter => Owns(op)'
    BY <1>3, <1>5, <1>6 DEF Owns, id
  <2>2. \A u \in Server : \A w \in waiters[u] : Owns(w) /\ w.call \in Call
    BY <1>0 DEF RsmInv, RsmTypes, Waiter
  <2> QED BY <1>8, <1>10, <2>1, <2>2
<1>17. /\ \A d \in Call : calls'[d].waiter # None => Own(d, calls[d].waiter)'
       /\ \A d \in Call : calls'[d].pc = "returned" /\ calls'[d].answer # ErrWrongLeader =>
                          Own(d, calls[d].answer)'
  BY <1>1, <1>3, <1>6 DEF RsmInv, Own
<1> QED BY <1>9, <1>11, <1>13, <1>14, <1>15, <1>16, <1>17 DEF RsmInv

\* The applier wakes the call whose identity the operation has, and no other.
LEMMA NotifyStep ==
    ASSUME RsmInv, NEW s \in Server, Notify(s)
    PROVE  RsmInv'
<1>0. RsmTypes /\ calls \in [Call -> Submitted] /\ inHand[s] \in 1..Len(log) /\ log \in Seq(Entry)
  BY DEF RsmInv, RsmTypes, Notify, None
<1>1. inHand[s] \in Nat /\ log[inHand[s]] \in Entry /\ Owns(log[inHand[s]])
  BY <1>0, ElementOfSeq DEF RsmInv
<1>2. log[inHand[s]].call \in Call
  BY <1>1 DEF Entry
<1>3. UNCHANGED <<term, leader, proposals, log, alive, epoch, nextSequence, waiters,
                  applied, snapshotIndex>>
  BY DEF Notify, raft
<1>4. inHand' \in [Server -> 0..Len(log)]
  BY <1>0 DEF Notify, RsmTypes, None
<1>5. ASSUME NEW c \in Call
      PROVE  /\ calls'[c] \in Submitted
             /\ \/ calls'[c] = calls[c]
                \/ calls'[c] = [calls[c] EXCEPT !.waiter = inHand[s]] /\ Own(c, inHand[s])
  <2>0. calls[c] \in Submitted
    BY <1>0
  <2>1. CASE /\ \E w \in waiters[s] : w.call = c /\ w.id = log[inHand[s]].id
             /\ calls[c].waiter = None
    <3>1. calls'[c] = [calls[c] EXCEPT !.waiter = inHand[s]]
      BY <2>1 DEF Notify
    <3>2. PICK w \in waiters[s] : w.call = c /\ w.id = log[inHand[s]].id
      BY <2>1
    <3>3. Owns(w)
      BY DEF RsmInv
    <3>4. log[inHand[s]].call = c
      <4> DEFINE d == log[inHand[s]].call
      <4>1. /\ calls[c].pc # "idle" /\ calls[d].pc # "idle"
            /\ opID(calls[c]) = opID(calls[d]) /\ d \in Call
        BY <1>1, <1>2, <3>2, <3>3 DEF Owns
      <4> HIDE DEF d
      <4>2. d = c
        BY <4>1 DEF RsmInv
      <4> QED BY <4>2 DEF d
    <3>5. [calls[c] EXCEPT !.waiter = inHand[s]] \in Submitted
      BY <1>1, <2>0 DEF Submitted
    <3> QED BY <1>0, <3>1, <3>4, <3>5 DEF Own
  <2>2. CASE ~(/\ \E w \in waiters[s] : w.call = c /\ w.id = log[inHand[s]].id
               /\ calls[c].waiter = None)
    <3>1. calls'[c] = calls[c]
      BY <2>2 DEF Notify
    <3> QED BY <2>0, <3>1
  <2> QED BY <2>1, <2>2
<1>6. RsmTypes'
  <2>1. DOMAIN calls' = Call /\ calls' = [c \in Call |-> calls'[c]]
    BY DEF Notify
  <2>2. calls' \in [Call -> Submitted]
    BY <1>5, <2>1
  <2> QED BY <1>0, <1>3, <1>4, <2>2 DEF RsmTypes
<1>7. ASSUME NEW c \in Call
      PROVE  /\ calls'[c].pc = calls[c].pc /\ calls'[c].answer = calls[c].answer
             /\ calls'[c].server = calls[c].server
             /\ calls'[c].epoch = calls[c].epoch
             /\ calls'[c].sequence = calls[c].sequence
             /\ calls'[c].waiter # None => Own(c, calls'[c].waiter)
  <2>1. calls[c] \in Submitted /\ (calls[c].waiter # None => Own(c, calls[c].waiter))
    BY <1>0 DEF RsmInv
  <2> QED BY <1>5, <2>1 DEF Submitted
<1>8. \A c \in Call : calls'[c].pc = "returned" /\ calls'[c].answer # ErrWrongLeader =>
                      Own(c, calls'[c].answer)
  BY <1>7 DEF RsmInv
<1>9. Len(log) \in Nat
  BY <1>0
<1> QED BY <1>3, <1>6, <1>7, <1>8, <1>9, Frame

\* The disjunct of Start in which the server leads.
Propose(c) ==
    /\ calls[c].pc = "registered"
    /\ proposals' = proposals \cup
          {[id |-> opID(calls[c]), call |-> c, term |-> term[calls[c].server]]}
    /\ calls' = [calls EXCEPT ![c].pc = "waiting", ![c].term = term[calls[c].server]]
    /\ UNCHANGED <<term, leader, log, alive, epoch, nextSequence, waiters, machine>>

\* Start proposes the operation under the identity of the call.
LEMMA ProposeStep ==
    ASSUME RsmInv, NEW c \in Call, Propose(c)
    PROVE  RsmInv'
<1>0. /\ RsmTypes /\ calls \in [Call -> Submitted] /\ calls[c] \in Submitted
      /\ calls[c].server \in Server
  BY DEF RsmInv, RsmTypes, Numbered, Propose
<1>1. term[calls[c].server] \in 0..MaxTerm
  BY <1>0 DEF RsmTypes
<1> DEFINE new == [calls[c] EXCEPT !.pc = "waiting", !.term = term[calls[c].server]]
           p == [id |-> opID(calls[c]), call |-> c, term |-> term[calls[c].server]]
<1>2. calls' = [calls EXCEPT ![c] = new] /\ proposals' = proposals \cup {p}
  BY <1>0 DEF Propose
<1>3. /\ new \in Submitted /\ new.pc = "waiting" /\ new.answer = calls[c].answer
      /\ new.server = calls[c].server /\ new.epoch = calls[c].epoch
      /\ new.sequence = calls[c].sequence /\ new.waiter = calls[c].waiter
  BY <1>0, <1>1 DEF Submitted
<1>4. p \in Entry /\ Owns(p)
  <2>1. opID(calls[c]) \in Id
    BY <1>0 DEF opID, Id, Submitted
  <2> QED BY <1>1, <2>1 DEF Entry, Owns, Propose
<1> HIDE DEF new, p
<1>5. /\ calls' \in [Call -> Submitted] /\ calls'[c] = new
      /\ \A d \in Call : d # c => calls'[d] = calls[d]
  BY <1>0, <1>2, <1>3
<1>6. RsmTypes'
  BY <1>0, <1>2, <1>4, <1>5 DEF RsmTypes, machine, Propose
<1>7. /\ \A d \in Call : calls'[d].waiter # None => Own(d, calls'[d].waiter)
      /\ \A d \in Call : calls'[d].pc = "returned" /\ calls'[d].answer # ErrWrongLeader =>
                         Own(d, calls'[d].answer)
  BY <1>3, <1>5 DEF RsmInv
<1>8. \A d \in Call : /\ calls'[d].pc = "idle" <=> calls[d].pc = "idle"
                      /\ calls'[d].server = calls[d].server
                      /\ calls'[d].epoch = calls[d].epoch
                      /\ calls'[d].sequence = calls[d].sequence
  BY <1>3, <1>5 DEF Propose
<1>9. Len(log) \in Nat
  BY <1>0 DEF RsmTypes
<1>10. /\ UNCHANGED <<log, epoch, nextSequence, waiters>>
       /\ \A q \in proposals' : q \in proposals \/ Owns(q)
  BY <1>2, <1>4 DEF Propose
<1> QED BY <1>6, <1>7, <1>8, <1>9, <1>10, Frame

\* A Submit call.
LEMMA CallsStep ==
    ASSUME RsmInv, NEW c \in Call, CallStep(c) \/ Deadline(c)
    PROVE  RsmInv'
<1>1. calls[c].waiter # None => Own(c, calls[c].waiter)
  BY DEF RsmInv
<1>2. CASE TakeResult(c)
  BY <1>1, <1>2, ReturnStep DEF TakeResult
<1>3. CASE Deadline(c) \/ LeadershipTicker(c)
  BY <1>1, <1>3, ReturnStep DEF Deadline, LeadershipTicker, GiveUp
<1>4. CASE RaftDone(c)
  BY <1>4, ReturnStep DEF RaftDone
<1>5. CASE Start(c)
  <2>1. CASE Return(c, ErrWrongLeader)
    BY <1>5, <2>1, ReturnStep DEF Start
  <2>2. CASE ~Return(c, ErrWrongLeader)
    <3>1. Propose(c)
      BY <1>5, <2>2 DEF Start, Propose
    <3> QED BY <3>1, ProposeStep
  <2> QED BY <2>1, <2>2
<1> QED BY <1>2, <1>3, <1>4, <1>5 DEF CallStep

\* Execution, snapshots, crashes and elections leave the calls alone, and the
\* log only grows, by what was proposed.
LEMMA ServerStep ==
    ASSUME RsmInv,
           \/ \E s \in Server :
                \/ DoOp(s) \/ Kill(s) \/ MakeRSM(s) \/ Elected(s) \/ HearTerm(s)
                \/ \E index \in 1..Len(log) : Restore(s, index)
           \/ \E p \in proposals : Commit(p)
    PROVE  RsmInv'
<1>0. RsmTypes /\ Len(log) \in Nat /\ log \in Seq(Entry)
  BY DEF RsmInv, RsmTypes
<1>1. UNCHANGED calls
  BY DEF DoOp, Kill, MakeRSM, Elected, HearTerm, Restore, Commit
<1>2. /\ \A c \in Call : calls'[c].waiter # None => Own(c, calls'[c].waiter)
      /\ \A c \in Call : calls'[c].pc = "returned" /\ calls'[c].answer # ErrWrongLeader =>
                         Own(c, calls'[c].answer)
  BY <1>1 DEF RsmInv
<1>3. ASSUME NEW s \in Server, DoOp(s) PROVE RsmInv'
  <2>1. RsmTypes'
    BY <1>0, <1>1, <1>3 DEF RsmTypes, DoOp, raft
  <2> QED BY <1>0, <1>1, <1>2, <1>3, <2>1, Frame DEF DoOp, raft
<1>4. ASSUME NEW s \in Server, Kill(s) PROVE RsmInv'
  <2>1. RsmTypes'
    BY <1>0, <1>1, <1>4 DEF RsmTypes, Kill, raft, machine
  <2> QED BY <1>0, <1>1, <1>2, <1>4, <2>1, Frame DEF Kill, raft
<1>5. ASSUME NEW s \in Server, MakeRSM(s) PROVE RsmInv'
  <2>1. RsmTypes'
    <3>1. /\ alive' = [alive EXCEPT ![s] = TRUE]
          /\ leader' = [leader EXCEPT ![s] = FALSE]
          /\ epoch' = [epoch EXCEPT ![s] = @ + 1]
          /\ nextSequence' = [nextSequence EXCEPT ![s] = 0]
          /\ waiters' = [waiters EXCEPT ![s] = {}]
          /\ applied' = [applied EXCEPT ![s] = snapshotIndex[s]]
          /\ inHand' = [inHand EXCEPT ![s] = None]
          /\ UNCHANGED <<term, proposals, log, snapshotIndex>>
      BY <1>5 DEF MakeRSM
    <3>2. alive' \in [Server -> BOOLEAN] /\ leader' \in [Server -> BOOLEAN]
      BY <1>0, <3>1 DEF RsmTypes
    <3>3. /\ epoch' \in [Server -> Nat] /\ nextSequence' \in [Server -> Nat]
          /\ waiters' \in [Server -> SUBSET Waiter]
      BY <1>0, <3>1 DEF RsmTypes
    <3>4. applied' \in [Server -> 0..Len(log)] /\ inHand' \in [Server -> 0..Len(log)]
      BY <1>0, <3>1 DEF RsmTypes, None
    <3> QED BY <1>0, <1>1, <3>1, <3>2, <3>3, <3>4 DEF RsmTypes
  <2>2. /\ \A u \in Server : \/ epoch'[u] > epoch[u]
                             \/ epoch'[u] = epoch[u] /\ nextSequence'[u] = nextSequence[u]
        /\ \A u \in Server : waiters'[u] \subseteq waiters[u]
    BY <1>0, <1>5 DEF RsmTypes, MakeRSM
  <2>3. UNCHANGED <<proposals, log>>
    BY <1>5 DEF MakeRSM
  <2> QED BY <1>0, <1>1, <1>2, <2>1, <2>2, <2>3, Frame
<1>6. ASSUME NEW s \in Server, Elected(s) \/ HearTerm(s) PROVE RsmInv'
  <2>1. UNCHANGED <<proposals, log, alive, epoch, nextSequence, waiters, applied,
                    snapshotIndex, inHand>>
    BY <1>6 DEF Elected, HearTerm, machine
  <2>2. term' \in [Server -> 0..MaxTerm] /\ leader' \in [Server -> BOOLEAN]
    <3>1. LatestTerm \in 0..MaxTerm
      BY <1>0, LatestTermType
    <3>2. LatestTerm < MaxTerm => LatestTerm + 1 \in 0..MaxTerm
      BY <3>1, BoundAssumption
    <3> QED BY <1>0, <1>6, <3>1, <3>2 DEF RsmTypes, Elected, HearTerm
  <2>3. RsmTypes'
    BY <1>0, <1>1, <2>1, <2>2 DEF RsmTypes
  <2> QED BY <1>0, <1>1, <1>2, <2>1, <2>3, Frame
<1>7. ASSUME NEW s \in Server, NEW index \in 1..Len(log), Restore(s, index) PROVE RsmInv'
  <2>1. RsmTypes'
    BY <1>0, <1>1, <1>7 DEF RsmTypes, Restore, raft
  <2> QED BY <1>0, <1>1, <1>2, <1>7, <2>1, Frame DEF Restore, raft
<1>8. ASSUME NEW p \in proposals, Commit(p) PROVE RsmInv'
  <2>1. p \in Entry /\ Owns(p)
    BY <1>0 DEF RsmInv, RsmTypes
  <2>2. log' = Append(log, p) /\ proposals' = proposals \ {p}
        /\ UNCHANGED <<term, leader, alive, epoch, nextSequence, waiters, applied,
                       snapshotIndex, inHand>>
    BY <1>8 DEF Commit, machine
  <2>3. /\ log' \in Seq(Entry) /\ Len(log') = Len(log) + 1 /\ log'[Len(log) + 1] = p
        /\ \A i \in 1..Len(log) : log'[i] = log[i]
    BY <1>0, <2>1, <2>2
  <2>4. RsmTypes'
    <3>1. 0..Len(log) \subseteq 0..Len(log')
      BY <1>0, <2>3
    <3>2. /\ applied' \in [Server -> 0..Len(log')] /\ snapshotIndex' \in [Server -> 0..Len(log')]
          /\ inHand' \in [Server -> 0..Len(log')]
      BY <1>0, <2>2, <3>1 DEF RsmTypes
    <3>3. proposals' \subseteq Entry
      BY <1>0, <2>2 DEF RsmTypes
    <3> QED BY <1>0, <1>1, <2>2, <2>3, <3>2, <3>3 DEF RsmTypes
  <2>5. \A i \in 1..Len(log') : i > Len(log) => Owns(log'[i])
    BY <1>0, <2>1, <2>3
  <2> QED BY <1>0, <1>1, <1>2, <2>2, <2>3, <2>4, <2>5, Frame
<1> QED BY <1>3, <1>4, <1>5, <1>6, <1>7, <1>8

----------------------------------------------------------------------------
\* The invariant holds at first.
LEMMA RsmInit == Init => RsmInv
<1> SUFFICES ASSUME Init PROVE RsmInv
  OBVIOUS
<1>1. Idle \in Submitted /\ Idle.pc = "idle" /\ Idle.waiter = None
  BY BoundAssumption DEF Idle, Submitted, None
<1>2. log = << >> /\ log \in Seq(Entry) /\ Len(log) = 0
  BY EmptySeq DEF Init
<1>3. RsmTypes
  BY <1>1, <1>2, BoundAssumption DEF Init, RsmTypes, None
<1> QED BY <1>1, <1>2, <1>3 DEF Init, RsmInv

\* And every step keeps it.
LEMMA RsmNext == RsmInv /\ [Next]_vars => RsmInv'
<1> SUFFICES ASSUME RsmInv, [Next]_vars PROVE RsmInv'
  OBVIOUS
<1>1. CASE UNCHANGED vars
  BY <1>1 DEF vars, RsmInv, RsmTypes, Numbered, Owns, Own
<1>2. CASE Next
  BY <1>2, SubmitStep, CallsStep, NotifyStep, ServerStep DEF Next
<1> QED BY <1>1, <1>2

\* Identities are unique across servers and restarts, and follow an operation
\* through the proposals, the log and the table of waiters.
THEOREM IdentityInvariant == Spec => []RsmInv
  BY RsmInit, RsmNext, PTL DEF Spec

(* Submit's OK answers its own operation, for any number of servers and    *)
(* calls, across elections, snapshots and restarts.                        *)
THEOREM RepliesAreOwn == Spec => []ReplyIsOwnExecution
<1>1. RsmInv => ReplyIsOwnExecution
  BY DEF RsmInv, ReplyIsOwnExecution, Own
<1> QED BY <1>1, IdentityInvariant, PTL
============================================================================
