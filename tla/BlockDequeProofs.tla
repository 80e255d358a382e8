-------------------------- MODULE BlockDequeProofs --------------------------
(***************************************************************************)
(* Theorems about BlockDeque for any number of threads and any capacity:   *)
(* the bound on its length, and that it notifies enough.                   *)
(***************************************************************************)
EXTENDS BlockDeque, FiniteSetTheorems, TLAPS

WokenIn(S, p) == {t \in S : p[t] = "woken"}
One(stage) == IF stage = "woken" THEN 1 ELSE 0

(* The number of threads woken changes by what the only one to move does.  *)
LEMMA WokenChange ==
  ASSUME NEW S, IsFiniteSet(S), NEW t \in S, NEW p, NEW q,
         \A u \in S \ {t} : q[u] = p[u]
  PROVE  /\ Cardinality(WokenIn(S, p)) \in Nat /\ Cardinality(WokenIn(S, q)) \in Nat
         /\ Cardinality(WokenIn(S, q)) + One(p[t]) = Cardinality(WokenIn(S, p)) + One(q[t])
<1> DEFINE Others == WokenIn(S, p) \ {t}
<1>1. Others = WokenIn(S, q) \ {t}
  BY DEF WokenIn
<1>2. IsFiniteSet(WokenIn(S, p)) /\ IsFiniteSet(WokenIn(S, q))
  <2>1. WokenIn(S, p) \in SUBSET S /\ WokenIn(S, q) \in SUBSET S
    BY DEF WokenIn
  <2>. QED
    BY <2>1, FS_Subset
<1>3. /\ Cardinality(WokenIn(S, p)) \in Nat /\ Cardinality(WokenIn(S, q)) \in Nat
  BY <1>2, FS_CardinalityType
<1>4. Cardinality(Others) = Cardinality(WokenIn(S, p)) - One(p[t])
  <2>1. Cardinality(Others) = IF t \in WokenIn(S, p) THEN Cardinality(WokenIn(S, p)) - 1
                                                     ELSE Cardinality(WokenIn(S, p))
    BY <1>2, FS_RemoveElement
  <2>2. t \in WokenIn(S, p) <=> p[t] = "woken"
    BY DEF WokenIn
  <2>. QED
    BY <1>3, <2>1, <2>2 DEF One
<1>5. Cardinality(Others) = Cardinality(WokenIn(S, q)) - One(q[t])
  <2>1. Cardinality(Others) = IF t \in WokenIn(S, q) THEN Cardinality(WokenIn(S, q)) - 1
                                                     ELSE Cardinality(WokenIn(S, q))
    BY <1>1, <1>2, FS_RemoveElement
  <2>2. t \in WokenIn(S, q) <=> q[t] = "woken"
    BY DEF WokenIn
  <2>. QED
    BY <1>3, <2>1, <2>2 DEF One
<1>6. One(p[t]) \in {0, 1} /\ One(q[t]) \in {0, 1}
  BY DEF One
<1>. QED
  BY <1>3, <1>4, <1>5, <1>6

LEMMA WokenCounts ==
  ASSUME NEW S, IsFiniteSet(S)
  PROVE  /\ Woken(S) = Cardinality(WokenIn(S, pc))
         /\ Woken(S)' = Cardinality(WokenIn(S, pc'))
         /\ Woken(S) \in Nat /\ Woken(S)' \in Nat
<1>1. /\ Woken(S) = Cardinality(WokenIn(S, pc))
      /\ Woken(S)' = Cardinality(WokenIn(S, pc'))
  BY DEF Woken, WokenIn
<1>2. WokenIn(S, pc) \in SUBSET S /\ WokenIn(S, pc') \in SUBSET S
  BY DEF WokenIn
<1>3. IsFiniteSet(WokenIn(S, pc)) /\ IsFiniteSet(WokenIn(S, pc'))
  BY <1>2, FS_Subset
<1>. QED
  BY <1>1, <1>3, FS_CardinalityType

LEMMA OneMoves ==
  ASSUME NEW S, IsFiniteSet(S), NEW t \in S, \A u \in S \ {t} : pc'[u] = pc[u]
  PROVE  /\ Woken(S) \in Nat /\ Woken(S)' \in Nat
         /\ Woken(S)' + One(pc[t]) = Woken(S) + One(pc'[t])
BY WokenCounts, WokenChange

(* Threads that stay in the waits they are in count as before.             *)
SameWaits(S) ==
  \A u \in S : /\ pc'[u] = "wait" <=> pc[u] = "wait"
               /\ pc'[u] = "woken" <=> pc[u] = "woken"

LEMMA NoneMoves ==
  ASSUME NEW S, SameWaits(S) PROVE Woken(S)' = Woken(S)
<1>1. {t \in S : pc'[t] = "woken"} = {t \in S : pc[t] = "woken"}
  BY DEF SameWaits
<1>. QED
  BY <1>1 DEF Woken

-----------------------------------------------------------------------------
LEMMA ThreadFacts ==
  /\ Producers \subseteq Threads /\ Consumers \subseteq Threads
  /\ \A t \in Producers : t \notin Consumers
  /\ IsFiniteSet(Producers) /\ IsFiniteSet(Consumers)
  /\ Capacity \in Nat /\ Capacity >= 1
BY BlockDequeAssumption DEF Threads

(* notify_one *)
LEMMA NotifyCases ==
  ASSUME NEW cond, NEW p, NotifyOne(cond, p)
  PROVE  \/ cond = {} /\ pc' = p
         \/ \E t \in cond : pc' = [p EXCEPT ![t] = "woken"]
BY DEF NotifyOne

LEMMA TypesHold == Spec => []TypeOK
<1>1. Init => TypeOK
  <2> SUFFICES ASSUME Init PROVE TypeOK
    OBVIOUS
  <2>1. deq_ \in Seq(Producers) /\ Len(deq_) <= Capacity
    BY ThreadFacts DEF Init
  <2>2. /\ call \in [Threads -> Pushes \cup Pops]
        /\ \A t \in Threads : call[t] \in Pushes <=> t \in Producers
    BY DEF Init, Pushes, Pops
  <2>3. pc \in [Threads -> {"out", "enter", "wait", "woken"}]
    BY DEF Init
  <2>. QED
    BY <2>1, <2>2, <2>3 DEF Init, TypeOK
<1>2. TypeOK /\ [Next]_vars => TypeOK'
  <2> SUFFICES ASSUME TypeOK, [Next]_vars PROVE TypeOK'
    OBVIOUS
  <2> DEFINE Stages == {"out", "enter", "wait", "woken"}
  <2>0. /\ deq_ \in Seq(Producers) /\ Len(deq_) \in Nat /\ Len(deq_) <= Capacity
        /\ pc \in [Threads -> Stages]
    BY DEF TypeOK
  <2>1. CASE UNCHANGED vars
    BY <2>1 DEF vars, TypeOK
  <2>2. ASSUME NEW cond, NEW p \in [Threads -> Stages], NotifyOne(cond, p)
        PROVE  pc' \in [Threads -> Stages]
    BY <2>2, NotifyCases
  <2>3. ASSUME NEW t \in Threads, Call(t) PROVE TypeOK'
    <3>1. PICK op \in IF t \in Producers THEN Pushes ELSE Pops : call' = [call EXCEPT ![t] = op]
      BY <2>3 DEF Call
    <3>2. /\ call' \in [Threads -> Pushes \cup Pops]
          /\ \A u \in Threads : call'[u] \in Pushes <=> u \in Producers
      BY <3>1 DEF TypeOK, Pushes, Pops
    <3>. QED
      BY <2>0, <2>3, <3>2 DEF Call, TypeOK
  <2>4. ASSUME NEW t \in Threads, SpuriousWakeUp(t) PROVE TypeOK'
    BY <2>4 DEF SpuriousWakeUp, TypeOK
  <2>5. ASSUME NEW p \in Producers, Push(p) PROVE TypeOK'
    <3>1. CASE Full
      BY <2>5, <3>1 DEF Push, Waits, TypeOK
    <3>2. CASE ~ Full
      <4>1. /\ deq_' = Append(deq_, p) \/ deq_' = <<p>> \o deq_
            /\ NotifyOne(condConsumer_, Leave(p))
            /\ UNCHANGED <<isClose_, closing, call>>
        BY <2>5, <3>2 DEF Push
      <4>2. deq_' \in Seq(Producers) /\ Len(deq_') = Len(deq_) + 1
        <5>1. CASE deq_' = Append(deq_, p)
          BY <2>0, <5>1
        <5>2. CASE deq_' = <<p>> \o deq_
          <6>1. <<p>> \in Seq(Producers) /\ Len(<<p>>) = 1
            OBVIOUS
          <6>. QED
            BY <2>0, <5>2, <6>1
        <5>. QED
          BY <4>1, <5>1, <5>2
      <4>3. Len(deq_) < Capacity
        BY <2>0, <3>2, ThreadFacts DEF Full
      <4>4. pc' \in [Threads -> Stages]
        BY <2>0, <2>2, <4>1 DEF Leave
      <4>5. Len(deq_') <= Capacity
        BY <2>0, <4>2, <4>3, ThreadFacts
      <4>. QED
        BY <4>1, <4>2, <4>4, <4>5 DEF TypeOK
    <3>. QED
      BY <3>1, <3>2
  <2>6. ASSUME NEW c \in Consumers, Pop(c) PROVE TypeOK'
    <3>1. CASE UNCHANGED <<deq_, isClose_, closing, call>> /\ pc' \in [Threads -> Stages]
      BY <3>1 DEF TypeOK
    <3>2. CASE /\ deq_ # <<>> /\ deq_' = Tail(deq_)
               /\ NotifyOne(condProducer_, Leave(c))
               /\ UNCHANGED <<isClose_, closing, call>>
      <4>1. deq_' \in Seq(Producers) /\ Len(deq_') <= Capacity
        BY <2>0, <3>2, ThreadFacts
      <4>2. pc' \in [Threads -> Stages]
        BY <2>0, <2>2, <3>2 DEF Leave
      <4>. QED
        BY <3>2, <4>1, <4>2 DEF TypeOK
    <3>. QED
      BY <2>0, <2>6, <3>1, <3>2 DEF Pop, Waits, Leave
  <2>7. ASSUME NEW c \in Consumers, TimeOut(c) PROVE TypeOK'
    BY <2>7 DEF TimeOut, Leave, TypeOK
  <2>8. CASE flush
    BY <2>0, <2>2, <2>8 DEF flush, TypeOK
  <2>9. deq_' = <<>> => deq_' \in Seq(Producers) /\ Len(deq_') <= Capacity
    BY ThreadFacts
  <2>10. CASE clear \/ close
    <3>1. deq_' = <<>> /\ UNCHANGED <<call, pc>>
      BY <2>10 DEF clear, close
    <3>2. isClose_' \in BOOLEAN /\ closing' \in BOOLEAN /\ (closing' => isClose_')
      <4>1. CASE clear
        <5>1. isClose_' = isClose_ /\ closing' = closing
          BY <4>1 DEF clear
        <5>2. isClose_ \in BOOLEAN /\ closing \in BOOLEAN /\ (closing => isClose_)
          BY DEF TypeOK
        <5>. QED
          BY <5>1, <5>2
      <4>2. CASE close
        BY <4>2 DEF close, TypeOK
      <4>. QED
        BY <2>10, <4>1, <4>2
    <3>. QED
      BY <2>9, <3>1, <3>2 DEF TypeOK
  <2>11. CASE NotifyAll
    BY <2>0, <2>11 DEF NotifyAll, TypeOK
  <2>. QED
    BY <2>1, <2>3, <2>4, <2>5, <2>6, <2>7, <2>8, <2>10, <2>11 DEF Next
<1>. QED
  BY <1>1, <1>2, PTL DEF Spec
-----------------------------------------------------------------------------
(* The two halves of NotifiesEnough, each for one kind of step.            *)
ConsumersServed == ConsumersStranded' => ConsumersStranded
ProducersServed == ProducersStranded' => ProducersStranded

(* A step that adds no item, and after which no more consumers wait and as *)
(* many are woken, strands none of them; likewise of producers and places. *)
LEMMA ConsumersUndisturbed ==
  ASSUME TypeOK, TypeOK', SameWaits(Consumers), Len(deq_') <= Len(deq_), isClose_' = isClose_
  PROVE  ConsumersServed
<1>1. Len(deq_) \in Nat /\ Len(deq_') \in Nat
  BY DEF TypeOK
<1>2. Woken(Consumers) \in Nat /\ Woken(Consumers)' = Woken(Consumers)
  BY NoneMoves, WokenCounts, ThreadFacts
<1>3. condConsumer_' = condConsumer_
  BY DEF condConsumer_, SameWaits
<1>. QED
  BY <1>1, <1>2, <1>3 DEF ConsumersServed, ConsumersStranded

LEMMA ProducersUndisturbed ==
  ASSUME TypeOK, TypeOK', SameWaits(Producers), Len(deq_') >= Len(deq_), closing' = closing
  PROVE  ProducersServed
<1>1. /\ Len(deq_) \in Nat /\ Len(deq_') \in Nat /\ Capacity \in Nat
      /\ Len(deq_) <= Capacity /\ Len(deq_') <= Capacity
  BY ThreadFacts DEF TypeOK
<1>2. Woken(Producers) \in Nat /\ Woken(Producers)' = Woken(Producers)
  BY NoneMoves, WokenCounts, ThreadFacts
<1>3. condProducer_' = condProducer_
  BY DEF condProducer_, SameWaits
<1>. QED
  BY <1>1, <1>2, <1>3 DEF ProducersServed, ProducersStranded

(* A thread that is notified is one more woken and one less waiting, which *)
(* makes up for one item, or one place, more.                              *)
LEMMA ConsumerNotified ==
  ASSUME TypeOK, TypeOK', NEW t \in condConsumer_, pc'[t] = "woken",
         \A u \in Consumers \ {t} : pc'[u] = pc[u],
         Len(deq_') <= Len(deq_) + 1, isClose_' = isClose_
  PROVE  ConsumersServed
<1>1. Len(deq_) \in Nat /\ Len(deq_') \in Nat
  BY DEF TypeOK
<1>2. t \in Consumers /\ pc[t] = "wait"
  BY DEF condConsumer_
<1>3. /\ Woken(Consumers) \in Nat /\ Woken(Consumers)' \in Nat
      /\ Woken(Consumers)' + One("wait") = Woken(Consumers) + One("woken")
  BY <1>2, OneMoves, ThreadFacts
<1>4. Woken(Consumers)' = Woken(Consumers) + 1
  BY <1>3 DEF One
<1>. QED
  BY <1>1, <1>3, <1>4 DEF ConsumersServed, ConsumersStranded

LEMMA ProducerNotified ==
  ASSUME TypeOK, TypeOK', NEW t \in condProducer_, pc'[t] = "woken",
         \A u \in Producers \ {t} : pc'[u] = pc[u],
         Len(deq_') + 1 >= Len(deq_), closing' = closing
  PROVE  ProducersServed
<1>1. /\ Len(deq_) \in Nat /\ Len(deq_') \in Nat /\ Capacity \in Nat
      /\ Len(deq_) <= Capacity /\ Len(deq_') <= Capacity
  BY ThreadFacts DEF TypeOK
<1>2. t \in Producers /\ pc[t] = "wait"
  BY DEF condProducer_
<1>3. /\ Woken(Producers) \in Nat /\ Woken(Producers)' \in Nat
      /\ Woken(Producers)' + One("wait") = Woken(Producers) + One("woken")
  BY <1>2, OneMoves, ThreadFacts
<1>4. Woken(Producers)' = Woken(Producers) + 1
  BY <1>3 DEF One
<1>. QED
  BY <1>1, <1>2, <1>3, <1>4 DEF ProducersServed, ProducersStranded

(* A thread that leaves with an item, or with a place filled, takes at     *)
(* most its own notification along.                                        *)
LEMMA ConsumerLeaves ==
  ASSUME TypeOK, TypeOK', NEW c \in Consumers, pc[c] \in {"enter", "woken"}, pc'[c] = "out",
         \A u \in Consumers \ {c} : pc'[u] = pc[u],
         Len(deq_') + 1 = Len(deq_), isClose_' = isClose_
  PROVE  ConsumersServed
<1>1. Len(deq_) \in Nat /\ Len(deq_') \in Nat
  BY DEF TypeOK
<1>2. /\ Woken(Consumers) \in Nat /\ Woken(Consumers)' \in Nat
      /\ Woken(Consumers)' + One(pc[c]) = Woken(Consumers) + One("out")
  BY OneMoves, ThreadFacts
<1>3. Woken(Consumers)' + 1 >= Woken(Consumers)
  BY <1>2 DEF One
<1>4. condConsumer_' = condConsumer_
  BY DEF condConsumer_
<1>. QED
  BY <1>1, <1>2, <1>3, <1>4 DEF ConsumersServed, ConsumersStranded

LEMMA ProducerLeaves ==
  ASSUME TypeOK, TypeOK', NEW p \in Producers, pc[p] \in {"enter", "woken"}, pc'[p] = "out",
         \A u \in Producers \ {p} : pc'[u] = pc[u],
         Len(deq_') = Len(deq_) + 1, closing' = closing
  PROVE  ProducersServed
<1>1. /\ Len(deq_) \in Nat /\ Len(deq_') \in Nat /\ Capacity \in Nat
      /\ Len(deq_) <= Capacity /\ Len(deq_') <= Capacity
  BY ThreadFacts DEF TypeOK
<1>2. /\ Woken(Producers) \in Nat /\ Woken(Producers)' \in Nat
      /\ Woken(Producers)' + One(pc[p]) = Woken(Producers) + One("out")
  BY OneMoves, ThreadFacts
<1>3. Woken(Producers)' + 1 >= Woken(Producers)
  BY <1>2 DEF One
<1>4. condProducer_' = condProducer_
  BY DEF condProducer_
<1>. QED
  BY <1>1, <1>2, <1>3, <1>4 DEF ProducersServed, ProducersStranded
-----------------------------------------------------------------------------
LEMMA PushServes ==
  ASSUME TypeOK, TypeOK', NEW p \in Producers, Push(p)
  PROVE  ConsumersServed /\ ProducersServed
<1> USE ThreadFacts
<1>1. /\ deq_ \in Seq(Producers) /\ Len(deq_) \in Nat /\ Len(deq_) <= Capacity
      /\ pc \in [Threads -> {"out", "enter", "wait", "woken"}]
      /\ pc[p] \in {"enter", "woken"}
  BY DEF Push, Awake, TypeOK
<1>2. CASE Full
  <2>1. pc' = [pc EXCEPT ![p] = "wait"] /\ UNCHANGED <<deq_, isClose_, closing>>
    BY <1>2 DEF Push, Waits
  <2>2. \A u \in Consumers : pc'[u] = pc[u]
    BY <1>1, <2>1
  <2>3. ConsumersServed
    <3>1. SameWaits(Consumers) /\ Len(deq_') <= Len(deq_)
      BY <1>1, <2>1, <2>2 DEF SameWaits
    <3>. QED
      BY <2>1, <3>1, ConsumersUndisturbed
  <2>4. ProducersServed
    <3>1. Len(deq_') = Capacity
      BY <1>1, <1>2, <2>1 DEF Full
    <3>2. Woken(Producers)' \in Nat
      BY WokenCounts
    <3>. QED
      BY <3>1, <3>2 DEF ProducersServed, ProducersStranded
  <2>. QED
    BY <2>3, <2>4
<1>3. CASE ~ Full
  <2>1. /\ deq_' = Append(deq_, p) \/ deq_' = <<p>> \o deq_
        /\ NotifyOne(condConsumer_, Leave(p))
        /\ UNCHANGED <<isClose_, closing>>
    BY <1>3 DEF Push
  <2>2. Len(deq_') = Len(deq_) + 1
    <3>1. CASE deq_' = Append(deq_, p)
      BY <1>1, <3>1
    <3>2. CASE deq_' = <<p>> \o deq_
      <4>1. <<p>> \in Seq(Producers) /\ Len(<<p>>) = 1
        OBVIOUS
      <4>. QED
        BY <1>1, <3>2, <4>1
    <3>. QED
      BY <2>1, <3>1, <3>2
  <2>3. /\ Leave(p)[p] = "out"
        /\ \A u \in Threads \ {p} : Leave(p)[u] = pc[u]
        /\ Leave(p) \in [Threads -> {"out", "enter", "wait", "woken"}]
    BY <1>1 DEF Leave
  <2>4. CASE condConsumer_ = {} /\ pc' = Leave(p)
    <3>1. condConsumer_' = {}
      BY <2>3, <2>4 DEF condConsumer_
    <3>2. ConsumersServed
      BY <3>1 DEF ConsumersServed, ConsumersStranded
    <3>3. ProducersServed
      BY <1>1, <2>1, <2>2, <2>3, <2>4, ProducerLeaves
    <3>. QED
      BY <3>2, <3>3
  <2>5. ASSUME NEW t \in condConsumer_, pc' = [Leave(p) EXCEPT ![t] = "woken"]
        PROVE  ConsumersServed /\ ProducersServed
    <3>1. t \in Consumers /\ t # p /\ t \notin Producers
      BY DEF condConsumer_
    <3>2. /\ pc'[t] = "woken" /\ pc'[p] = "out"
          /\ \A u \in Threads \ {p, t} : pc'[u] = pc[u]
      BY <2>3, <2>5, <3>1
    <3>3. /\ \A u \in Consumers \ {t} : pc'[u] = pc[u]
          /\ \A u \in Producers \ {p} : pc'[u] = pc[u]
      BY <3>1, <3>2
    <3>4. ConsumersServed
      BY <1>1, <2>1, <2>2, <3>2, <3>3, ConsumerNotified
    <3>5. ProducersServed
      BY <1>1, <2>1, <2>2, <3>2, <3>3, ProducerLeaves
    <3>. QED
      BY <3>4, <3>5
  <2>. QED
    BY <2>1, <2>4, <2>5, NotifyCases
<1>. QED
  BY <1>2, <1>3

LEMMA PopServes ==
  ASSUME TypeOK, TypeOK', NEW c \in Consumers, Pop(c)
  PROVE  ConsumersServed /\ ProducersServed
<1> USE ThreadFacts
<1>1. /\ deq_ \in Seq(Producers) /\ Len(deq_) \in Nat /\ Len(deq_) <= Capacity
      /\ pc \in [Threads -> {"out", "enter", "wait", "woken"}]
      /\ pc[c] \in {"enter", "woken"} /\ c \notin Producers
  BY DEF Pop, Awake, TypeOK
<1>2. CASE (pc[c] = "woken" /\ isClose_) \/ deq_ = <<>>
  <2>1. PICK s : pc' = [pc EXCEPT ![c] = s]
    BY <1>2 DEF Pop, Waits, Leave
  <2>2. UNCHANGED <<deq_, isClose_, closing>>
    BY <1>2 DEF Pop, Waits
  <2>3. ConsumersServed
    <3>1. Woken(Consumers)' \in Nat
      BY WokenCounts
    <3>2. isClose_' \/ Len(deq_') = 0
      BY <1>2, <2>2
    <3>. QED
      BY <3>1, <3>2 DEF ConsumersServed, ConsumersStranded
  <2>4. ProducersServed
    <3>1. SameWaits(Producers)
      BY <1>1, <2>1 DEF SameWaits
    <3>2. Len(deq_') >= Len(deq_)
      BY <1>1, <2>2
    <3>. QED
      BY <2>2, <3>1, <3>2, ProducersUndisturbed
  <2>. QED
    BY <2>3, <2>4
<1>3. CASE ~ ((pc[c] = "woken" /\ isClose_) \/ deq_ = <<>>)
  <2>1. /\ deq_' = Tail(deq_)
        /\ NotifyOne(condProducer_, Leave(c))
        /\ UNCHANGED <<isClose_, closing>>
    BY <1>3 DEF Pop
  <2>2. Len(deq_') + 1 = Len(deq_)
    BY <1>1, <1>3, <2>1
  <2>3. /\ Leave(c)[c] = "out"
        /\ \A u \in Threads \ {c} : Leave(c)[u] = pc[u]
        /\ Leave(c) \in [Threads -> {"out", "enter", "wait", "woken"}]
    BY <1>1 DEF Leave
  <2>4. CASE condProducer_ = {} /\ pc' = Leave(c)
    <3>1. condProducer_' = {}
      BY <1>1, <2>3, <2>4 DEF condProducer_
    <3>2. ProducersServed
      BY <3>1 DEF ProducersServed, ProducersStranded
    <3>3. ConsumersServed
      BY <1>1, <2>1, <2>2, <2>3, <2>4, ConsumerLeaves
    <3>. QED
      BY <3>2, <3>3
  <2>5. ASSUME NEW t \in condProducer_, pc' = [Leave(c) EXCEPT ![t] = "woken"]
        PROVE  ConsumersServed /\ ProducersServed
    <3>1. t \in Producers /\ t # c /\ t \notin Consumers
      BY DEF condProducer_
    <3>2. /\ pc'[t] = "woken" /\ pc'[c] = "out"
          /\ \A u \in Threads \ {c, t} : pc'[u] = pc[u]
      BY <2>3, <2>5, <3>1
    <3>3. /\ \A u \in Producers \ {t} : pc'[u] = pc[u]
          /\ \A u \in Consumers \ {c} : pc'[u] = pc[u]
      BY <1>1, <3>1, <3>2
    <3>4. ProducersServed
      BY <1>1, <2>1, <2>2, <3>2, <3>3, ProducerNotified
    <3>5. ConsumersServed
      BY <1>1, <2>1, <2>2, <3>2, <3>3, ConsumerLeaves
    <3>. QED
      BY <3>4, <3>5
  <2>. QED
    BY <2>1, <2>4, <2>5, NotifyCases
<1>. QED
  BY <1>2, <1>3

(* A notification that goes with no item: flush, or a wait that ends by    *)
(* itself.                                                                 *)
LEMMA WakingServes ==
  ASSUME TypeOK, TypeOK', NEW t \in Threads, pc[t] = "wait",
         pc' = [pc EXCEPT ![t] = "woken"], UNCHANGED <<deq_, isClose_, closing>>
  PROVE  ConsumersServed /\ ProducersServed
<1> USE ThreadFacts
<1>1. /\ Len(deq_) \in Nat /\ pc'[t] = "woken"
      /\ \A u \in Threads \ {t} : pc'[u] = pc[u]
  BY DEF TypeOK
<1>2. CASE t \in Consumers
  <2>1. t \notin Producers /\ t \in condConsumer_
    BY <1>2 DEF condConsumer_
  <2>2. SameWaits(Producers)
    BY <1>1, <2>1 DEF SameWaits
  <2>3. ProducersServed
    BY <1>1, <2>2, ProducersUndisturbed
  <2>4. ConsumersServed
    BY <1>1, <2>1, ConsumerNotified
  <2>. QED
    BY <2>3, <2>4
<1>3. CASE t \in Producers
  <2>1. t \notin Consumers /\ t \in condProducer_
    BY <1>3 DEF condProducer_
  <2>2. SameWaits(Consumers)
    BY <1>1, <2>1 DEF SameWaits
  <2>3. ConsumersServed
    BY <1>1, <2>2, ConsumersUndisturbed
  <2>4. ProducersServed
    BY <1>1, <2>1, ProducerNotified
  <2>. QED
    BY <2>3, <2>4
<1>. QED
  BY <1>2, <1>3 DEF Threads

LEMMA QuietStepServes ==
  ASSUME TypeOK, TypeOK', SameWaits(Consumers), SameWaits(Producers),
         UNCHANGED <<deq_, isClose_, closing>>
  PROVE  ConsumersServed /\ ProducersServed
<1>1. Len(deq_') = Len(deq_) /\ Len(deq_) \in Nat
  BY DEF TypeOK
<1>. QED
  BY <1>1, ConsumersUndisturbed, ProducersUndisturbed

LEMMA StepServes ==
  ASSUME TypeOK, TypeOK', [Next]_vars
  PROVE  /\ ConsumersServed \/ \E c \in Consumers : TimeOut(c)
         /\ ProducersServed \/ clear
<1> USE ThreadFacts
<1>1. CASE UNCHANGED vars
  BY <1>1, QuietStepServes DEF vars, SameWaits
<1>2. ASSUME NEW t \in Threads, Call(t) PROVE ConsumersServed /\ ProducersServed
  <2>1. pc[t] = "out" /\ pc' = [pc EXCEPT ![t] = "enter"] /\ UNCHANGED <<deq_, isClose_, closing>>
    BY <1>2 DEF Call
  <2>2. SameWaits(Consumers) /\ SameWaits(Producers)
    BY <2>1 DEF SameWaits, TypeOK
  <2>. QED
    BY <2>1, <2>2, QuietStepServes
<1>3. ASSUME NEW t \in Threads, SpuriousWakeUp(t) PROVE ConsumersServed /\ ProducersServed
  BY <1>3, WakingServes DEF SpuriousWakeUp
<1>4. ASSUME NEW c \in Consumers, TimeOut(c) PROVE ProducersServed
  <2>1. pc' = [pc EXCEPT ![c] = "out"] /\ UNCHANGED <<deq_, isClose_, closing>> /\ c \notin Producers
    BY <1>4 DEF TimeOut, Leave
  <2>2. SameWaits(Producers)
    BY <2>1 DEF SameWaits, TypeOK
  <2>3. Len(deq_') = Len(deq_) /\ Len(deq_) \in Nat
    BY <2>1 DEF TypeOK
  <2>. QED
    BY <2>1, <2>2, <2>3, ProducersUndisturbed
<1>5. CASE flush
  <2>1. NotifyOne(condConsumer_, pc) /\ UNCHANGED <<deq_, isClose_, closing>>
    BY <1>5 DEF flush
  <2>2. CASE pc' = pc
    BY <2>1, <2>2, QuietStepServes DEF SameWaits
  <2>3. ASSUME NEW t \in condConsumer_, pc' = [pc EXCEPT ![t] = "woken"]
        PROVE  ConsumersServed /\ ProducersServed
    BY <2>1, <2>3, WakingServes DEF condConsumer_
  <2>. QED
    BY <2>1, <2>2, <2>3, NotifyCases
<1>6. ASSUME deq_' = <<>> PROVE ConsumersServed
  <2>1. Woken(Consumers)' \in Nat /\ Len(deq_') = 0
    BY <1>6, WokenCounts
  <2>. QED
    BY <2>1 DEF ConsumersServed, ConsumersStranded
<1>7. CASE clear
  BY <1>6, <1>7 DEF clear
<1>8. CASE close
  BY <1>8 DEF close, ConsumersServed, ConsumersStranded, ProducersServed, ProducersStranded
<1>9. CASE NotifyAll
  <2>1. \A t \in Threads : pc'[t] # "wait"
    BY <1>9 DEF NotifyAll
  <2>2. condConsumer_' = {} /\ condProducer_' = {}
    BY <2>1 DEF condConsumer_, condProducer_
  <2>. QED
    BY <2>2 DEF ConsumersServed, ConsumersStranded, ProducersServed, ProducersStranded
<1>. QED
  BY <1>1, <1>2, <1>3, <1>4, <1>5, <1>7, <1>8, <1>9, PushServes, PopServes DEF Next

-----------------------------------------------------------------------------
(* The deque never holds more than its capacity, whichever producers wake  *)
(* up at once (blockqueue.h:99), and the types.                            *)
THEOREM NeverOverflows == Spec => []TypeOK
BY TypesHold

(* One notification per item and per place is enough, for any number of    *)
(* threads: only a timed pop and clear strand anybody (blockqueue.h:68-71, *)
(* 108, 144 and 152-155).                                                  *)
THEOREM EnoughIsNotified == Spec => NotifiesEnough
<1>1. TypeOK /\ TypeOK' /\ [Next]_vars
        => [/\ ConsumersStranded' => ConsumersStranded \/ \E c \in Consumers : TimeOut(c)
            /\ ProducersStranded' => ProducersStranded \/ clear]_vars
  BY StepServes DEF ConsumersServed, ProducersServed
<1>. QED
  BY <1>1, TypesHold, PTL DEF Spec, NotifiesEnough
=============================================================================
