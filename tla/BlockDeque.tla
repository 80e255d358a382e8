----------------------------- MODULE BlockDeque -----------------------------
(***************************************************************************)
(* The blocking deque of blockqueue.h, used by any number of threads.  A   *)
(* producer waits on condProducer_ while the deque is full, a consumer on  *)
(* condConsumer_ while it is empty.  The threads that wait are those with  *)
(* pc = "wait"; whether on the one condition or the other follows from     *)
(* what they have called.                                                  *)
(*                                                                         *)
(* A step is what is done under mtx_ without a break: wait gives the mutex *)
(* back in the step in which it begins, and a thread that has been woken   *)
(* needs it again before it can go on.  Nothing holds mtx_ between steps.  *)
(* A wait may end without a notification.  Which producer an item is from  *)
(* is all that is known of it.                                             *)
(***************************************************************************)
EXTENDS Naturals, Sequences, FiniteSets

CONSTANTS Producers, Consumers, Capacity

ASSUME BlockDequeAssumption ==
  /\ Producers \cap Consumers = {}
  /\ IsFiniteSet(Consumers) /\ IsFiniteSet(Producers)
  /\ Capacity \in Nat \ {0}

Threads == Producers \cup Consumers
Pushes == {"push_back", "push_front"}
Pops == {"pop", "pop timeout"}

VARIABLES
  deq_,
  isClose_,
  closing,  (* close() has given mtx_ back and not notified yet             *)
  call,     (* what each thread has called last                             *)
  pc        (* out of the deque, about to lock, waiting, or woken from it   *)

vars == <<deq_, isClose_, closing, call, pc>>

Init ==
  /\ deq_ = <<>>
  /\ isClose_ = FALSE
  /\ closing = FALSE
  /\ call = [t \in Threads |-> IF t \in Producers THEN "push_back" ELSE "pop"]
  /\ pc = [t \in Threads |-> "out"]

(* The queue of a condition variable. *)
condProducer_ == {p \in Producers : pc[p] = "wait"}
condConsumer_ == {c \in Consumers : pc[c] = "wait"}

(* notify_one, after which pc would be p otherwise: any one that waits.    *)
NotifyOne(cond, p) ==
  pc' \in IF cond = {} THEN {p} ELSE {[p EXCEPT ![t] = "woken"] : t \in cond}

Awake(t) == pc[t] \in {"enter", "woken"}
Waits(t) == pc' = [pc EXCEPT ![t] = "wait"] /\ UNCHANGED <<deq_, isClose_, closing, call>>
Leave(t) == [pc EXCEPT ![t] = "out"]

-----------------------------------------------------------------------------
Call(t) ==
  /\ pc[t] = "out"
  /\ call' \in {[call EXCEPT ![t] = op] : op \in IF t \in Producers THEN Pushes ELSE Pops}
  /\ pc' = [pc EXCEPT ![t] = "enter"]
  /\ UNCHANGED <<deq_, isClose_, closing>>

Full == Len(deq_) >= Capacity

(* Mistake: if instead of while around the wait.                           *)
Push_If(p) ==
  /\ Awake(p)
  /\ IF Full /\ pc[p] = "enter"
     THEN Waits(p)
     ELSE /\ deq_' = IF call[p] = "push_back" THEN Append(deq_, p) ELSE <<p>> \o deq_
          /\ NotifyOne(condConsumer_, Leave(p))
          /\ UNCHANGED <<isClose_, closing, call>>

(* Mistake: a consumer is told only of the first item.                     *)
Push_NotifyIfEmpty(p) ==
  /\ Awake(p)
  /\ IF Full
     THEN Waits(p)
     ELSE /\ deq_' = IF call[p] = "push_back" THEN Append(deq_, p) ELSE <<p>> \o deq_
          /\ NotifyOne(IF deq_ = <<>> THEN condConsumer_ ELSE {}, Leave(p))
          /\ UNCHANGED <<isClose_, closing, call>>

(* push_back and push_front: they do not look at isClose_.                 *)
Push(p) ==
  /\ Awake(p)
  /\ IF Full
     THEN Waits(p)
     ELSE /\ deq_' = IF call[p] = "push_back" THEN Append(deq_, p) ELSE <<p>> \o deq_
          /\ NotifyOne(condConsumer_, Leave(p))
          /\ UNCHANGED <<isClose_, closing, call>>

(* Both pops.  isClose_ is tested after a wait only: a pop that finds an   *)
(* empty deque waits, closed or not.                                       *)
Pop(c) ==
  /\ Awake(c)
  /\ IF pc[c] = "woken" /\ isClose_
     THEN pc' = Leave(c) /\ UNCHANGED <<deq_, isClose_, closing, call>>
     ELSE IF deq_ = <<>>
     THEN Waits(c)
     ELSE /\ deq_' = Tail(deq_)
          /\ NotifyOne(condProducer_, Leave(c))
          /\ UNCHANGED <<isClose_, closing, call>>

(* wait_for returns timeout once its time is over, notified or not, and    *)
(* pop returns without another look at the deque.                          *)
TimeOut(c) ==
  /\ call[c] = "pop timeout"
  /\ pc[c] \in {"wait", "woken"}
  /\ pc' = Leave(c)
  /\ UNCHANGED <<deq_, isClose_, closing, call>>

SpuriousWakeUp(t) ==
  /\ pc[t] = "wait"
  /\ pc' = [pc EXCEPT ![t] = "woken"]
  /\ UNCHANGED <<deq_, isClose_, closing, call>>

-----------------------------------------------------------------------------
(* What any thread may call, and never waits in.                           *)

flush ==
  /\ NotifyOne(condConsumer_, pc)
  /\ UNCHANGED <<deq_, isClose_, closing, call>>

(* No producer is told that there is room now.                             *)
clear ==
  /\ deq_' = <<>>
  /\ UNCHANGED <<isClose_, closing, call, pc>>

close ==
  /\ ~ closing
  /\ deq_' = <<>>
  /\ isClose_' = TRUE
  /\ closing' = TRUE
  /\ UNCHANGED <<call, pc>>

(* Mistake: notify_one, on condConsumer_ alone.                            *)
NotifyAll_One ==
  /\ closing
  /\ closing' = FALSE
  /\ NotifyOne(condConsumer_, pc)
  /\ UNCHANGED <<deq_, isClose_, call>>

(* close() after the critical section. *)
NotifyAll ==
  /\ closing
  /\ closing' = FALSE
  /\ pc' = [t \in Threads |-> IF pc[t] = "wait" THEN "woken" ELSE pc[t]]
  /\ UNCHANGED <<deq_, isClose_, call>>

-----------------------------------------------------------------------------
Next ==
  \/ \E t \in Threads : Call(t) \/ SpuriousWakeUp(t)
  \/ \E p \in Producers : Push(p)
  \/ \E c \in Consumers : Pop(c) \/ TimeOut(c)
  \/ flush \/ clear \/ close \/ NotifyAll

Spec == Init /\ [][Next]_vars

(* Every thread that can run does.  Nobody need call anything, no wait     *)
(* ends by itself, and mtx_ is free after every step.                      *)
FairSpec ==
  /\ Spec
  /\ \A p \in Producers : WF_vars(Push(p))
  /\ \A c \in Consumers : WF_vars(Pop(c)) /\ WF_vars(TimeOut(c))
  /\ WF_vars(NotifyAll)

-----------------------------------------------------------------------------
(* The types; the deque never holds more than its capacity, whichever      *)
(* producers wake up at once (blockqueue.h:99).                            *)
TypeOK ==
  /\ deq_ \in Seq(Producers) /\ Len(deq_) <= Capacity
  /\ isClose_ \in BOOLEAN
  /\ closing \in BOOLEAN
  /\ closing => isClose_
  /\ call \in [Threads -> Pushes \cup Pops]
  /\ \A t \in Threads : call[t] \in Pushes <=> t \in Producers
  /\ pc \in [Threads -> {"out", "enter", "wait", "woken"}]

(* Threads are stranded when what they wait for is there, in a larger      *)
(* number than threads have been woken to take it.                         *)
Woken(S) == Cardinality({t \in S : pc[t] = "woken"})

ConsumersStranded ==
  ~ isClose_ /\ condConsumer_ # {} /\ Len(deq_) > Woken(Consumers)
ProducersStranded ==
  ~ closing /\ condProducer_ # {} /\ Capacity - Len(deq_) > Woken(Producers)

(* One notify_one per item, and per place that gets free, is enough,       *)
(* however threads that were not waiting get in between.  Only a timed pop *)
(* leaves an item with a waiting consumer, for if it has been notified and *)
(* times out it takes the notification along; and only clear leaves        *)
(* waiting producers before a deque with room (blockqueue.h:68-71, 108 and *)
(* 144, 152-155).                                                          *)
NotifiesEnough ==
  [][/\ ConsumersStranded' => ConsumersStranded \/ \E c \in Consumers : TimeOut(c)
     /\ ProducersStranded' => ProducersStranded \/ clear]_vars

(* close ends the waits it finds: each pop returns, with false, and no     *)
(* timeout is needed (blockqueue.h:58-59 and 138-140).                     *)
CloseEndsPops ==
  \A c \in Consumers :
    closing /\ pc[c] = "wait" ~> pc[c] = "out"
=============================================================================
