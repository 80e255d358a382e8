-------------------------- MODULE EventLoopProofs --------------------------
(***************************************************************************)
(* Theorems about EventLoop for any set of loops, functors and channels,   *)
(* any initial size of the epoll_event array and any length of the queues; *)
(* and about ThreadStart for any number of workers: what the start hands   *)
(* out can be used, and its loops behave as EventLoop says, so what is     *)
(* shown of them holds from the first thread on.                           *)
(***************************************************************************)
EXTENDS ThreadStart, SequenceTheorems, TLAPS

(* What one loop may do in a step, its disjuncts spelt out: the case       *)
(* distinction of every invariance proof below.                            *)
StepOf(l) ==
  \/ \E S \in SUBSET (Channels \cup {WakeupChannel}) : Poll(l, S)
  \/ HandleRead(l)
  \/ \E c \in Channels : HandleEvent(l, c)
  \/ EndHandler(l)
  \/ SwapToDoList(l)
  \/ RunFunctor(l)
  \/ EndFunctor(l)
  \/ EndToDoList(l)
  \/ \E m \in Loops, f \in Funcs : QueueOneFunc(l, m, f)
  \/ UNCHANGED vars
  \/ WakeUp(l)

LEMMA NextCases == ASSUME Next PROVE \E l \in Loops : StepOf(l)
BY DEF StepOf, Next, PollAny, DoToDoList, UserCode, RunOneFunc

(* The types and index ranges of TypeOK hold in every reachable state: no  *)
(* iteration over functors runs past the vector, whatever user code queues *)
(* meanwhile (DoToDoList, eventloop.cc:91-103).                            *)
THEOREM TypeCorrect == Spec => []TypeOK
<1>1. Init => TypeOK
  BY LoopsAssumption DEF Init, TypeOK, Control
<1>2. TypeOK /\ [Next]_vars => TypeOK'
  <2> SUFFICES ASSUME TypeOK, [Next]_vars PROVE TypeOK'
    OBVIOUS
  <2>1. CASE UNCHANGED vars
    BY <2>1 DEF vars, TypeOK
  <2>2. CASE Next
    <3>1. PICK l \in Loops : StepOf(l)
      BY <2>2, NextCases
    <3>2. ASSUME NEW S \in SUBSET (Channels \cup {WakeupChannel}), Poll(l, S)
          PROVE TypeOK'
      BY <3>2 DEF TypeOK, Poll, Control
    <3>3. CASE HandleRead(l)
      BY <3>3 DEF TypeOK, HandleRead, Control
    <3>4. ASSUME NEW c \in Channels, HandleEvent(l, c) PROVE TypeOK'
      BY <3>4, LoopsAssumption DEF TypeOK, HandleEvent, Control
    <3>5. CASE EndHandler(l)
      BY <3>5 DEF TypeOK, EndHandler, Control
    <3>6. CASE SwapToDoList(l)
      BY <3>6 DEF TypeOK, SwapToDoList, Control
    <3>7. CASE RunFunctor(l)
      BY <3>7 DEF TypeOK, RunFunctor, Control
    <3>8. CASE EndFunctor(l)
      BY <3>8 DEF TypeOK, EndFunctor, Control
    <3>9. CASE EndToDoList(l)
      BY <3>9 DEF TypeOK, EndToDoList, Control
    <3>10. ASSUME NEW m \in Loops, NEW f \in Funcs, QueueOneFunc(l, m, f)
           PROVE TypeOK'
      BY <3>10 DEF TypeOK, QueueOneFunc, Control
    <3>11. CASE WakeUp(l)
      BY <3>11 DEF TypeOK, WakeUp, Control
    <3>. QED
      BY <2>1, <3>1, <3>2, <3>3, <3>4, <3>5, <3>6, <3>7, <3>8, <3>9, <3>10, <3>11
         DEF StepOf
  <2>. QED
    BY <2>1, <2>2
<1>. QED
  BY <1>1, <1>2, PTL DEF Spec

-----------------------------------------------------------------------------
(* NoLostWakeup is not inductive: WakeUp skips the write to the eventfd    *)
(* when calling_functors_ is FALSE, so the flag has to be known to be TRUE *)
(* while functors run, and a push has to be known to come from user code.  *)
CallingWhileRunning ==
  \A l \in Loops : calling_functors_[l] <=> pc[l] \in {"run", "functor"}

PushFromUserCode ==
  \A t \in Loops : waking[t] # NoOne => pc[t] \in {"handler", "functor"}

WakeupInv == TypeOK /\ CallingWhileRunning /\ PushFromUserCode /\ NoLostWakeup

LEMMA WakeupInvInit == ASSUME Init PROVE WakeupInv
<1>1. TypeOK
  BY LoopsAssumption DEF Init, TypeOK, Control
<1>. QED
  BY <1>1 DEF Init, WakeupInv, CallingWhileRunning, PushFromUserCode,
              NoLostWakeup, WakeUpPending

LEMMA FlagsStep ==
  ASSUME TypeOK, CallingWhileRunning, PushFromUserCode, [Next]_vars
  PROVE CallingWhileRunning' /\ PushFromUserCode'
<1>1. CASE UNCHANGED vars
  BY <1>1 DEF vars, CallingWhileRunning, PushFromUserCode
<1>2. CASE Next
  <2>1. PICK l \in Loops : StepOf(l)
    BY <1>2, NextCases
  <2> USE DEF TypeOK, CallingWhileRunning, PushFromUserCode
  <2>2. ASSUME NEW S \in SUBSET (Channels \cup {WakeupChannel}), Poll(l, S)
        PROVE CallingWhileRunning' /\ PushFromUserCode'
    BY <2>2 DEF Poll
  <2>3. CASE HandleRead(l)
    BY <2>3 DEF HandleRead
  <2>4. ASSUME NEW c \in Channels, HandleEvent(l, c)
        PROVE CallingWhileRunning' /\ PushFromUserCode'
    BY <2>4 DEF HandleEvent
  <2>5. CASE EndHandler(l)
    BY <2>5 DEF EndHandler
  <2>6. CASE SwapToDoList(l)
    BY <2>6 DEF SwapToDoList
  <2>7. CASE RunFunctor(l)
    BY <2>7 DEF RunFunctor
  <2>8. CASE EndFunctor(l)
    BY <2>8 DEF EndFunctor
  <2>9. CASE EndToDoList(l)
    BY <2>9 DEF EndToDoList
  <2>10. ASSUME NEW m \in Loops, NEW f \in Funcs, QueueOneFunc(l, m, f)
         PROVE CallingWhileRunning' /\ PushFromUserCode'
    BY <2>10 DEF QueueOneFunc, InUserCode
  <2>11. CASE WakeUp(l)
    BY <2>11 DEF WakeUp
  <2>. QED
    BY <1>1, <2>1, <2>2, <2>3, <2>4, <2>5, <2>6, <2>7, <2>8, <2>9, <2>10, <2>11
       DEF StepOf
<1>. QED
  BY <1>1, <1>2

LEMMA NoLostWakeupStep ==
  ASSUME WakeupInv, [Next]_vars PROVE NoLostWakeup'
<1> USE DEF NoLostWakeup, WakeUpPending
<1>1. CASE UNCHANGED vars
  BY <1>1 DEF vars, WakeupInv
<1>2. CASE Next
  <2>1. PICK l \in Loops : StepOf(l)
    BY <1>2, NextCases
  <2> USE DEF WakeupInv, TypeOK
  <2>2. ASSUME NEW S \in SUBSET (Channels \cup {WakeupChannel}), Poll(l, S)
        PROVE NoLostWakeup'
    BY <2>2 DEF Poll
  <2>3. CASE HandleRead(l)
    BY <2>3 DEF HandleRead
  <2>4. ASSUME NEW c \in Channels, HandleEvent(l, c) PROVE NoLostWakeup'
    BY <2>4 DEF HandleEvent
  <2>5. CASE EndHandler(l)
    BY <2>5 DEF EndHandler
  <2>6. CASE SwapToDoList(l)
    BY <2>6 DEF SwapToDoList
  <2>7. CASE RunFunctor(l)
    BY <2>7 DEF RunFunctor
  <2>8. CASE EndFunctor(l)
    BY <2>8 DEF EndFunctor
  <2>9. CASE EndToDoList(l)
    BY <2>9 DEF EndToDoList
  <2>10. ASSUME NEW m \in Loops, NEW f \in Funcs, QueueOneFunc(l, m, f)
         PROVE NoLostWakeup'
    BY <2>10, LoopsAssumption, SMTT(20) DEF QueueOneFunc, InUserCode
  <2>11. CASE WakeUp(l)
    (* The only case in which the eventfd is not written: the loop queues   *)
    (* on itself from a handler, and DoToDoList is still to come.           *)
    <3>1. CASE waking[l] # l \/ calling_functors_[l]
      BY <2>11, <3>1, LoopsAssumption DEF WakeUp
    <3>2. CASE waking[l] = l /\ ~ calling_functors_[l]
      <4>1. pc[l] = "handler"
        BY <3>2, LoopsAssumption DEF CallingWhileRunning, PushFromUserCode
      <4>. QED
        BY <2>11, <3>2, <4>1 DEF WakeUp
    <3>. QED
      BY <3>1, <3>2
  <2>. QED
    BY <1>1, <2>1, <2>2, <2>3, <2>4, <2>5, <2>6, <2>7, <2>8, <2>9, <2>10, <2>11
       DEF StepOf
<1>. QED
  BY <1>1, <1>2

LEMMA WakeupInvariance == Spec => []WakeupInv
<1>1. Init => WakeupInv
  BY WakeupInvInit
<1>2. TypeOK /\ WakeupInv /\ [Next]_vars /\ TypeOK' => WakeupInv'
  BY FlagsStep, NoLostWakeupStep DEF WakeupInv
<1>. QED
  BY <1>1, <1>2, TypeCorrect, PTL DEF Spec

(* From the swap in DoToDoList to the end of the next epoll_wait, a loop   *)
(* with queued functors has its wake-up pending: the unlocked test of      *)
(* calling_functors_ in QueueOneFunc (eventloop.cc:74) never skips a write *)
(* that was needed.                                                        *)
THEOREM WakeupNeverLost == Spec => []NoLostWakeup
<1>1. WakeupInv => NoLostWakeup
  BY DEF WakeupInv
<1>. QED
  BY <1>1, WakeupInvariance, PTL

(* A thread blocked in epoll_wait with nothing on its eventfd has no       *)
(* functor to run, or another thread is about to write the eventfd.        *)
THEOREM LoopNeverSleepsOnWork == Spec => []NoSleepOnWork
<1>1. WakeupInv => NoSleepOnWork
  BY LoopsAssumption DEF WakeupInv, NoLostWakeup, WakeUpPending,
                         PushFromUserCode, NoSleepOnWork
<1>. QED
  BY <1>1, WakeupInvariance, PTL

-----------------------------------------------------------------------------
(* EventLoop implements TaskQueue. *)

(* What the refinement mapping of EventLoop!TQ shows of one loop.          *)
NotStarted(l) == SubSeq(functors[l], next_func[l] + 1, Len(functors[l])) \o to_do_list_[l]
Started(l) == IF pc[l] = "functor" THEN <<functors[l][next_func[l]]>> ELSE <<>>

Pending == [l \in Loops |-> NotStarted(l)]
Running == [l \in Loops |-> Started(l)]

(* Outside DoToDoList a loop has no functors of an earlier round.          *)
NothingInHand ==
  \A l \in Loops : pc[l] \notin {"run", "functor"} => functors[l] = <<>> /\ next_func[l] = 0

QueueInv == TypeOK /\ NothingInHand

-----------------------------------------------------------------------------
(* The unstarted part of a vector followed by the list, under what a loop  *)
(* does with the two.                                                      *)
LEMMA RestIsSeq ==
  ASSUME NEW S, NEW fs \in Seq(S), NEW n \in 0 .. Len(fs)
  PROVE  SubSeq(fs, n + 1, Len(fs)) \in Seq(S)
<1>1. Len(fs) \in Nat /\ n + 1 \in Int /\ Len(fs) \in Int
  BY LenProperties
<1>2. \A i \in n + 1 .. Len(fs) : fs[i] \in S
  BY <1>1, ElementOfSeq
<1>. QED
  BY <1>1, <1>2, SubSeqProperties

LEMMA QueueAtEnd ==
  ASSUME NEW S, NEW s \in Seq(S), NEW q \in Seq(S), NEW f \in S
  PROVE  s \o Append(q, f) = Append(s \o q, f)
<1>1. Append(q, f) = q \o <<f>>
  BY AppendIsConcat
<1>2. s \o q \in Seq(S) /\ <<f>> \in Seq(S)
  BY ConcatProperties
<1>3. Append(s \o q, f) = (s \o q) \o <<f>>
  BY <1>2, AppendIsConcat
<1>. QED
  BY <1>1, <1>2, <1>3, ConcatAssociative

LEMMA StartFirst ==
  ASSUME NEW S, NEW fs \in Seq(S), NEW n \in Nat, n < Len(fs), NEW q \in Seq(S)
  PROVE  LET old == SubSeq(fs, n + 1, Len(fs)) \o q
             new == SubSeq(fs, (n + 1) + 1, Len(fs)) \o q
         IN  old # <<>> /\ Head(old) = fs[n + 1] /\ Tail(old) = new
<1> DEFINE rest == SubSeq(fs, (n + 1) + 1, Len(fs))
<1>1. /\ Len(fs) \in Nat /\ n + 1 \in 1 .. Len(fs) /\ n + 1 \in 0 .. Len(fs)
      /\ Len(fs) \in n + 1 .. Len(fs)
  BY LenProperties
<1>2. rest \in Seq(S) /\ <<fs[n + 1]>> \in Seq(S)
  BY <1>1, RestIsSeq, ElementOfSeq
<1>3. SubSeq(fs, n + 1, Len(fs)) = <<fs[n + 1]>> \o rest
  BY <1>1, SubSeqRecursiveFirst
<1>4. SubSeq(fs, n + 1, Len(fs)) \o q = <<fs[n + 1]>> \o (rest \o q)
  <2> DEFINE first == <<fs[n + 1]>>
  <2>0. first \in Seq(S) /\ rest \in Seq(S)
    BY <1>2
  <2> HIDE DEF first, rest
  <2>1. (first \o rest) \o q = first \o (rest \o q)
    BY <2>0, ConcatAssociative, SMTT(20)
  <2>. QED
    BY <1>3, <2>1 DEF first, rest
<1>5. rest \o q \in Seq(S)
  BY <1>2, ConcatProperties
<1> HIDE DEF rest
<1>6. ASSUME NEW x \in S, NEW s \in Seq(S)
      PROVE  <<x>> \o s # <<>> /\ Head(<<x>> \o s) = x /\ Tail(<<x>> \o s) = s
  <2>1. /\ <<x>> \o s \in Seq(S) /\ Len(<<x>> \o s) = 1 + Len(s)
        /\ \A i \in 1 .. 1 + Len(s) : (<<x>> \o s)[i] = IF i <= 1 THEN x ELSE s[i - 1]
    <3>1. <<x>> \in Seq(S) /\ Len(<<x>>) = 1 /\ <<x>>[1] = x
      OBVIOUS
    <3>. QED
      BY <3>1, ConcatProperties
  <2>2. Len(s) \in Nat
    BY LenProperties
  <2>3. <<x>> \o s # <<>>
    BY <2>1, <2>2
  <2>4. Head(<<x>> \o s) = x
    BY <2>1, <2>2, <2>3
  <2>5. /\ Tail(<<x>> \o s) \in Seq(S) /\ Len(Tail(<<x>> \o s)) = Len(s)
        /\ \A i \in 1 .. Len(s) : Tail(<<x>> \o s)[i] = s[i]
    BY <2>1, <2>2, <2>3, HeadTailProperties
  <2>6. Tail(<<x>> \o s) = s
    BY <2>5, SeqEqual
  <2>. QED
    BY <2>3, <2>4, <2>6
<1>7. fs[n + 1] \in S
  BY <1>1, ElementOfSeq
<1>. QED
  BY <1>4, <1>5, <1>6, <1>7 DEF rest

LEMMA NothingLeft ==
  ASSUME NEW S, NEW fs \in Seq(S), NEW q \in Seq(S)
  PROVE  /\ SubSeq(fs, Len(fs) + 1, Len(fs)) \o q = q
         /\ SubSeq(<<>>, 0 + 1, Len(<<>>)) \o q = q
         /\ SubSeq(fs, 0 + 1, Len(fs)) \o <<>> = fs
<1>1. Len(fs) \in Nat /\ Len(<<>>) = 0 /\ <<>> \in Seq(S)
  BY LenProperties, EmptySeq
<1>2. SubSeq(fs, Len(fs) + 1, Len(fs)) = <<>>
  BY <1>1, SubSeqEmpty
<1>3. SubSeq(<<>>, 0 + 1, Len(<<>>)) = <<>>
  BY <1>1, SubSeqEmpty
<1>4. SubSeq(fs, 0 + 1, Len(fs)) = fs
  BY SubSeqFull
<1>. QED
  BY <1>2, <1>3, <1>4, ConcatEmptySeq

-----------------------------------------------------------------------------
LEMMA NothingInHandStep ==
  ASSUME QueueInv, [Next]_vars PROVE NothingInHand'
<1> USE DEF QueueInv, TypeOK, NothingInHand
<1>1. CASE UNCHANGED vars
  BY <1>1 DEF vars
<1>2. CASE Next
  <2>1. PICK l \in Loops : StepOf(l)
    BY <1>2, NextCases
  <2>2. ASSUME NEW S \in SUBSET (Channels \cup {WakeupChannel}), Poll(l, S)
        PROVE NothingInHand'
    BY <2>2 DEF Poll
  <2>3. CASE HandleRead(l)
    BY <2>3 DEF HandleRead
  <2>4. ASSUME NEW c \in Channels, HandleEvent(l, c) PROVE NothingInHand'
    BY <2>4 DEF HandleEvent
  <2>5. CASE EndHandler(l)
    BY <2>5 DEF EndHandler
  <2>6. CASE SwapToDoList(l)
    BY <2>6 DEF SwapToDoList
  <2>7. CASE RunFunctor(l)
    BY <2>7 DEF RunFunctor
  <2>8. CASE EndFunctor(l)
    BY <2>8 DEF EndFunctor
  <2>9. CASE EndToDoList(l)
    BY <2>9 DEF EndToDoList
  <2>10. ASSUME NEW m \in Loops, NEW f \in Funcs, QueueOneFunc(l, m, f)
         PROVE NothingInHand'
    BY <2>10 DEF QueueOneFunc
  <2>11. CASE WakeUp(l)
    BY <2>11 DEF WakeUp
  <2>. QED
    BY <1>1, <2>1, <2>2, <2>3, <2>4, <2>5, <2>6, <2>7, <2>8, <2>9, <2>10, <2>11
       DEF StepOf
<1>. QED
  BY <1>1, <1>2

(* What the queue of TaskQueue sees of a step that it does not see.        *)
LEMMA HiddenStep ==
  ASSUME \A l \in Loops : NotStarted(l)' = NotStarted(l) /\ Started(l)' = Started(l)
  PROVE  Pending' = Pending /\ Running' = Running
BY DEF Pending, Running

LEMMA SameQueues ==
  ASSUME UNCHANGED <<to_do_list_, functors, next_func>>,
         \A l \in Loops : pc'[l] = "functor" <=> pc[l] = "functor"
  PROVE  Pending' = Pending /\ Running' = Running
<1>1. \A l \in Loops : NotStarted(l)' = NotStarted(l) /\ Started(l)' = Started(l)
  BY DEF NotStarted, Started
<1>. QED
  BY <1>1, HiddenStep

(* Every change to a loop's queues leaves the other loops' as they are.    *)
Others(l) ==
  \A k \in Loops \ {l} :
    /\ to_do_list_'[k] = to_do_list_[k] /\ functors'[k] = functors[k]
    /\ next_func'[k] = next_func[k] /\ pc'[k] = pc[k]

LEMMA OneQueue ==
  ASSUME NEW l \in Loops, Others(l)
  PROVE  /\ Pending' = [Pending EXCEPT ![l] = NotStarted(l)']
         /\ Running' = [Running EXCEPT ![l] = Started(l)']
         /\ Pending[l] = NotStarted(l) /\ Running[l] = Started(l)
<1>1. \A k \in Loops \ {l} : NotStarted(k)' = NotStarted(k) /\ Started(k)' = Started(k)
  BY DEF Others, NotStarted, Started
<1>. QED
  BY <1>1 DEF Pending, Running

TQNext ==
  \E l \in Loops :
    \/ /\ Running[l] = <<>> /\ Pending[l] # <<>>
       /\ Running' = [Running EXCEPT ![l] = <<Head(Pending[l])>>]
       /\ Pending' = [Pending EXCEPT ![l] = Tail(@)]
    \/ /\ Running[l] # <<>>
       /\ Running' = [Running EXCEPT ![l] = <<>>]
       /\ Pending' = Pending
    \/ \E f \in Funcs : /\ Pending' = [Pending EXCEPT ![l] = Append(@, f)]
                        /\ Running' = Running

LEMMA QueueStep ==
  ASSUME QueueInv, NEW t \in Loops, NEW l \in Loops, NEW f \in Funcs, QueueOneFunc(t, l, f)
  PROVE  TQNext
<1>1. /\ to_do_list_[l] \in Seq(Funcs) /\ functors[l] \in Seq(Funcs)
      /\ next_func[l] \in Nat /\ next_func[l] <= Len(functors[l])
      /\ to_do_list_ \in [Loops -> Seq(Funcs)]
  BY DEF QueueInv, TypeOK
<1>2. /\ to_do_list_' = [to_do_list_ EXCEPT ![l] = Append(@, f)]
      /\ UNCHANGED <<pc, functors, next_func>>
  BY DEF QueueOneFunc
<1>3. Others(l) /\ to_do_list_'[l] = Append(to_do_list_[l], f)
  BY <1>1, <1>2 DEF Others
<1>4. SubSeq(functors[l], next_func[l] + 1, Len(functors[l])) \in Seq(Funcs)
  BY <1>1, LenProperties, RestIsSeq
<1>5. NotStarted(l)' = Append(NotStarted(l), f)
  <2> DEFINE rest == SubSeq(functors[l], next_func[l] + 1, Len(functors[l]))
             list == to_do_list_[l]
  <2>1. NotStarted(l) = rest \o list
    BY DEF NotStarted
  <2>2. NotStarted(l)' = rest \o Append(list, f)
    BY <1>2, <1>3 DEF NotStarted
  <2>3. rest \in Seq(Funcs) /\ list \in Seq(Funcs)
    BY <1>1, <1>4
  <2> HIDE DEF rest, list
  <2>4. rest \o Append(list, f) = Append(rest \o list, f)
    BY <2>3, QueueAtEnd
  <2>. QED
    BY <2>1, <2>2, <2>4
<1>6. Started(l)' = Started(l)
  BY <1>2 DEF Started
<1>7. Pending' = [Pending EXCEPT ![l] = Append(@, f)] /\ Running' = Running
  BY <1>3, <1>5, <1>6, OneQueue DEF Running
<1>. QED
  BY <1>7 DEF TQNext

LEMMA RunStep ==
  ASSUME QueueInv, NEW l \in Loops, RunFunctor(l) PROVE TQNext
<1>1. /\ to_do_list_[l] \in Seq(Funcs) /\ functors[l] \in Seq(Funcs)
      /\ next_func \in [Loops -> Nat] /\ next_func[l] \in Nat /\ next_func[l] < Len(functors[l])
      /\ pc \in [Loops -> Control]
  BY DEF QueueInv, TypeOK, RunFunctor
<1>2. /\ pc[l] = "run" /\ pc' = [pc EXCEPT ![l] = "functor"]
      /\ next_func' = [next_func EXCEPT ![l] = @ + 1]
      /\ UNCHANGED <<to_do_list_, functors>>
  BY DEF RunFunctor
<1>3. Others(l) /\ next_func'[l] = next_func[l] + 1 /\ pc'[l] = "functor"
  BY <1>1, <1>2 DEF Others
<1>4. /\ NotStarted(l) # <<>>
      /\ Head(NotStarted(l)) = functors[l][next_func[l] + 1]
      /\ Tail(NotStarted(l)) = NotStarted(l)'
  <2> DEFINE fs == functors[l]
             n == next_func[l]
             list == to_do_list_[l]
  <2>1. NotStarted(l) = SubSeq(fs, n + 1, Len(fs)) \o list
    BY DEF NotStarted
  <2>2. NotStarted(l)' = SubSeq(fs, (n + 1) + 1, Len(fs)) \o list
    BY <1>2, <1>3 DEF NotStarted
  <2>3. fs \in Seq(Funcs) /\ n \in Nat /\ n < Len(fs) /\ list \in Seq(Funcs)
    BY <1>1
  <2>4. functors[l][next_func[l] + 1] = fs[n + 1]
    OBVIOUS
  <2> HIDE DEF fs, n, list
  <2>5. LET old == SubSeq(fs, n + 1, Len(fs)) \o list
            new == SubSeq(fs, (n + 1) + 1, Len(fs)) \o list
        IN  old # <<>> /\ Head(old) = fs[n + 1] /\ Tail(old) = new
    BY <2>3, StartFirst
  <2>. QED
    BY <2>1, <2>2, <2>4, <2>5
<1>5. Started(l) = <<>> /\ Started(l)' = <<functors[l][next_func[l] + 1]>>
  BY <1>2, <1>3 DEF Started
<1>6. /\ Running[l] = <<>> /\ Pending[l] # <<>>
      /\ Running' = [Running EXCEPT ![l] = <<Head(Pending[l])>>]
      /\ Pending' = [Pending EXCEPT ![l] = Tail(@)]
  BY <1>3, <1>4, <1>5, OneQueue
<1>. QED
  BY <1>6 DEF TQNext

LEMMA EndStep ==
  ASSUME QueueInv, NEW l \in Loops, EndFunctor(l) PROVE TQNext
<1>1. /\ pc \in [Loops -> Control] /\ pc[l] = "functor" /\ pc' = [pc EXCEPT ![l] = "run"]
      /\ UNCHANGED <<to_do_list_, functors, next_func>>
  BY DEF QueueInv, TypeOK, EndFunctor
<1>2. Others(l) /\ pc'[l] = "run"
  BY <1>1 DEF Others
<1>3. Started(l) # <<>> /\ Started(l)' = <<>>
  BY <1>1, <1>2 DEF Started
<1>4. Pending' = Pending
  BY <1>1 DEF Pending, NotStarted
<1>5. Running[l] # <<>> /\ Running' = [Running EXCEPT ![l] = <<>>]
  BY <1>2, <1>3, OneQueue
<1>. QED
  BY <1>4, <1>5 DEF TQNext

(* The swap and the end of the vector move functors, and change nothing.   *)
LEMMA SwapIsHidden ==
  ASSUME QueueInv, NEW l \in Loops, SwapToDoList(l) \/ EndToDoList(l)
  PROVE  Pending' = Pending /\ Running' = Running
<1>1. /\ to_do_list_ \in [Loops -> Seq(Funcs)] /\ functors \in [Loops -> Seq(Funcs)]
      /\ next_func \in [Loops -> Nat] /\ pc \in [Loops -> Control]
  BY DEF QueueInv, TypeOK
<1>2. Others(l) /\ pc[l] # "functor" /\ pc'[l] # "functor"
  BY <1>1 DEF Others, SwapToDoList, EndToDoList
<1>3. Started(l)' = Started(l)
  BY <1>2 DEF Started
<1>4. NotStarted(l)' = NotStarted(l)
  <2>1. CASE SwapToDoList(l)
    <3>1. /\ functors[l] = <<>> /\ next_func[l] = 0
          /\ functors'[l] = to_do_list_[l] /\ next_func'[l] = 0 /\ to_do_list_'[l] = <<>>
      BY <1>1, <2>1 DEF SwapToDoList, QueueInv, NothingInHand
    <3>2. NotStarted(l) = to_do_list_[l]
      BY <1>1, <3>1, NothingLeft DEF NotStarted
    <3>3. NotStarted(l)' = to_do_list_[l]
      BY <1>1, <3>1, NothingLeft DEF NotStarted
    <3>. QED
      BY <3>2, <3>3
  <2>2. CASE EndToDoList(l)
    <3>1. /\ next_func[l] = Len(functors[l])
          /\ functors'[l] = <<>> /\ next_func'[l] = 0 /\ to_do_list_'[l] = to_do_list_[l]
      BY <1>1, <2>2 DEF EndToDoList
    <3>2. NotStarted(l) = to_do_list_[l]
      BY <1>1, <3>1, NothingLeft DEF NotStarted
    <3>3. NotStarted(l)' = to_do_list_[l]
      BY <1>1, <3>1, NothingLeft DEF NotStarted
    <3>. QED
      BY <3>2, <3>3
  <2>. QED
    BY <2>1, <2>2
<1>5. \A k \in Loops \ {l} : NotStarted(k)' = NotStarted(k) /\ Started(k)' = Started(k)
  BY <1>2 DEF Others, NotStarted, Started
<1>. QED
  BY <1>3, <1>4, <1>5, HiddenStep

LEMMA StepRefines ==
  ASSUME QueueInv, [Next]_vars
  PROVE  TQNext \/ (Pending' = Pending /\ Running' = Running)
<1>1. CASE UNCHANGED vars
  BY <1>1, SameQueues DEF vars
<1>2. CASE Next
  <2>1. PICK l \in Loops : StepOf(l)
    BY <1>2, NextCases
  <2>2. pc \in [Loops -> Control]
    BY DEF QueueInv, TypeOK
  <2>3. ASSUME NEW S \in SUBSET (Channels \cup {WakeupChannel}), Poll(l, S)
        PROVE  Pending' = Pending /\ Running' = Running
    <3>1. \A k \in Loops : pc'[k] = "functor" <=> pc[k] = "functor"
      BY <2>2, <2>3 DEF Poll
    <3>. QED
      BY <2>3, <3>1, SameQueues DEF Poll
  <2>4. ASSUME NEW c \in Channels, HandleEvent(l, c)
        PROVE  Pending' = Pending /\ Running' = Running
    <3>1. \A k \in Loops : pc'[k] = "functor" <=> pc[k] = "functor"
      BY <2>2, <2>4 DEF HandleEvent
    <3>. QED
      BY <2>4, <3>1, SameQueues DEF HandleEvent
  <2>5. CASE HandleRead(l) \/ WakeUp(l)
    BY <2>5, SameQueues DEF HandleRead, WakeUp
  <2>6. CASE EndHandler(l)
    <3>1. \A k \in Loops : pc'[k] = "functor" <=> pc[k] = "functor"
      BY <2>2, <2>6 DEF EndHandler
    <3>. QED
      BY <2>6, <3>1, SameQueues DEF EndHandler
  <2>. QED
    BY <1>1, <2>1, <2>3, <2>4, <2>5, <2>6, QueueStep, RunStep, EndStep, SwapIsHidden
       DEF StepOf
<1>. QED
  BY <1>1, <1>2

-----------------------------------------------------------------------------
(* Each loop is one FIFO queue of functors, run one at a time: the swap    *)
(* hides nothing, loses nothing, runs nothing twice and keeps the order,   *)
(* whoever pushes meanwhile (eventloop.cc:91-103).                         *)
THEOREM LoopIsTaskQueue == Spec => ImplementsTaskQueue
<1>1. Init => QueueInv /\ TQ!Init
  <2> SUFFICES ASSUME Init PROVE QueueInv /\ TQ!Init
    OBVIOUS
  <2>1. TypeOK
    BY LoopsAssumption DEF Init, TypeOK, Control
  <2>2. NothingInHand
    BY DEF Init, NothingInHand
  <2>3. \A l \in Loops : NotStarted(l) = <<>> /\ Started(l) = <<>>
    <3>1. SubSeq(<<>>, 0 + 1, Len(<<>>)) \o <<>> = <<>>
      BY EmptySeq, NothingLeft
    <3>. QED
      BY <3>1 DEF Init, NotStarted, Started
  <2>. QED
    BY <2>1, <2>2, <2>3 DEF QueueInv, TQ!Init, NotStarted, Started
<1>2. TypeOK /\ QueueInv /\ TypeOK' /\ [Next]_vars => QueueInv'
  BY NothingInHandStep DEF QueueInv
<1>3. QueueInv /\ [Next]_vars => [TQ!Next]_(TQ!vars)
  <2> SUFFICES ASSUME QueueInv, [Next]_vars PROVE [TQ!Next]_(TQ!vars)
    OBVIOUS
  <2>1. CASE TQNext
    BY <2>1 DEF TQNext, TQ!Next, TQ!Start, TQ!Return, TQ!Queue,
                Pending, Running, NotStarted, Started
  <2>2. CASE Pending' = Pending /\ Running' = Running
    BY <2>2 DEF TQ!vars, Pending, Running, NotStarted, Started
  <2>. QED
    BY <2>1, <2>2, StepRefines
<1>. QED
  BY <1>1, <1>2, <1>3, TypeCorrect, PTL DEF Spec, ImplementsTaskQueue, TQ!Spec

-----------------------------------------------------------------------------
(* ThreadStart. *)

(* What the loops do, as against what the start does.                      *)
LoopWork(l) == Wait(l) \/ Round(l) \/ Run(l) \/ Return(l) \/ Work(l)

StartWork ==
  \/ StartThread \/ LatchWait \/ StartLoop \/ SpuriousWakeUp \/ Listen
  \/ \E w \in WorkerSet : CountDown(w) \/ Publish(w)
  \/ \E l \in Loops : EnterLoop(l)

LEMMA StartNextCases ==
  ASSUME StartNext PROVE StartWork \/ \E l \in Loops : LoopWork(l)
BY StartAssumption DEF StartNext, Main, Worker, StartWork, LoopWork

LEMMA StartWorkKeepsLoops == ASSUME StartWork PROVE UNCHANGED vars
BY DEF StartWork, StartThread, LatchWait, StartLoop, SpuriousWakeUp, Listen,
       CountDown, Publish, EnterLoop, loopVars

-----------------------------------------------------------------------------
(* The inductive invariant: the types of what the start adds; where the    *)
(* main thread stands and how far the workers are; and that the loops have *)
(* nothing to do until all of them are there.                              *)
Stages ==
  /\ at \in [Loops -> MainStages \cup WorkerStages]
  /\ at[Base] \in MainStages
  /\ \A w \in WorkerSet : at[w] \in WorkerStages

Handshake ==
  /\ count_ \in [WorkerSet -> 0 .. 1]
  /\ loop_ \in [WorkerSet -> WorkerSet \cup {NoOne}]
  /\ \A w \in WorkerSet :
       /\ count_[w] = 1 <=> at[w] \in {"none", "created"}
       /\ loop_[w] = IF at[w] \in {"none", "created", "func"} THEN NoOne ELSE w

ServerTypes ==
  /\ loops_ \in Seq(WorkerSet)
  /\ Len(loops_) <= Len(Workers)
  /\ listening \in BOOLEAN
  /\ serving \in SUBSET WorkerSet

StartingOne == {"latch", "latch wait", "loop", "loop wait"}

MainProgress ==
  /\ at[Base] \in StartingOne => ~ AllStarted
  /\ at[Base] \in {"enter", "in Loop"} => AllStarted
  /\ listening => AllStarted

HandedOut ==
  \A i \in DOMAIN Workers :
    i <= Len(loops_) => loops_[i] = Workers[i] /\ at[Workers[i]] \in {"enter", "in Loop"}

StillToCome ==
  \A i \in DOMAIN Workers :
    (i > Len(loops_) + 1 \/ (i = Len(loops_) + 1 /\ at[Base] = "create"))
      => at[Workers[i]] = "none"

QuietUntilStarted ==
  ~ AllStarted =>
    /\ serving = {}
    /\ \A l \in Loops : /\ pc[l] = "poll"
                        /\ to_do_list_[l] = <<>>
                        /\ ~ wakeup_fd_[l]
                        /\ waking[l] = NoOne

StartInv ==
  /\ Stages /\ Handshake /\ ServerTypes
  /\ MainProgress /\ HandedOut /\ StillToCome /\ QuietUntilStarted

-----------------------------------------------------------------------------
LEMMA WorkersAreLoops ==
  /\ WorkerSet \subseteq Loops
  /\ Base \in Loops /\ Base \notin WorkerSet
  /\ NoOne \notin WorkerSet
  /\ \A i \in DOMAIN Workers : Workers[i] \in WorkerSet
  /\ Len(Workers) \in Nat /\ DOMAIN Workers = 1 .. Len(Workers)
BY StartAssumption, LoopsAssumption DEF WorkerSet

LEMMA StartInvInit == ASSUME StartInit PROVE StartInv
<1> USE WorkersAreLoops DEF StartInit
<1>1. Stages
  BY DEF Stages, MainStages, WorkerStages
<1>2. Handshake
  BY DEF Handshake
<1>3. ServerTypes
  <2>1. loops_ \in Seq(WorkerSet)
    OBVIOUS
  <2>2. Len(loops_) <= Len(Workers)
    OBVIOUS
  <2>3. listening \in BOOLEAN /\ serving \in SUBSET WorkerSet
    OBVIOUS
  <2>. QED
    BY <2>1, <2>2, <2>3 DEF ServerTypes
<1>4. MainProgress
  BY DEF MainProgress, StartingOne
<1>5. HandedOut /\ StillToCome
  <2>1. \A w \in WorkerSet : at[w] = "none"
    OBVIOUS
  <2>2. StillToCome
    BY <2>1 DEF StillToCome
  <2>3. ASSUME NEW i \in DOMAIN Workers PROVE ~ (i <= Len(loops_))
    <3>1. loops_ = <<>>
      OBVIOUS
    <3>2. Len(loops_) = 0
      BY <3>1
    <3>. QED
      BY <3>2
  <2>4. HandedOut
    BY <2>3 DEF HandedOut
  <2>. QED
    BY <2>2, <2>4
<1>6. QuietUntilStarted
  BY DEF QuietUntilStarted, Init
<1>. QED
  BY <1>1, <1>2, <1>3, <1>4, <1>5, <1>6 DEF StartInv

(* While the main thread is starting one, there is one to start.           *)
LEMMA StartingIsNext ==
  ASSUME ServerTypes, ~ AllStarted
  PROVE /\ Len(loops_) \in Nat
        /\ Len(loops_) + 1 \in DOMAIN Workers
        /\ Starting \in WorkerSet
        /\ \A i \in DOMAIN Workers : Workers[i] = Starting => i = Len(loops_) + 1
BY WorkersAreLoops, StartAssumption DEF ServerTypes, AllStarted, Starting

(* A worker after the next one is not the one being started.               *)
LEMMA NotYetStarting ==
  ASSUME ServerTypes, NEW i \in DOMAIN Workers, Workers[i] = Starting
  PROVE  ~ (i > Len(loops_) + 1)
<1>1. i \in Nat /\ Len(loops_) \in Nat /\ i <= Len(Workers)
  <2>1. Len(loops_) \in Nat
    BY DEF ServerTypes
  <2>2. i \in 1 .. Len(Workers) /\ Len(Workers) \in Nat
    BY WorkersAreLoops
  <2>. QED
    BY <2>1, <2>2
<1>2. CASE AllStarted
  BY <1>1, <1>2 DEF AllStarted
<1>3. CASE ~ AllStarted
  BY <1>1, <1>3, StartingIsNext
<1>. QED
  BY <1>2, <1>3

(* No loop takes a step before all of them are there: nothing is queued    *)
(* and no channel but the eventfd's is watched.                            *)
LEMMA NoWorkUntilStarted ==
  ASSUME StartInv, NEW l \in Loops, LoopWork(l) PROVE AllStarted
<1> SUFFICES ASSUME ~ AllStarted PROVE FALSE
  OBVIOUS
<1>1. /\ pc[l] = "poll" /\ ~ wakeup_fd_[l] /\ waking[l] = NoOne
      /\ serving = {} /\ ~ listening
  BY DEF StartInv, QuietUntilStarted, MainProgress
<1>2. CASE Wait(l)
  <2>1. PICK S \in SUBSET (Watched(l) \cup {WakeupChannel}) : Poll(l, S)
    BY <1>2 DEF Wait
  <2>2. Watched(l) = {}
    BY <1>1 DEF Watched
  <2>. QED
    BY <1>1, <2>1, <2>2 DEF Poll
<1>3. CASE Round(l)
  BY <1>1, <1>3 DEF Round, HandleRead, HandleEvent, SwapToDoList, EndToDoList, WakeUp
<1>4. CASE Run(l)
  BY <1>1, <1>4 DEF Run, RunFunctor
<1>5. CASE Return(l)
  BY <1>1, <1>5 DEF Return, EndHandler, EndFunctor
<1>6. CASE Work(l)
  BY <1>1, <1>6 DEF Work, UserCode, RunOneFunc, QueueOneFunc, InUserCode
<1>. QED
  BY <1>2, <1>3, <1>4, <1>5, <1>6 DEF LoopWork

LEMMA LoopWorkKeepsInv ==
  ASSUME StartInv, NEW l \in Loops, LoopWork(l) PROVE StartInv'
<1>1. UNCHANGED <<at, count_, loop_, loops_, listening>>
  BY DEF LoopWork, Wait, Round, Run, Return, Work, startVars
<1>2. serving' \in SUBSET WorkerSet
  BY StartAssumption DEF LoopWork, Wait, Round, Run, Return, Work, startVars,
                         StartInv, ServerTypes
<1>3. AllStarted /\ AllStarted'
  BY <1>1, NoWorkUntilStarted DEF AllStarted
<1>4. Stages' /\ Handshake' /\ ServerTypes'
  BY <1>1, <1>2 DEF StartInv, Stages, Handshake, ServerTypes
<1>5. MainProgress' /\ HandedOut' /\ StillToCome'
  BY <1>1, <1>3 DEF StartInv, MainProgress, HandedOut, StillToCome
<1>. QED
  BY <1>3, <1>4, <1>5 DEF StartInv, QuietUntilStarted

(* A step of the start finds the loops quiet and leaves them so. *)
LEMMA StaysQuiet ==
  ASSUME StartInv, StartWork, ~ AllStarted' => ~ AllStarted, serving' = serving
  PROVE QuietUntilStarted'
BY StartWorkKeepsLoops DEF StartInv, QuietUntilStarted, vars

(* Most steps of the start only move threads on: the main thread keeps to  *)
(* the worker it is starting, a worker that is there stays, and none but   *)
(* that one begins.                                                        *)
LEMMA StageStep ==
  ASSUME StartInv, StartWork, Stages', Handshake',
         UNCHANGED <<loops_, listening, serving>>,
         \/ at'[Base] = at[Base]
         \/ at[Base] \in StartingOne /\ at'[Base] \in StartingOne
         \/ at[Base] = "create" /\ ~ AllStarted /\ at'[Base] = "latch"
         \/ at[Base] = "enter" /\ at'[Base] = "in Loop",
         \A w \in WorkerSet :
           /\ at[w] \in {"enter", "in Loop"} => at'[w] \in {"enter", "in Loop"}
           /\ at[w] = "none" /\ at'[w] # "none" => w = Starting /\ at'[Base] = "latch"
  PROVE  StartInv'
<1>1. AllStarted' <=> AllStarted
  BY DEF AllStarted
<1>2. ServerTypes'
  BY DEF StartInv, ServerTypes
<1>3. MainProgress'
  BY <1>1 DEF StartInv, MainProgress, StartingOne
<1>4. HandedOut'
  BY WorkersAreLoops DEF StartInv, HandedOut
<1>5. StillToCome'
  <2> SUFFICES ASSUME NEW i \in DOMAIN Workers,
                      i > Len(loops_) + 1 \/ (i = Len(loops_) + 1 /\ at'[Base] = "create")
               PROVE  at'[Workers[i]] = "none"
    BY DEF StillToCome
  <2>1. i > Len(loops_) + 1 \/ (i = Len(loops_) + 1 /\ at[Base] = "create")
    BY DEF StartingOne
  <2>2. at[Workers[i]] = "none" /\ Workers[i] \in WorkerSet
    BY <2>1, WorkersAreLoops DEF StartInv, StillToCome
  <2>3. ServerTypes
    BY DEF StartInv
  <2>4. Workers[i] = Starting => ~ (i > Len(loops_) + 1)
    BY <2>3, NotYetStarting
  <2>. QED
    BY <2>1, <2>2, <2>4
<1>6. QuietUntilStarted'
  BY <1>1, StaysQuiet
<1>. QED
  BY <1>2, <1>3, <1>4, <1>5, <1>6 DEF StartInv

LEMMA StartThreadKeepsInv == ASSUME StartInv, StartThread PROVE StartInv'
<1> USE WorkersAreLoops
<1>1. /\ at[Base] = "create" /\ ~ AllStarted
      /\ at' = [at EXCEPT ![Base] = "latch", ![Starting] = "created"]
      /\ UNCHANGED <<count_, loop_, loops_, listening, serving>>
  BY DEF StartThread
<1>2. /\ Starting \in WorkerSet
      /\ at[Starting] = "none"
  <2>1. /\ Len(loops_) + 1 \in DOMAIN Workers
        /\ Starting \in WorkerSet
    BY <1>1, StartingIsNext DEF StartInv
  <2>. QED
    BY <1>1, <2>1 DEF StartInv, StillToCome, Starting
<1>3. /\ at'[Base] = "latch"
      /\ \A w \in WorkerSet : at'[w] = IF w = Starting THEN "created" ELSE at[w]
  BY <1>1, <1>2 DEF StartInv, Stages
<1>4. Stages'
  BY <1>1, <1>2, <1>3 DEF StartInv, Stages, MainStages, WorkerStages
<1>5. Handshake'
  BY <1>1, <1>2, <1>3 DEF StartInv, Handshake
<1>6. StartWork
  BY DEF StartWork
<1>. QED
  BY <1>1, <1>2, <1>3, <1>4, <1>5, <1>6, StageStep

LEMMA WaitKeepsInv ==
  ASSUME StartInv, LatchWait \/ SpuriousWakeUp PROVE StartInv'
<1> USE WorkersAreLoops
<1>1. PICK s \in StartingOne : at' = [at EXCEPT ![Base] = s]
  BY DEF LatchWait, SpuriousWakeUp, StartingOne
<1>2. /\ at[Base] \in StartingOne
      /\ UNCHANGED <<count_, loop_, loops_, listening, serving>>
  BY DEF LatchWait, SpuriousWakeUp, StartingOne
<1>3. at'[Base] = s /\ \A w \in WorkerSet : at'[w] = at[w]
  BY <1>1 DEF StartInv, Stages
<1>4. Stages'
  BY <1>1, <1>3 DEF StartInv, Stages, MainStages, StartingOne
<1>5. Handshake'
  BY <1>2, <1>3 DEF StartInv, Handshake
<1>6. StartWork
  BY DEF StartWork
<1>. QED
  BY <1>2, <1>3, <1>4, <1>5, <1>6, StageStep

LEMMA CountDownKeepsInv ==
  ASSUME StartInv, NEW w \in WorkerSet, CountDown(w) PROVE StartInv'
<1> USE WorkersAreLoops
<1>1. /\ at[w] = "created"
      /\ count_' = [count_ EXCEPT ![w] = @ - 1]
      /\ UNCHANGED <<loop_, loops_, listening, serving>>
  BY DEF CountDown
<1>2. PICK s : /\ at' = [at EXCEPT ![w] = "func", ![Base] = s]
               /\ s = at[Base] \/ (at[Base] = "latch wait" /\ s = "latch")
  BY DEF CountDown, Notified, StartInv, Stages
<1>3. at'[Base] = s /\ \A v \in WorkerSet : at'[v] = IF v = w THEN "func" ELSE at[v]
  BY <1>2 DEF StartInv, Stages
<1>4. Stages'
  BY <1>2, <1>3 DEF StartInv, Stages, MainStages, WorkerStages
<1>5. Handshake'
  BY <1>1, <1>3 DEF StartInv, Handshake
<1>6. StartWork
  BY DEF StartWork
<1>. QED
  BY <1>1, <1>2, <1>3, <1>4, <1>5, <1>6, StageStep DEF StartingOne

LEMMA PublishKeepsInv ==
  ASSUME StartInv, NEW w \in WorkerSet, Publish(w) PROVE StartInv'
<1> USE WorkersAreLoops
<1>1. /\ at[w] = "func"
      /\ loop_' = [loop_ EXCEPT ![w] = w]
      /\ UNCHANGED <<count_, loops_, listening, serving>>
  BY DEF Publish
<1>2. PICK s : /\ at' = [at EXCEPT ![w] = "enter", ![Base] = s]
               /\ s = at[Base] \/ (at[Base] = "loop wait" /\ s = "loop")
  BY DEF Publish, Notified
<1>3. at'[Base] = s /\ \A v \in WorkerSet : at'[v] = IF v = w THEN "enter" ELSE at[v]
  BY <1>2 DEF StartInv, Stages
<1>4. Stages'
  BY <1>2, <1>3 DEF StartInv, Stages, MainStages, WorkerStages
<1>5. Handshake'
  BY <1>1, <1>3 DEF StartInv, Handshake
<1>6. StartWork
  BY DEF StartWork
<1>. QED
  BY <1>1, <1>2, <1>3, <1>4, <1>5, <1>6, StageStep DEF StartingOne

LEMMA EnteringKeepsHandshake ==
  ASSUME Handshake, UNCHANGED <<count_, loop_>>,
         NEW l, at[l] = "enter",
         \A w \in WorkerSet : at'[w] = IF w = l THEN "in Loop" ELSE at[w]
  PROVE  Handshake'
BY DEF Handshake

LEMMA EnterLoopKeepsInv ==
  ASSUME StartInv, NEW l \in Loops, EnterLoop(l) PROVE StartInv'
<1> USE WorkersAreLoops
<1>1. /\ at[l] = "enter" /\ at' = [at EXCEPT ![l] = "in Loop"]
      /\ UNCHANGED <<count_, loop_, loops_, listening, serving>>
  BY DEF EnterLoop
<1>2. \A k \in Loops : at'[k] = IF k = l THEN "in Loop" ELSE at[k]
  BY <1>1 DEF StartInv, Stages
<1>3. Stages'
  BY <1>1, <1>2 DEF StartInv, Stages, MainStages, WorkerStages
<1>4. \A w \in WorkerSet : at'[w] = IF w = l THEN "in Loop" ELSE at[w]
  BY <1>2
<1>5. Handshake'
  BY <1>1, <1>4, EnteringKeepsHandshake DEF StartInv
<1>6. StartWork
  BY DEF StartWork
<1>. QED
  BY <1>1, <1>2, <1>3, <1>4, <1>5, <1>6, StageStep

LEMMA ListenKeepsInv == ASSUME StartInv, Listen PROVE StartInv'
<1> USE WorkersAreLoops
<1>1. /\ AllStarted
      /\ at' = [at EXCEPT ![Base] = "enter"] /\ listening' = TRUE
      /\ UNCHANGED <<count_, loop_, loops_, serving>>
  BY DEF Listen
<1>2. at'[Base] = "enter" /\ \A w \in WorkerSet : at'[w] = at[w]
  BY <1>1 DEF StartInv, Stages
<1>3. AllStarted'
  BY <1>1 DEF AllStarted
<1>4. Stages'
  BY <1>1, <1>2 DEF StartInv, Stages, MainStages
<1>5. Handshake' /\ ServerTypes'
  BY <1>1, <1>2 DEF StartInv, Handshake, ServerTypes
<1>6. MainProgress' /\ QuietUntilStarted'
  BY <1>2, <1>3 DEF MainProgress, QuietUntilStarted, StartingOne
<1>7. HandedOut' /\ StillToCome'
  BY <1>1, <1>2 DEF StartInv, HandedOut, StillToCome
<1>. QED
  BY <1>4, <1>5, <1>6, <1>7 DEF StartInv

LEMMA StartLoopKeepsInv == ASSUME StartInv, StartLoop PROVE StartInv'
<1> USE WorkersAreLoops
<1>1. /\ at[Base] = "loop" /\ ~ AllStarted
      /\ UNCHANGED <<count_, loop_, listening, serving>>
  BY DEF StartLoop, StartInv, MainProgress, StartingOne
<1>2. StartWork
  BY DEF StartWork
<1>3. CASE at' = [at EXCEPT ![Base] = "loop wait"] /\ loops_' = loops_
  <2>1. at'[Base] = "loop wait" /\ \A w \in WorkerSet : at'[w] = at[w]
    BY <1>3 DEF StartInv, Stages
  <2>2. Stages'
    BY <1>3, <2>1 DEF StartInv, Stages, MainStages
  <2>3. Handshake'
    BY <1>1, <2>1 DEF StartInv, Handshake
  <2>. QED
    BY <1>1, <1>2, <1>3, <2>1, <2>2, <2>3, StageStep DEF StartingOne
<1>4. CASE /\ loop_[Starting] # NoOne
           /\ at' = [at EXCEPT ![Base] = "create"]
           /\ loops_' = Append(loops_, loop_[Starting])
  <2>1. /\ Len(loops_) \in Nat /\ Len(loops_) + 1 \in DOMAIN Workers
        /\ Starting \in WorkerSet
        /\ Starting = Workers[Len(loops_) + 1]
    BY <1>1, StartingIsNext DEF StartInv, Starting
  <2>2. loop_[Starting] = Starting /\ at[Starting] \in {"enter", "in Loop"}
    BY <1>4, <2>1 DEF StartInv, Stages, WorkerStages, Handshake
  <2>3. /\ Len(loops_') = Len(loops_) + 1
        /\ loops_'[Len(loops_) + 1] = Starting
        /\ \A i \in 1 .. Len(loops_) : loops_'[i] = loops_[i]
        /\ loops_' \in Seq(WorkerSet)
    <3>1. loops_ \in Seq(WorkerSet) /\ loops_' = Append(loops_, Starting)
      BY <1>4, <2>2 DEF StartInv, ServerTypes
    <3>2. Len(loops_') = Len(loops_) + 1
      BY <3>1
    <3>3. loops_'[Len(loops_) + 1] = Starting
      BY <3>1
    <3>4. \A i \in 1 .. Len(loops_) : loops_'[i] = loops_[i]
      BY <3>1
    <3>5. loops_' \in Seq(WorkerSet)
      BY <2>1, <3>1
    <3>. QED
      BY <3>2, <3>3, <3>4, <3>5
  <2>4. at'[Base] = "create" /\ \A w \in WorkerSet : at'[w] = at[w]
    BY <1>4 DEF StartInv, Stages
  <2>5. Stages'
    BY <1>4, <2>4 DEF StartInv, Stages, MainStages
  <2>6. Handshake' /\ ServerTypes'
    BY <1>1, <2>1, <2>3, <2>4 DEF StartInv, Handshake, ServerTypes
  <2>7. MainProgress' /\ QuietUntilStarted'
    BY <1>1, <1>2, <2>4, StaysQuiet DEF StartInv, MainProgress, StartingOne
  <2>8. ASSUME NEW i \in DOMAIN Workers
        PROVE  /\ i \in Nat /\ i >= 1 /\ Workers[i] \in WorkerSet
               /\ at'[Workers[i]] = at[Workers[i]]
    BY <2>4, WorkersAreLoops
  <2>9. HandedOut'
    <3> SUFFICES ASSUME NEW i \in DOMAIN Workers, i <= Len(loops_')
                 PROVE  /\ loops_'[i] = Workers[i]
                        /\ at'[Workers[i]] \in {"enter", "in Loop"}
      BY DEF HandedOut
    <3>1. CASE i = Len(loops_) + 1
      BY <2>1, <2>2, <2>3, <2>4, <3>1
    <3>2. CASE i # Len(loops_) + 1
      <4>1. i <= Len(loops_)
        BY <2>1, <2>3, <2>8, <3>2
      <4>2. loops_[i] = Workers[i] /\ at[Workers[i]] \in {"enter", "in Loop"}
        BY <4>1 DEF StartInv, HandedOut
      <4>3. loops_'[i] = loops_[i]
        BY <2>1, <2>3, <2>8, <4>1
      <4>. QED
        BY <2>8, <4>2, <4>3
    <3>. QED
      BY <3>1, <3>2
  <2>10. StillToCome'
    <3> SUFFICES ASSUME NEW i \in DOMAIN Workers, i >= Len(loops_') + 1
                 PROVE  at'[Workers[i]] = "none"
      BY <2>1, <2>3, <2>8 DEF StillToCome
    <3>1. i > Len(loops_) + 1
      BY <2>1, <2>3, <2>8
    <3>. QED
      BY <2>8, <3>1 DEF StartInv, StillToCome
  <2>. QED
    BY <2>5, <2>6, <2>7, <2>9, <2>10 DEF StartInv
<1>. QED
  BY <1>3, <1>4 DEF StartLoop

LEMMA StartInvariance == StartSpec => []StartInv
<1>1. StartInit => StartInv
  BY StartInvInit
<1>2. StartInv /\ [StartNext]_allVars => StartInv'
  <2> SUFFICES ASSUME StartInv, [StartNext]_allVars PROVE StartInv'
    OBVIOUS
  <2>1. CASE UNCHANGED allVars
    BY <2>1 DEF allVars, loopVars, vars, startVars, StartInv, Stages, Handshake,
                ServerTypes, MainProgress, HandedOut, StillToCome, QuietUntilStarted,
                AllStarted
  <2>2. CASE StartWork
    BY <2>2, StartThreadKeepsInv, StartLoopKeepsInv, WaitKeepsInv, ListenKeepsInv,
       CountDownKeepsInv, PublishKeepsInv, EnterLoopKeepsInv DEF StartWork
  <2>3. CASE \E l \in Loops : LoopWork(l)
    BY <2>3, LoopWorkKeepsInv
  <2>. QED
    BY <2>1, <2>2, <2>3, StartNextCases
<1>. QED
  BY <1>1, <1>2, PTL DEF StartSpec

-----------------------------------------------------------------------------
LEMMA LoopWorkIsNext ==
  ASSUME StartInv, NEW l \in Loops, LoopWork(l) PROVE Next
<1>1. CASE Wait(l)
  <2>1. PICK S \in SUBSET (Watched(l) \cup {WakeupChannel}) : Poll(l, S)
    BY <1>1 DEF Wait
  <2>2. S \in SUBSET (Channels \cup {WakeupChannel})
    BY StartAssumption DEF Watched
  <2>. QED
    BY <2>1, <2>2 DEF PollAny, Next
<1>2. CASE Work(l)
  <2>1. Known(l) \subseteq Loops
    BY WorkersAreLoops DEF Known, StartInv, ServerTypes
  <2>. QED
    BY <1>2, <2>1 DEF Work, Next
<1>3. CASE Round(l) \/ Run(l) \/ Return(l)
  BY <1>3 DEF Round, Run, Return, DoToDoList, Next
<1>. QED
  BY <1>1, <1>2, <1>3 DEF LoopWork

(* Start-up takes nothing away from what is shown of the loops: whatever   *)
(* the main thread and the workers do before they are in Loop(), each loop *)
(* behaves as EventLoop allows (eventloopthread.cc:36-45).                 *)
THEOREM StartImplementsLoops == StartSpec => Spec
<1>1. StartInit => Init
  BY DEF StartInit
<1>2. StartInv /\ [StartNext]_allVars => [Next]_vars
  <2> SUFFICES ASSUME StartInv, [StartNext]_allVars PROVE [Next]_vars
    OBVIOUS
  <2>1. CASE UNCHANGED allVars
    BY <2>1 DEF allVars, loopVars, vars
  <2>. QED
    BY <2>1, StartNextCases, StartWorkKeepsLoops, LoopWorkIsNext
<1>. QED
  BY <1>1, <1>2, StartInvariance, PTL DEF StartSpec, Spec

(* The types of the loops and of their start; a latch is closed until its  *)
(* thread runs, and loop_ null until the loop exists, for each worker.     *)
THEOREM StartTypeCorrect == StartSpec => []StartTypeOK
<1>1. TypeOK /\ StartInv => StartTypeOK
  BY DEF StartInv, Stages, Handshake, ServerTypes, StartTypeOK
<1>. QED
  BY <1>1, StartInvariance, StartImplementsLoops, TypeCorrect, PTL

(* StartLoop returns loops that exist, each that of its own thread,        *)
(* whenever its wait may end, and nobody queues on a loop that does not    *)
(* (eventloopthread.cc:23-43, eventloopthreadpool.cc:18-22).               *)
THEOREM StartHandsOutLoops == StartSpec => []LoopsAreUp
<1>1. StartInv => LoopsAreUp
  <2> SUFFICES ASSUME StartInv PROVE LoopsAreUp
    OBVIOUS
  <2>1. \A i \in DOMAIN loops_ : loops_[i] = Workers[i] /\ Constructed(Workers[i])
    <3>1. DOMAIN loops_ = 1 .. Len(loops_) /\ Len(loops_) \in Nat
          /\ Len(loops_) <= Len(Workers)
      BY DEF StartInv, ServerTypes
    <3>2. \A i \in DOMAIN loops_ : i \in DOMAIN Workers /\ i <= Len(loops_)
      BY <3>1, WorkersAreLoops
    <3>. QED
      BY <3>2 DEF StartInv, HandedOut, Constructed
  <2>2. ASSUME AllStarted, NEW l \in Loops PROVE Constructed(l)
    <3>1. CASE l = Base
      BY <3>1 DEF Constructed
    <3>2. CASE l \in WorkerSet
      <4>1. PICK i \in DOMAIN Workers : l = Workers[i]
        BY <3>2 DEF WorkerSet
      <4>2. i \in DOMAIN loops_
        BY <2>2, WorkersAreLoops DEF AllStarted, StartInv, ServerTypes
      <4>. QED
        BY <2>1, <4>1, <4>2
    <3>. QED
      BY <3>1, <3>2, StartAssumption
  <2>3. ASSUME ~ AllStarted, NEW l \in Loops
        PROVE to_do_list_[l] = <<>> /\ ~ WakeUpPending(l)
    BY <2>3, LoopsAssumption DEF StartInv, QuietUntilStarted, WakeUpPending
  <2>. QED
    BY <2>1, <2>2, <2>3 DEF LoopsAreUp
<1>. QED
  BY <1>1, StartInvariance, PTL

(* No wake-up is lost from the start on, the base loop's to a worker that  *)
(* is not in Loop() yet included.                                          *)
THEOREM NoWakeupLostFromStart == StartSpec => []NoLostWakeup
BY StartImplementsLoops, WakeupNeverLost, PTL
=============================================================================
