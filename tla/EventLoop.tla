----------------------------- MODULE EventLoop -----------------------------
(***************************************************************************)
(* The event loops of tiny_muduo (eventloop.h, eventloop.cc, and the poll  *)
(* half of epoller.cc).  Every thread of the server runs exactly one       *)
(* EventLoop, so a loop stands for its thread as well.                     *)
(*                                                                         *)
(* A loop repeats: wait in epoll_wait, call the handler of each ready      *)
(* channel, run the functors queued on to_do_list_.  Handlers and functors *)
(* are user code: all that is known of them here is that they may hand     *)
(* functors to this loop or to another one and that they return.           *)
(*                                                                         *)
(* A step is a critical section or a system call, the places where another *)
(* thread can come between: the push under mutex_ and the write to the     *)
(* eventfd are two steps of QueueOneFunc.                                  *)
(***************************************************************************)
EXTENDS Naturals, Sequences, FiniteSets, FiniteSetsExt

CONSTANTS
  Loops,           (* the event loops, one per thread                       *)
  Funcs,           (* the functors (std::function<void()>)                  *)
  Channels,        (* the I/O channels user code registers                  *)
  WakeupChannel,   (* the channel of a loop's own eventfd                   *)
  NoOne,           (* no loop, no channel                                   *)
  kDefaultEvents,  (* initial length of the epoll_event array               *)
  MaxFuncs         (* bound of the model: functors in all the loops' hands  *)
                   (* at a time                                             *)

ASSUME LoopsAssumption ==
  /\ Loops # {}
  /\ NoOne \notin Loops
  /\ NoOne \notin Channels
  /\ WakeupChannel \notin Channels
  /\ WakeupChannel # NoOne
  /\ kDefaultEvents \in Nat \ {0}
  /\ MaxFuncs \in Nat

VARIABLES
  pc,                (* where the thread of each loop stands                *)
  current,           (* the channel whose handler is running                *)
  active_channels_,  (* reported channels whose handlers have not run       *)
  events_size,       (* Epoller::events_.size()                             *)
  to_do_list_,       (* functors queued and not yet swapped out             *)
  functors,          (* the vector DoToDoList swapped to_do_list_ into      *)
  next_func,         (* how many elements of functors have been started     *)
  calling_functors_,
  wakeup_fd_,        (* TRUE iff the eventfd counter is not zero            *)
  waking             (* the loop whose queue this thread has just pushed    *)
                     (* to, until it decides whether to write the eventfd   *)

vars == <<pc, current, active_channels_, events_size, to_do_list_, functors,
          next_func, calling_functors_, wakeup_fd_, waking>>

Control == {"poll", "dispatch", "handler", "run", "functor"}

(* One invariant for the types, with the ranges the vectors and the        *)
(* program counter keep: no index runs past its vector, and a thread is    *)
(* inside a channel's handler exactly when it has a current channel        *)
(* (Loop and DoToDoList, eventloop.cc:46-58 and 91-103).                   *)
TypeOK ==
  /\ pc \in [Loops -> Control]
  /\ current \in [Loops -> Channels \cup {NoOne}]
  /\ active_channels_ \in [Loops -> SUBSET (Channels \cup {WakeupChannel})]
  /\ events_size \in [Loops -> Nat \ {0}]
  /\ to_do_list_ \in [Loops -> Seq(Funcs)]
  /\ functors \in [Loops -> Seq(Funcs)]
  /\ next_func \in [Loops -> Nat]
  /\ calling_functors_ \in [Loops -> BOOLEAN]
  /\ wakeup_fd_ \in [Loops -> BOOLEAN]
  /\ waking \in [Loops -> Loops \cup {NoOne}]
  /\ \A l \in Loops : /\ next_func[l] <= Len(functors[l])
                      /\ pc[l] = "functor" => next_func[l] > 0
                      /\ pc[l] = "handler" <=> current[l] # NoOne

(* EventLoop::EventLoop, and the start of Loop(). *)
Init ==
  /\ pc = [l \in Loops |-> "poll"]
  /\ current = [l \in Loops |-> NoOne]
  /\ active_channels_ = [l \in Loops |-> {}]
  /\ events_size = [l \in Loops |-> kDefaultEvents]
  /\ to_do_list_ = [l \in Loops |-> <<>>]
  /\ functors = [l \in Loops |-> <<>>]
  /\ next_func = [l \in Loops |-> 0]
  /\ calling_functors_ = [l \in Loops |-> FALSE]
  /\ wakeup_fd_ = [l \in Loops |-> FALSE]
  /\ waking = [l \in Loops |-> NoOne]

-----------------------------------------------------------------------------
(* QueueOneFunc is called by user code on thread t for loop l. *)

InUserCode(t) == pc[t] \in {"handler", "functor"} /\ waking[t] = NoOne

(* The critical section: to_do_list_.emplace_back under mutex_. *)
QueueOneFunc(t, l, f) ==
  /\ InUserCode(t)
  /\ to_do_list_' = [to_do_list_ EXCEPT ![l] = Append(@, f)]
  /\ waking' = [waking EXCEPT ![t] = l]
  /\ UNCHANGED <<pc, current, active_channels_, events_size, functors,
                 next_func, calling_functors_, wakeup_fd_>>

(* Mistake: the eventfd is written by other threads only. *)
WakeUp_ForeignOnly(t) ==
  /\ waking[t] # NoOne
  /\ wakeup_fd_' = IF waking[t] # t
                   THEN [wakeup_fd_ EXCEPT ![waking[t]] = TRUE]
                   ELSE wakeup_fd_
  /\ waking' = [waking EXCEPT ![t] = NoOne]
  /\ UNCHANGED <<pc, current, active_channels_, events_size, to_do_list_,
                 functors, next_func, calling_functors_>>

(* After the unlock: if (!IsInThreadPool() || calling_functors_) write.     *)
(* calling_functors_ is read only when t is the loop's own thread.         *)
WakeUp(t) ==
  /\ waking[t] # NoOne
  /\ wakeup_fd_' = IF waking[t] # t \/ calling_functors_[t]
                   THEN [wakeup_fd_ EXCEPT ![waking[t]] = TRUE]
                   ELSE wakeup_fd_
  /\ waking' = [waking EXCEPT ![t] = NoOne]
  /\ UNCHANGED <<pc, current, active_channels_, events_size, to_do_list_,
                 functors, next_func, calling_functors_>>

(* RunOneFunc: on the loop's own thread the functor is called in place,    *)
(* which leaves the queues alone (what the call does is up to the functor).*)
RunOneFunc(t, l, f) ==
  \/ t = l /\ InUserCode(t) /\ UNCHANGED vars
  \/ t # l /\ QueueOneFunc(t, l, f)

-----------------------------------------------------------------------------
(* EventLoop::Loop *)

(* Poll returns a non-empty set S of ready channels, no more than the      *)
(* event array holds, in an order nothing promises; when the array was     *)
(* filled it is doubled (FillActiveChannels).                              *)
Poll(l, S) ==
  /\ pc[l] = "poll"
  /\ S # {}
  /\ WakeupChannel \in S => wakeup_fd_[l]
  /\ Cardinality(S) <= events_size[l]
  /\ active_channels_' = [active_channels_ EXCEPT ![l] = S]
  /\ events_size' = [events_size EXCEPT
                       ![l] = IF Cardinality(S) = @ THEN 2 * @ ELSE @]
  /\ pc' = [pc EXCEPT ![l] = "dispatch"]
  /\ UNCHANGED <<current, to_do_list_, functors, next_func,
                 calling_functors_, wakeup_fd_, waking>>

(* The wakeup channel's handler: read() resets the eventfd counter. *)
HandleRead(l) ==
  /\ pc[l] = "dispatch"
  /\ WakeupChannel \in active_channels_[l]
  /\ active_channels_' = [active_channels_ EXCEPT ![l] = @ \ {WakeupChannel}]
  /\ wakeup_fd_' = [wakeup_fd_ EXCEPT ![l] = FALSE]
  /\ UNCHANGED <<pc, current, events_size, to_do_list_, functors, next_func,
                 calling_functors_, waking>>

HandleEvent(l, c) ==
  /\ pc[l] = "dispatch"
  /\ c \in active_channels_[l] \ {WakeupChannel}
  /\ active_channels_' = [active_channels_ EXCEPT ![l] = @ \ {c}]
  /\ current' = [current EXCEPT ![l] = c]
  /\ pc' = [pc EXCEPT ![l] = "handler"]
  /\ UNCHANGED <<events_size, to_do_list_, functors, next_func,
                 calling_functors_, wakeup_fd_, waking>>

EndHandler(l) ==
  /\ pc[l] = "handler"
  /\ waking[l] = NoOne
  /\ current' = [current EXCEPT ![l] = NoOne]
  /\ pc' = [pc EXCEPT ![l] = "dispatch"]
  /\ UNCHANGED <<active_channels_, events_size, to_do_list_, functors,
                 next_func, calling_functors_, wakeup_fd_, waking>>

-----------------------------------------------------------------------------
(* EventLoop::DoToDoList *)

(* calling_functors_ = true, which only this thread reads, and the swap    *)
(* under mutex_.                                                           *)
SwapToDoList(l) ==
  /\ pc[l] = "dispatch"
  /\ active_channels_[l] = {}
  /\ calling_functors_' = [calling_functors_ EXCEPT ![l] = TRUE]
  /\ functors' = [functors EXCEPT ![l] = to_do_list_[l]]
  /\ next_func' = [next_func EXCEPT ![l] = 0]
  /\ to_do_list_' = [to_do_list_ EXCEPT ![l] = <<>>]
  /\ pc' = [pc EXCEPT ![l] = "run"]
  /\ UNCHANGED <<current, active_channels_, events_size, wakeup_fd_, waking>>

RunFunctor(l) ==
  /\ pc[l] = "run"
  /\ next_func[l] < Len(functors[l])
  /\ next_func' = [next_func EXCEPT ![l] = @ + 1]
  /\ pc' = [pc EXCEPT ![l] = "functor"]
  /\ UNCHANGED <<current, active_channels_, events_size, to_do_list_,
                 functors, calling_functors_, wakeup_fd_, waking>>

EndFunctor(l) ==
  /\ pc[l] = "functor"
  /\ waking[l] = NoOne
  /\ pc' = [pc EXCEPT ![l] = "run"]
  /\ UNCHANGED <<current, active_channels_, events_size, to_do_list_,
                 functors, next_func, calling_functors_, wakeup_fd_, waking>>

(* Mistake: the functors that arrived meanwhile are thrown away too. *)
EndToDoList_ClearsQueue(l) ==
  /\ pc[l] = "run"
  /\ next_func[l] = Len(functors[l])
  /\ calling_functors_' = [calling_functors_ EXCEPT ![l] = FALSE]
  /\ functors' = [functors EXCEPT ![l] = <<>>]
  /\ next_func' = [next_func EXCEPT ![l] = 0]
  /\ to_do_list_' = [to_do_list_ EXCEPT ![l] = <<>>]
  /\ pc' = [pc EXCEPT ![l] = "poll"]
  /\ UNCHANGED <<current, active_channels_, events_size, wakeup_fd_, waking>>

(* calling_functors_ = false; the vector goes out of scope, and with it    *)
(* everything its functors own; active_channels_ is empty for the next     *)
(* round already.                                                          *)
EndToDoList(l) ==
  /\ pc[l] = "run"
  /\ next_func[l] = Len(functors[l])
  /\ calling_functors_' = [calling_functors_ EXCEPT ![l] = FALSE]
  /\ functors' = [functors EXCEPT ![l] = <<>>]
  /\ next_func' = [next_func EXCEPT ![l] = 0]
  /\ pc' = [pc EXCEPT ![l] = "poll"]
  /\ UNCHANGED <<current, active_channels_, events_size, to_do_list_,
                 wakeup_fd_, waking>>

DoToDoList(l) ==
  SwapToDoList(l) \/ RunFunctor(l) \/ EndFunctor(l) \/ EndToDoList(l)

-----------------------------------------------------------------------------
(* A functor is in a loop's hands until DoToDoList drops the vector it was *)
(* swapped into.                                                           *)
InHand == MapThenSumSet(LAMBDA l : Len(to_do_list_[l]) + Len(functors[l]), Loops)

UserCode(t, l) ==
  /\ InHand < MaxFuncs
  /\ \E f \in Funcs : QueueOneFunc(t, l, f) \/ RunOneFunc(t, l, f)

PollAny(l) == \E S \in SUBSET (Channels \cup {WakeupChannel}) : Poll(l, S)

Next ==
  \E l \in Loops :
    \/ PollAny(l)
    \/ HandleRead(l)
    \/ \E c \in Channels : HandleEvent(l, c)
    \/ EndHandler(l)
    \/ DoToDoList(l)
    \/ \E k \in Loops : UserCode(l, k)
    \/ WakeUp(l)

Spec == Init /\ [][Next]_vars

(***************************************************************************)
(* Fairness.  The scheduler runs every thread, so a loop that can go on    *)
(* does; epoll_wait returns once the eventfd is readable, but nothing says *)
(* that an I/O channel ever becomes ready.  Handlers and functors return,  *)
(* however many functors they queue before (strong fairness, because each  *)
(* push disables the return until the eventfd is written).                 *)
(***************************************************************************)
LoopStep(l) ==
  \/ wakeup_fd_[l] /\ PollAny(l)
  \/ HandleRead(l)
  \/ \E c \in Channels : HandleEvent(l, c)
  \/ SwapToDoList(l) \/ RunFunctor(l) \/ EndToDoList(l)
  \/ WakeUp(l)

Fairness ==
  \A l \in Loops : /\ WF_vars(LoopStep(l))
                   /\ SF_vars(EndHandler(l) \/ EndFunctor(l))

FairSpec == Spec /\ Fairness

-----------------------------------------------------------------------------
(* The hand-over protocol's invariant: once DoToDoList has swapped the     *)
(* list out, and all through the next epoll_wait, a functor on             *)
(* to_do_list_ has its wake-up pending: the eventfd is readable or a       *)
(* thread is between the push and the write.  calling_functors_ tells the  *)
(* loop's own pushes that need the eventfd from those DoToDoList will find *)
(* anyway (eventloop.cc:74).                                               *)
WakeUpPending(l) == wakeup_fd_[l] \/ \E t \in Loops : waking[t] = l

NoLostWakeup ==
  \A l \in Loops :
    (pc[l] \in {"run", "functor", "poll"} /\ to_do_list_[l] # <<>>)
      => WakeUpPending(l)

(* No loop sleeps on work: a thread blocked in epoll_wait with nothing on  *)
(* its eventfd has an empty queue, unless another thread is just about to  *)
(* write the eventfd.                                                      *)
NoSleepOnWork ==
  \A l \in Loops :
    (pc[l] = "poll" /\ to_do_list_[l] # <<>> /\ ~ wakeup_fd_[l])
      => \E t \in Loops \ {l} : waking[t] = l

(* Every functor queued on a loop is eventually started by that loop,      *)
(* whether I/O ever happens there or not.                                  *)
QueuedFuncRuns ==
  \A l \in Loops, f \in Funcs :
    (\E i \in DOMAIN to_do_list_[l] : to_do_list_[l][i] = f)
      ~> (pc[l] = "functor" /\ functors[l][next_func[l]] = f)

(* What a loop promises to those who queue functors on it. *)
TQ == INSTANCE TaskQueue WITH
  pending <- [l \in Loops |->
                SubSeq(functors[l], next_func[l] + 1, Len(functors[l]))
                  \o to_do_list_[l]],
  running <- [l \in Loops |->
                IF pc[l] = "functor" THEN <<functors[l][next_func[l]]>> ELSE <<>>]

(* The loops implement one FIFO queue of functors each: the swap hides     *)
(* nothing, loses nothing, runs nothing twice and keeps the order.         *)
ImplementsTaskQueue == TQ!Spec
=============================================================================
