----------------------------- MODULE ThreadStart -----------------------------
(***************************************************************************)
(* How the server starts, and the loops of EventLoop running under it      *)
(* (thread.cc, thread.h, latch.h, condition.h, eventloopthread.cc,         *)
(* eventloopthreadpool.cc, TCPServer::Start, Acceptor::Listen).            *)
(*                                                                         *)
(* The main thread starts one worker after the other.  For each it waits   *)
(* twice: on the thread's latch, until the thread runs, and on the         *)
(* condition of EventLoopThread, until the thread has published the loop   *)
(* on its stack.  Then it listens and enters its own loop, the base loop.  *)
(*                                                                         *)
(*    main:    create .. latch ...... loop ......... listen, enter Loop()  *)
(*    worker:    created, CountDown ..... Publish ... enter Loop()         *)
(*                                                                         *)
(* What is done under a mutex is one step, since pthread_cond_wait gives   *)
(* the mutex back in the step in which it begins to wait.  It may return   *)
(* without a signal.  A worker has published its loop before it is in      *)
(* Loop(), so the base loop may queue functors on a loop that does not run *)
(* yet.                                                                    *)
(***************************************************************************)
EXTENDS EventLoop

CONSTANTS
  Base,            (* the loop of the main thread                           *)
  Workers,         (* the loops of the other threads, in starting order     *)
  ListenChannel,   (* the Acceptor's channel                                *)
  ConnChannel      (* the channel of a connection a worker serves           *)

WorkerSet == {Workers[i] : i \in DOMAIN Workers}

ASSUME StartAssumption ==
  /\ Workers \in Seq(Loops)
  /\ \A i, j \in DOMAIN Workers : Workers[i] = Workers[j] => i = j
  /\ Base \in Loops \ WorkerSet
  /\ Loops = {Base} \cup WorkerSet
  /\ Channels = {ListenChannel, ConnChannel}

VARIABLES
  at,         (* where each thread stands before it is in Loop()            *)
  count_,     (* Latch::count_ of each worker's thread                      *)
  loop_,      (* EventLoopThread::loop_, NoOne for nullptr                  *)
  loops_,     (* EventLoopThreadPool::loops_                                *)
  listening,  (* Acceptor::Listen has run                                   *)
  serving     (* the workers that have run a functor: those the base loop   *)
              (* queues register a connection's channel                     *)

loopVars == vars
startVars == <<at, count_, loop_, loops_, listening, serving>>
allVars == <<loopVars, startVars>>

MainStages == {"create", "latch", "latch wait", "loop", "loop wait", "enter", "in Loop"}
WorkerStages == {"none", "created", "func", "enter", "in Loop"}

StartInit ==
  /\ Init
  /\ at = [l \in Loops |-> IF l = Base THEN "create" ELSE "none"]
  /\ count_ = [w \in WorkerSet |-> 1]
  /\ loop_ = [w \in WorkerSet |-> NoOne]
  /\ loops_ = <<>>
  /\ listening = FALSE
  /\ serving = {}

-----------------------------------------------------------------------------
(* The main thread: EventLoopThreadPool::StartLoop is at its next worker.  *)

AllStarted == Len(loops_) = Len(Workers)
Starting == Workers[Len(loops_) + 1]

(* pthread_create *)
StartThread ==
  /\ at[Base] = "create" /\ ~ AllStarted
  /\ at' = [at EXCEPT ![Base] = "latch", ![Starting] = "created"]
  /\ UNCHANGED <<loopVars, count_, loop_, loops_, listening, serving>>

(* Latch::Wait *)
LatchWait ==
  /\ at[Base] = "latch"
  /\ at' = [at EXCEPT ![Base] = IF count_[Starting] > 0 THEN "latch wait" ELSE "loop"]
  /\ UNCHANGED <<loopVars, count_, loop_, loops_, listening, serving>>

(* Mistake: if instead of while around the wait.                           *)
StartLoop_If ==
  /\ \/ /\ at[Base] = "loop" /\ loop_[Starting] = NoOne
        /\ at' = [at EXCEPT ![Base] = "loop wait"]
        /\ UNCHANGED loops_
     \/ /\ at[Base] = "loop wait" \/ (at[Base] = "loop" /\ loop_[Starting] # NoOne)
        /\ at' = [at EXCEPT ![Base] = "create"]
        /\ loops_' = Append(loops_, loop_[Starting])
  /\ UNCHANGED <<loopVars, count_, loop_, listening, serving>>

(* The critical section of EventLoopThread::StartLoop. *)
StartLoop ==
  /\ at[Base] = "loop"
  /\ \/ /\ loop_[Starting] = NoOne
        /\ at' = [at EXCEPT ![Base] = "loop wait"]
        /\ UNCHANGED loops_
     \/ /\ loop_[Starting] # NoOne
        /\ at' = [at EXCEPT ![Base] = "create"]
        /\ loops_' = Append(loops_, loop_[Starting])
  /\ UNCHANGED <<loopVars, count_, loop_, listening, serving>>

(* pthread_cond_wait returns although nobody has signalled. *)
SpuriousWakeUp ==
  /\ \/ at[Base] = "latch wait" /\ at' = [at EXCEPT ![Base] = "latch"]
     \/ at[Base] = "loop wait" /\ at' = [at EXCEPT ![Base] = "loop"]
  /\ UNCHANGED <<loopVars, count_, loop_, loops_, listening, serving>>

(* RunOneFunc on the loop's own thread: Listen is called in place. *)
Listen ==
  /\ at[Base] = "create" /\ AllStarted
  /\ at' = [at EXCEPT ![Base] = "enter"]
  /\ listening' = TRUE
  /\ UNCHANGED <<loopVars, count_, loop_, loops_, serving>>

-----------------------------------------------------------------------------
(* The worker's thread.  The only one that waits for it is the main thread.*)

Notified(from, to) ==
  IF at[Base] = from THEN to ELSE at[Base]

(* ThreadData::RunOneFunc up to the call of func_: Latch::CountDown. *)
CountDown(w) ==
  /\ at[w] = "created"
  /\ count_' = [count_ EXCEPT ![w] = @ - 1]
  /\ at' = [at EXCEPT ![w] = "func",
                      ![Base] = IF count_'[w] = 0 THEN Notified("latch wait", "latch")
                                                  ELSE @]
  /\ UNCHANGED <<loopVars, loop_, loops_, listening, serving>>

(* Mistake: the loop is published without a signal.                        *)
Publish_Quiet(w) ==
  /\ at[w] = "func"
  /\ loop_' = [loop_ EXCEPT ![w] = w]
  /\ at' = [at EXCEPT ![w] = "enter"]
  /\ UNCHANGED <<loopVars, count_, loops_, listening, serving>>

(* Mistake: the address is published before the loop is constructed.       *)
Publish_Early(w) ==
  /\ at[w] = "func"
  /\ \/ /\ loop_[w] = NoOne
        /\ loop_' = [loop_ EXCEPT ![w] = w]
        /\ at' = [at EXCEPT ![Base] = Notified("loop wait", "loop")]
     \/ /\ loop_[w] # NoOne
        /\ at' = [at EXCEPT ![w] = "enter"]
        /\ UNCHANGED loop_
  /\ UNCHANGED <<loopVars, count_, loops_, listening, serving>>

(* EventLoopThread::StartFunc: the EventLoop is constructed on the stack   *)
(* and its address published under mutex_, with a signal.                  *)
Publish(w) ==
  /\ at[w] = "func"
  /\ loop_' = [loop_ EXCEPT ![w] = w]
  /\ at' = [at EXCEPT ![w] = "enter", ![Base] = Notified("loop wait", "loop")]
  /\ UNCHANGED <<loopVars, count_, loops_, listening, serving>>

(* Any thread: EventLoop::Loop is called. *)
EnterLoop(l) ==
  /\ at[l] = "enter"
  /\ at' = [at EXCEPT ![l] = "in Loop"]
  /\ UNCHANGED <<loopVars, count_, loop_, loops_, listening, serving>>

-----------------------------------------------------------------------------
(* The loops at work.  User code reaches the loops it can know: the base   *)
(* loop those NextLoop returns, a worker its own and TCPServer::loop_.     *)

Known(t) == {t, Base} \cup (IF t = Base THEN {loops_[i] : i \in DOMAIN loops_} ELSE {})

Watched(l) ==
  (IF l = Base /\ listening THEN {ListenChannel} ELSE {})
    \cup (IF l \in serving THEN {ConnChannel} ELSE {})

Work(t) ==
  /\ \E l \in Known(t) : UserCode(t, l)
  /\ UNCHANGED startVars

Wait(l) ==
  /\ at[l] = "in Loop"
  /\ \E S \in SUBSET (Watched(l) \cup {WakeupChannel}) : Poll(l, S)
  /\ UNCHANGED startVars

Run(l) ==
  /\ RunFunctor(l)
  /\ serving' = IF l = Base THEN serving ELSE serving \cup {l}
  /\ UNCHANGED <<at, count_, loop_, loops_, listening>>

Round(l) ==
  /\ at[l] = "in Loop"
  /\ \/ HandleRead(l)
     \/ \E c \in Channels : HandleEvent(l, c)
     \/ SwapToDoList(l) \/ EndToDoList(l)
     \/ WakeUp(l)
  /\ UNCHANGED startVars

Return(l) == (EndHandler(l) \/ EndFunctor(l)) /\ UNCHANGED startVars

Main == StartThread \/ LatchWait \/ StartLoop \/ Listen \/ EnterLoop(Base)
Worker(w) == CountDown(w) \/ Publish(w) \/ EnterLoop(w)

StartNext ==
  \/ Main
  \/ SpuriousWakeUp
  \/ \E w \in WorkerSet : Worker(w)
  \/ \E l \in Loops : Wait(l) \/ Round(l) \/ Run(l) \/ Return(l) \/ Work(l)

StartSpec == StartInit /\ [][StartNext]_allVars

(* The scheduler runs every thread; epoll_wait returns when the eventfd is *)
(* readable; handlers and functors return (see EventLoop).  Nothing is     *)
(* assumed of I/O, nor that a wait ever ends without a signal.             *)
StartFairness ==
  /\ WF_allVars(Main)
  /\ \A w \in WorkerSet : WF_allVars(Worker(w))
  /\ \A l \in Loops :
       /\ WF_allVars((wakeup_fd_[l] /\ Wait(l)) \/ Round(l) \/ Run(l))
       /\ SF_allVars(Return(l))

FairStartSpec == StartSpec /\ StartFairness

-----------------------------------------------------------------------------
(* The types, those of the loops included; the latch of a worker's thread  *)
(* is closed exactly until the thread runs, and its loop_ is null exactly  *)
(* until the loop on its stack exists (thread.h:36-40,                     *)
(* eventloopthread.cc:36-43).                                              *)
StartTypeOK ==
  /\ TypeOK
  /\ at \in [Loops -> MainStages \cup WorkerStages]
  /\ at[Base] \in MainStages
  /\ count_ \in [WorkerSet -> 0 .. 1]
  /\ loop_ \in [WorkerSet -> WorkerSet \cup {NoOne}]
  /\ loops_ \in Seq(WorkerSet)
  /\ Len(loops_) <= Len(Workers)
  /\ listening \in BOOLEAN
  /\ serving \in SUBSET WorkerSet
  /\ \A w \in WorkerSet :
       /\ at[w] \in WorkerStages
       /\ count_[w] = 1 <=> at[w] \in {"none", "created"}
       /\ loop_[w] = IF at[w] \in {"none", "created", "func"} THEN NoOne ELSE w

(* What the start hands out can be used.  StartLoop returns no null loop   *)
(* nor one of another thread, although it waits on a condition that may    *)
(* return at any time (eventloopthread.cc:28-31, eventloopthreadpool.cc:   *)
(* 18-22); and nobody queues on a loop, or is about to wake it, before it  *)
(* has been constructed.                                                   *)
Constructed(l) == l = Base \/ at[l] \in {"enter", "in Loop"}

LoopsAreUp ==
  /\ \A i \in DOMAIN loops_ : loops_[i] = Workers[i] /\ Constructed(Workers[i])
  /\ \A l \in Loops : to_do_list_[l] # <<>> \/ WakeUpPending(l) => Constructed(l)

(* The start comes to its end, however the threads are scheduled: no       *)
(* signal is lost between the test of loop_ or count_ and the wait.        *)
ServerStarts == <>(listening /\ \A l \in Loops : at[l] = "in Loop")
=============================================================================
