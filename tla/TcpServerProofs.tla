-------------------------- MODULE TcpServerProofs --------------------------
(***************************************************************************)
(* Theorems about TcpServer for any number of workers, clients and file    *)
(* descriptors: the raw Channel pointers always point to live connections, *)
(* every functor finds what it asserts, and the server implements          *)
(* ConnectionLife.                                                         *)
(***************************************************************************)
EXTENDS TcpServer, FiniteSetTheorems, SequenceTheorems, WellFoundedInduction, TLAPS

(* What runs inside a handler: its calls belong to the channel that is     *)
(* current, and a channel is on the list of active ones or current, of one *)
(* loop, only while it is in epoll there, or was until it closed itself.   *)
HandlerSays(l) ==
  /\ call[l] \in {"accept", "read", "write"} => pc[l] = "handler"
  /\ call[l] = "functor" => pc[l] = "functor"
  /\ call[l] = "accept" => current[l] = ListenChannel
  /\ call[l] \in {"read", "write"} => current[l] \in Conns
  /\ call[l] = "read" => ch_state[current[l]] = "kAdded"
  /\ current[l] \notin active_channels_[l]
  /\ current[l] \in Conns => loop_[current[l]] = l /\ ch_state[current[l]] # "kNew"
  /\ \A c \in active_channels_[l] \cap Conns : loop_[c] = l /\ ch_state[c] = "kAdded"
  /\ ListenChannel \in active_channels_[l] \/ call[l] = "accept" =>
       l = Base /\ accepted < connected

Handlers == \A l \in Loops : HandlerSays(l)

(* The functors of the vector that have still to run, or are running.      *)
ToRun(l) ==
  {i \in DOMAIN functors[l] : i > next_func[l] \/ (i = next_func[l] /\ call[l] = "functor")}

HandIsEmpty ==
  \A l \in Loops : pc[l] \notin {"run", "functor"} => functors[l] = <<>> /\ next_func[l] = 0

(* Of the functors on their way at most one is for a given connection.     *)
OneFunctor ==
  \A l, m \in Loops :
    /\ \A i \in ToRun(l), j \in ToRun(m) :
         functors[l][i].conn = functors[m][j].conn => l = m /\ i = j
    /\ \A i \in ToRun(l), j \in DOMAIN to_do_list_[m] :
         functors[l][i].conn # to_do_list_[m][j].conn
    /\ \A i \in DOMAIN to_do_list_[l], j \in DOMAIN to_do_list_[m] :
         to_do_list_[l][i].conn = to_do_list_[m][j].conn => l = m /\ i = j

(* What each functor on its way says about its connection.                 *)
FunctorSays(l, fn) ==
  /\ state_[fn.conn] = "kDisconnected"
  /\ fd_[fn.conn] # NoFd
  /\ fn.op = "Established" => /\ loop_[fn.conn] = l
                              /\ ch_state[fn.conn] = "kNew"
                              /\ connections_[fd_[fn.conn]] = fn.conn
  /\ fn.op = "CloseInLoop" => /\ l = Base
                              /\ ch_state[fn.conn] = "kDeleted"
                              /\ connections_[fd_[fn.conn]] = fn.conn
  /\ fn.op = "Destructor"  => /\ loop_[fn.conn] = l
                              /\ ch_state[fn.conn] = "kDeleted"

FunctorState == \A l \in Loops : \A fn \in OnItsWay(l) : FunctorSays(l, fn)

(* Each connection: a client not accepted has none; one that is up is in   *)
(* epoll and in connections_; one that has closed has a functor on its way *)
(* that keeps it alive.                                                    *)
ConnSays(c) ==
  /\ c > accepted => fd_[c] = NoFd
  /\ fd_[c] = NoFd => ch_state[c] = "kNew" /\ state_[c] = "kDisconnected"
  /\ fd_[c] # NoFd => loop_[c] \in Loops
  /\ state_[c] = "kConnected" <=> ch_state[c] = "kAdded"
  /\ ch_state[c] = "kAdded" => connections_[fd_[c]] = c /\ "IN" \in ch_events[c]
  /\ ch_state[c] = "kDeleted" => /\ ch_events[c] = {}
                                 /\ \E l \in Loops : \E fn \in OnItsWay(l) : fn.conn = c

ConnState == \A c \in Conns : ConnSays(c)

(* Where the tables have it: connections_, by descriptor, and channels_ of *)
(* each loop, which is exact.                                              *)
TablesSay(c) ==
  /\ \A f \in Fds : connections_[f] = c => fd_[c] = f
  /\ \A l \in Loops, f \in Fds :
       channels_[l][f] = c <=> loop_[c] = l /\ fd_[c] = f /\ ch_state[c] # "kNew"

Tables == \A c \in Conns : TablesSay(c)

(* No two live connections have one descriptor.                            *)
HoldsAlone(c) ==
  Alive(c) => fd_[c] # NoFd /\ \A d \in Conns : Alive(d) /\ fd_[c] = fd_[d] => c = d

OneHolder == \A c \in Conns : HoldsAlone(c)

ServerInv ==
  TypeOK /\ Handlers /\ HandIsEmpty /\ OneFunctor /\ FunctorState /\ ConnState /\ Tables /\ OneHolder

-----------------------------------------------------------------------------
(* Facts about the constants.                                              *)
LEMMA Constants ==
  /\ Base \in Loops /\ NoOne \notin Loops /\ NoOne \notin Channels
  /\ WakeupChannel \notin Channels /\ WakeupChannel # NoOne
  /\ Conns \subseteq Channels /\ ListenChannel \in Channels /\ ListenChannel \notin Conns
  /\ NoConn \notin Conns /\ NoFd \notin Fds
  /\ Conns \subseteq Nat /\ Fds \subseteq Nat
  BY TcpServerAssumption DEF Loops, Channels, Conns, Fds, ListenChannel, NoConn, NoFd

(* What any code of the server does to the loop it runs on.                *)
LoopTypes == EL!TypeOK

LEMMA PollTypes ==
  ASSUME LoopTypes, NEW l \in Loops, NEW S \in SUBSET (Channels \cup {WakeupChannel}),
         EL!Poll(l, S)
  PROVE  LoopTypes'
  BY DEF LoopTypes, EL!TypeOK, EL!Control, EL!Poll

LEMMA EventTypes ==
  ASSUME LoopTypes, NEW l \in Loops, NEW ch \in Channels, EL!HandleEvent(l, ch)
  PROVE  LoopTypes'
  BY Constants DEF LoopTypes, EL!TypeOK, EL!Control, EL!HandleEvent

LEMMA LoopStepTypes ==
  ASSUME LoopTypes, NEW l \in Loops, LoopStep(l) \/ EL!RunFunctor(l)
  PROVE  LoopTypes'
<1>1. CASE EL!HandleRead(l)
  BY <1>1 DEF LoopTypes, EL!TypeOK, EL!Control, EL!HandleRead
<1>2. CASE EL!SwapToDoList(l)
  BY <1>2 DEF LoopTypes, EL!TypeOK, EL!Control, EL!SwapToDoList
<1>3. CASE EL!EndToDoList(l)
  BY <1>3 DEF LoopTypes, EL!TypeOK, EL!Control, EL!EndToDoList
<1>4. CASE EL!WakeUp(l)
  BY <1>4 DEF LoopTypes, EL!TypeOK, EL!Control, EL!WakeUp
<1>5. CASE EL!EndHandler(l)
  BY <1>5 DEF LoopTypes, EL!TypeOK, EL!Control, EL!EndHandler
<1>6. CASE EL!EndFunctor(l)
  BY <1>6 DEF LoopTypes, EL!TypeOK, EL!Control, EL!EndFunctor
<1>7. CASE EL!RunFunctor(l)
  BY <1>7 DEF LoopTypes, EL!TypeOK, EL!Control, EL!RunFunctor
<1>. QED
  BY <1>1, <1>2, <1>3, <1>4, <1>5, <1>6, <1>7 DEF LoopStep

LEMMA QueueTypes ==
  ASSUME LoopTypes, NEW l \in Loops, NEW m \in Loops, NEW fn \in Funcs,
         EL!QueueOneFunc(l, m, fn)
  PROVE  LoopTypes'
  BY DEF LoopTypes, EL!TypeOK, EL!Control, EL!QueueOneFunc

LEMMA SameTypes == ASSUME LoopTypes, UNCHANGED elvars PROVE LoopTypes'
  BY DEF LoopTypes, EL!TypeOK, elvars

-----------------------------------------------------------------------------
(* The connection of a read or write handler, the functor that runs, and   *)
(* what accept has to do with.                                             *)
LEMMA FunctorTypes ==
  ASSUME EL!TypeOK, NEW l \in Loops
  PROVE  /\ \A i \in DOMAIN to_do_list_[l] : to_do_list_[l][i] \in Funcs
         /\ \A i \in DOMAIN functors[l] : functors[l][i] \in Funcs
         /\ DOMAIN to_do_list_[l] = 1 .. Len(to_do_list_[l])
         /\ DOMAIN functors[l] = 1 .. Len(functors[l])
         /\ Len(to_do_list_[l]) \in Nat /\ Len(functors[l]) \in Nat
         /\ next_func[l] \in Nat
<1>1. to_do_list_[l] \in Seq(Funcs) /\ functors[l] \in Seq(Funcs) /\ next_func[l] \in Nat
  BY DEF EL!TypeOK
<1>. QED
  BY <1>1, LenProperties, ElementOfSeq

LEMMA CurrentConn ==
  ASSUME ServerInv, NEW l \in Loops, call[l] \in {"read", "write"}
  PROVE  /\ current[l] \in Conns /\ fd_[current[l]] \in Fds
         /\ pc[l] = "handler" /\ loop_[current[l]] = l /\ ch_state[current[l]] # "kNew"
         /\ call[l] = "read" => ch_state[current[l]] = "kAdded"
<1>1. /\ current[l] \in Conns /\ pc[l] = "handler"
      /\ loop_[current[l]] = l /\ ch_state[current[l]] # "kNew"
      /\ call[l] = "read" => ch_state[current[l]] = "kAdded"
  BY DEF ServerInv, Handlers, HandlerSays
<1>2. fd_[current[l]] # NoFd
  BY <1>1 DEF ServerInv, ConnState, ConnSays
<1>3. fd_ \in [Conns -> Fds \cup {NoFd}]
  BY DEF ServerInv, TypeOK
<1>. QED
  BY <1>1, <1>2, <1>3

LEMMA RunningFunctor ==
  ASSUME ServerInv, NEW l \in Loops, call[l] = "functor"
  PROVE  /\ pc[l] = "functor" /\ current[l] = NoOne
         /\ next_func[l] \in ToRun(l)
         /\ Functor(l) \in Funcs /\ Functor(l) \in OnItsWay(l)
         /\ Functor(l).conn \in Conns /\ fd_[Functor(l).conn] \in Fds
<1>1. EL!TypeOK /\ pc[l] = "functor"
  BY DEF ServerInv, TypeOK, Handlers, HandlerSays
<1>2. /\ next_func[l] \in Nat /\ next_func[l] > 0 /\ next_func[l] <= Len(functors[l])
      /\ current[l] = NoOne
  BY <1>1, Constants DEF EL!TypeOK
<1>3. next_func[l] \in DOMAIN functors[l]
  BY <1>1, <1>2, FunctorTypes
<1>4. next_func[l] \in ToRun(l) /\ Functor(l) \in OnItsWay(l)
  BY <1>3 DEF ToRun, OnItsWay, Functor
<1>5. Functor(l) \in Funcs /\ Functor(l).conn \in Conns
  BY <1>1, <1>3, FunctorTypes DEF Functor, Funcs
<1>6. fd_[Functor(l).conn] # NoFd
  BY <1>4 DEF ServerInv, FunctorState, FunctorSays
<1>7. fd_ \in [Conns -> Fds \cup {NoFd}]
  BY DEF ServerInv, TypeOK
<1>. QED
  BY <1>1, <1>2, <1>4, <1>5, <1>6, <1>7

LEMMA LeastOfNaturals ==
  ASSUME NEW S \in SUBSET Nat, S # {} PROVE Min(S) \in S
<1> DEFINE R == {ss \in Nat \X Nat : ss[1] < ss[2]}
<1>1. IsWellFoundedOn(R, Nat)
  BY NatLessThanWellFounded DEF OpToRel
<1> HIDE DEF R
<1>2. PICK x \in S : \A y \in S : ~ (<<y, x>> \in R)
  BY <1>1, WFMin
<1>3. \A y \in S : x <= y
  <2>1. SUFFICES ASSUME NEW y \in S, y < x PROVE FALSE
    BY <1>2
  <2>2. <<y, x>> \in R
    BY <2>1 DEF R
  <2>. QED
    BY <1>2, <2>2
<1>. QED
  BY <1>2, <1>3 DEF Min

LEMMA NextLoopTypes ==
  ASSUME TypeOK
  PROVE  /\ NextLoop \in Loops
         /\ AfterNext \in Nat /\ (Workers # <<>> => AfterNext < Len(Workers))
<1>1. CASE Workers = <<>>
  BY <1>1, Constants DEF NextLoop, AfterNext, TypeOK
<1>2. CASE Workers # <<>>
  <2>1. Len(Workers) \in Nat \ {0} /\ Workers \in Seq(Loops)
    BY <1>2, TcpServerAssumption, EmptySeq
  <2>2. next_ \in Nat /\ next_ < Len(Workers)
    BY <1>2 DEF TypeOK
  <2>3. next_ + 1 \in 1 .. Len(Workers)
    BY <2>1, <2>2
  <2>4. Workers[next_ + 1] \in Loops
    BY <2>1, <2>3, ElementOfSeq
  <2>5. (next_ + 1) % Len(Workers) \in 0 .. (Len(Workers) - 1)
    BY <2>1, <2>2
  <2>. QED
    BY <1>2, <2>1, <2>4, <2>5 DEF NextLoop, AfterNext
<1>. QED
  BY <1>1, <1>2

LEMMA NewClient ==
  ASSUME ServerInv, Calls(Base, "accept"), FreeFds # {}
  PROVE  /\ accepted + 1 \in Conns /\ accepted < connected
         /\ fd_[accepted + 1] = NoFd
         /\ Min(FreeFds) \in Fds
         /\ \A c \in Conns : fd_[c] = Min(FreeFds) => ~ Alive(c)
         /\ pc[Base] = "handler" /\ current[Base] = ListenChannel /\ waking[Base] = NoOne
         /\ NextLoop \in Loops
<1>1. /\ pc[Base] = "handler" /\ current[Base] = ListenChannel /\ waking[Base] = NoOne
      /\ accepted < connected
  BY Constants DEF ServerInv, Handlers, HandlerSays, Calls
<1>2. accepted + 1 \in Conns /\ accepted + 1 > accepted
  BY <1>1, TcpServerAssumption DEF ServerInv, TypeOK, Conns
<1>3. fd_[accepted + 1] = NoFd
  BY <1>2 DEF ServerInv, ConnState, ConnSays
<1>4. FreeFds \in SUBSET Nat
  BY Constants DEF FreeFds
<1>5. Min(FreeFds) \in FreeFds
  BY <1>4, LeastOfNaturals
<1>. QED
  BY <1>1, <1>2, <1>3, <1>5, NextLoopTypes DEF FreeFds, ServerInv

-----------------------------------------------------------------------------
(* The types.                                                              *)
LEMMA UpdateTypes ==
  ASSUME TypeOK, NEW c \in Conns, NEW l \in Loops, NEW f \in Fds,
         NEW ev \in SUBSET {"IN", "OUT"}, Update(c, l, f, ev)
  PROVE  /\ ch_events' \in [Conns -> SUBSET {"IN", "OUT"}]
         /\ ch_state' \in [Conns -> {"kNew", "kAdded", "kDeleted"}]
         /\ channels_' \in [Loops -> [Fds -> Conns \cup {NoConn}]]
<1>1. ch_events' \in [Conns -> SUBSET {"IN", "OUT"}]
  BY DEF TypeOK, Update
<1>2. ch_state' \in [Conns -> {"kNew", "kAdded", "kDeleted"}]
  BY DEF TypeOK, Update
<1>3. channels_' \in [Loops -> [Fds -> Conns \cup {NoConn}]]
  BY DEF TypeOK, Update
<1>. QED
  BY <1>1, <1>2, <1>3

(* A step that changes neither clients nor connections nor tables.         *)
LEMMA LoopOnlyTypes ==
  ASSUME TypeOK, LoopTypes', call' \in [Loops -> Control],
         UNCHANGED <<clients, fd_, loop_, state_, ch_state, ch_events, tables>>,
         recv_events_' \in [Conns -> SUBSET {"IN", "OUT"}],
         \A l \in Loops : call'[l] # "none" => pc'[l] \in {"handler", "functor"}
  PROVE  TypeOK'
  BY DEF TypeOK, LoopTypes, clients, tables

LEMMA PollStepTypes ==
  ASSUME ServerInv, NEW l \in Loops, Poll(l) PROVE TypeOK'
<1>1. TypeOK /\ LoopTypes
  BY DEF ServerInv, TypeOK, LoopTypes
<1>2. /\ \E S \in SUBSET (Channels \cup {WakeupChannel}) : EL!Poll(l, S)
      /\ recv_events_' \in [Conns -> SUBSET {"IN", "OUT"}]
      /\ UNCHANGED <<call, clients, fd_, loop_, state_, ch_state, ch_events, tables>>
  <2>1. PICK W \in SUBSET {c \in Conns : Registered(l, c) /\ "OUT" \in ch_events[c]} :
          LET ready == ReadReady(l) \cup W
          IN /\ EL!Poll(l, ready
                   \cup (IF l = Base /\ accepted < connected THEN {ListenChannel} ELSE {})
                   \cup (IF wakeup_fd_[l] THEN {WakeupChannel} ELSE {}))
             /\ recv_events_' = [c \in Conns |->
                   IF c \in ready
                   THEN (IF c \in ReadReady(l) THEN {"IN"} ELSE {})
                          \cup (IF c \in W THEN {"OUT"} ELSE {})
                   ELSE recv_events_[c]]
             /\ UNCHANGED <<call, clients, fd_, loop_, state_, ch_state, ch_events, tables>>
    BY DEF Poll
  <2>2. ReadReady(l) \cup W
           \cup (IF l = Base /\ accepted < connected THEN {ListenChannel} ELSE {})
           \cup (IF wakeup_fd_[l] THEN {WakeupChannel} ELSE {})
          \in SUBSET (Channels \cup {WakeupChannel})
    BY Constants DEF ReadReady
  <2>3. recv_events_' \in [Conns -> SUBSET {"IN", "OUT"}]
    BY <2>1, <1>1 DEF TypeOK
  <2>. QED
    BY <2>1, <2>2, <2>3
<1>3. LoopTypes'
  BY <1>1, <1>2, PollTypes
<1>4. pc[l] = "poll" /\ pc' = [pc EXCEPT ![l] = "dispatch"] /\ pc \in [Loops -> EL!Control]
  BY <1>1, <1>2 DEF EL!Poll, TypeOK, EL!TypeOK
<1>5. call' \in [Loops -> Control]
  BY <1>1, <1>2 DEF TypeOK
<1>6. \A k \in Loops : call'[k] # "none" => pc'[k] \in {"handler", "functor"}
  BY <1>1, <1>2, <1>4 DEF TypeOK
<1>. QED
  BY <1>1, <1>2, <1>3, <1>5, <1>6, LoopOnlyTypes

LEMMA LoopTypesStep ==
  ASSUME ServerInv, NEW l \in Loops,
         (\E ch \in Channels : HandleEvent(l, ch)) \/ RunFunctor(l) \/ LoopStep(l)
  PROVE  TypeOK'
<1>0. TypeOK /\ LoopTypes /\ pc \in [Loops -> EL!Control] /\ call \in [Loops -> Control]
  BY DEF ServerInv, TypeOK, LoopTypes, EL!TypeOK
<1>1. CASE \E ch \in Channels : HandleEvent(l, ch)
  <2>1. PICK ch \in Channels : HandleEvent(l, ch)
    BY <1>1
  <2>2. LoopTypes'
    BY <2>1, <1>0, EventTypes DEF HandleEvent
  <2>3. PICK what \in {"accept", "read", "write"} :
          /\ call' = [call EXCEPT ![l] = what] /\ pc' = [pc EXCEPT ![l] = "handler"]
          /\ UNCHANGED <<clients, conns, tables>>
    BY <2>1 DEF HandleEvent, EL!HandleEvent
  <2>4. call' \in [Loops -> Control]
    BY <1>0, <2>3 DEF Control
  <2>5. \A k \in Loops : call'[k] # "none" => pc'[k] \in {"handler", "functor"}
    BY <1>0, <2>3 DEF TypeOK
  <2>6. /\ UNCHANGED <<clients, fd_, loop_, state_, ch_state, ch_events, tables>>
        /\ recv_events_' \in [Conns -> SUBSET {"IN", "OUT"}]
    BY <1>0, <2>3 DEF conns, TypeOK
  <2>. QED
    BY <1>0, <2>2, <2>4, <2>5, <2>6, LoopOnlyTypes
<1>2. CASE RunFunctor(l)
  <2>1. EL!RunFunctor(l)
    BY <1>2 DEF RunFunctor
  <2>2. LoopTypes'
    BY <2>1, <1>0, LoopStepTypes
  <2>3. /\ call' = [call EXCEPT ![l] = "functor"] /\ pc' = [pc EXCEPT ![l] = "functor"]
        /\ UNCHANGED <<clients, conns, tables>>
    BY <1>2 DEF RunFunctor, EL!RunFunctor
  <2>4. call' \in [Loops -> Control]
    BY <1>0, <2>3 DEF Control
  <2>5. \A k \in Loops : call'[k] # "none" => pc'[k] \in {"handler", "functor"}
    BY <1>0, <2>3 DEF TypeOK
  <2>6. /\ UNCHANGED <<clients, fd_, loop_, state_, ch_state, ch_events, tables>>
        /\ recv_events_' \in [Conns -> SUBSET {"IN", "OUT"}]
    BY <1>0, <2>3 DEF conns, TypeOK
  <2>. QED
    BY <1>0, <2>2, <2>4, <2>5, <2>6, LoopOnlyTypes
<1>3. CASE LoopStep(l)
  <2>1. LoopTypes'
    BY <1>3, <1>0, LoopStepTypes
  <2>2. UNCHANGED <<call, clients, conns, tables>>
    BY <1>3 DEF LoopStep
  <2>3. \A k \in Loops : call[k] # "none" => pc'[k] = pc[k]
    BY <1>0, <1>3 DEF LoopStep, TypeOK, EL!HandleRead, EL!SwapToDoList, EL!EndToDoList,
                      EL!WakeUp, EL!EndHandler, EL!EndFunctor
  <2>4. \A k \in Loops : call'[k] # "none" => pc'[k] \in {"handler", "functor"}
    BY <1>0, <2>2, <2>3 DEF TypeOK
  <2>5. /\ UNCHANGED <<clients, fd_, loop_, state_, ch_state, ch_events, tables>>
        /\ recv_events_' \in [Conns -> SUBSET {"IN", "OUT"}]
        /\ call' \in [Loops -> Control]
    BY <1>0, <2>2 DEF conns, TypeOK
  <2>. QED
    BY <1>0, <2>1, <2>4, <2>5, LoopOnlyTypes
<1>. QED
  BY <1>1, <1>2, <1>3

(* A handler or functor has run: its loop has nothing left to call, or     *)
(* HandleWrite.                                                            *)
LEMMA CallEnds ==
  ASSUME TypeOK, NEW l \in Loops, NEW to \in Control,
         to # "none" => pc[l] \in {"handler", "functor"}, Goto(l, to), UNCHANGED pc
  PROVE  /\ call' \in [Loops -> Control]
         /\ \A k \in Loops : call'[k] # "none" => pc'[k] \in {"handler", "functor"}
  BY DEF TypeOK, Goto

LEMMA ClientTypes == ASSUME TypeOK, Client PROVE TypeOK'
<1>0. LoopTypes /\ connected \in 0 .. MaxConn /\ accepted \in 0 .. connected /\ MaxConn \in Nat
  BY TcpServerAssumption DEF TypeOK, LoopTypes
<1>1. CASE Connect
  <2>1. connected' \in 0 .. MaxConn /\ accepted' \in 0 .. connected'
    BY <1>0, <1>1 DEF Connect
  <2>2. LoopTypes'
    BY <1>0, <1>1, SameTypes DEF Connect
  <2>3. UNCHANGED <<pc, call, peer, data, conns, tables>>
    BY <1>1 DEF Connect, elvars
  <2>. QED
    BY <2>1, <2>2, <2>3 DEF TypeOK, LoopTypes, conns, tables
<1>2. ASSUME NEW c \in Conns, SendData(c) \/ Hangup(c) PROVE TypeOK'
  <2>1. /\ data' \in [Conns -> BOOLEAN]
        /\ peer' \in [Conns -> {"open", "closed", "reset"}]
    <3>1. data \in [Conns -> BOOLEAN] /\ peer \in [Conns -> {"open", "closed", "reset"}]
      BY DEF TypeOK
    <3>2. CASE SendData(c)
      <4>1. data' = [data EXCEPT ![c] = TRUE] /\ peer' = peer
        BY <3>2 DEF SendData
      <4>. QED
        BY <3>1, <4>1
    <3>3. CASE Hangup(c)
      <4>1. data' = data
            /\ \E how \in {"closed", "reset"} : peer' = [peer EXCEPT ![c] = how]
        BY <3>3 DEF Hangup
      <4>. QED
        BY <3>1, <4>1
    <3>. QED
      BY <1>2, <3>2, <3>3
  <2>2. LoopTypes'
    BY <1>0, <1>2, SameTypes DEF SendData, Hangup
  <2>3. UNCHANGED <<pc, call, connected, accepted, conns, tables>>
    BY <1>2 DEF SendData, Hangup, elvars
  <2>. QED
    BY <2>1, <2>2, <2>3 DEF TypeOK, LoopTypes, conns, tables
<1>. QED
  BY <1>1, <1>2 DEF Client

LEMMA HandlerTypes ==
  ASSUME ServerInv, NEW l \in Loops,
         HandleMessage(l) \/ ReadError(l) \/ HandleClose(l) \/ HandleWrite(l)
  PROVE  TypeOK'
<1> DEFINE c == current[l]
<1>0. /\ TypeOK /\ LoopTypes
      /\ c \in Conns /\ fd_[c] \in Fds /\ pc[l] = "handler"
  BY CurrentConn DEF ServerInv, TypeOK, LoopTypes, HandleMessage, ReadError, HandleClose,
                     HandleWrite, Calls
<1>1. PICK to \in {"write", "none"} : Goto(l, to)
  BY DEF HandleMessage, ReadError, HandleClose, HandleWrite, AfterRead
<1>2. UNCHANGED pc
  BY DEF HandleMessage, ReadError, HandleClose, HandleWrite, elvars, EL!QueueOneFunc
<1>3. /\ call' \in [Loops -> Control]
      /\ \A k \in Loops : call'[k] # "none" => pc'[k] \in {"handler", "functor"}
  BY <1>0, <1>1, <1>2, CallEnds DEF Control
<1>4. LoopTypes'
  <2>1. CASE HandleClose(l)
    <3>1. [op |-> "CloseInLoop", conn |-> c] \in Funcs
      BY <1>0 DEF Funcs
    <3>. QED
      BY <1>0, <2>1, <3>1, Constants, QueueTypes DEF HandleClose
  <2>2. CASE HandleMessage(l) \/ ReadError(l) \/ HandleWrite(l)
    BY <1>0, <2>2, SameTypes DEF HandleMessage, ReadError, HandleWrite
  <2>. QED
    BY <2>1, <2>2
<1>5. ch_events[c] \in SUBSET {"IN", "OUT"}
  BY <1>0 DEF TypeOK
<1>6. /\ ch_events' \in [Conns -> SUBSET {"IN", "OUT"}]
      /\ ch_state' \in [Conns -> {"kNew", "kAdded", "kDeleted"}]
      /\ channels_' \in [Loops -> [Fds -> Conns \cup {NoConn}]]
  <2>1. \/ UNCHANGED <<ch_events, ch_state, channels_>>
        \/ \E ev \in SUBSET {"IN", "OUT"} : Update(c, l, fd_[c], ev)
    BY <1>5 DEF HandleMessage, ReadError, HandleClose, HandleWrite, conns, tables
  <2>2. CASE UNCHANGED <<ch_events, ch_state, channels_>>
    BY <1>0, <2>2 DEF TypeOK
  <2>3. CASE \E ev \in SUBSET {"IN", "OUT"} : Update(c, l, fd_[c], ev)
    BY <1>0, <2>3, UpdateTypes
  <2>. QED
    BY <2>1, <2>2, <2>3
<1>7. state_' \in [Conns -> {"kConnected", "kDisconnected"}]
  BY <1>0 DEF TypeOK, HandleMessage, ReadError, HandleClose, HandleWrite, conns
<1>8. peer' \in [Conns -> {"open", "closed", "reset"}]
  BY <1>0 DEF TypeOK, HandleMessage, ReadError, HandleClose, HandleWrite, clients
<1>9. data' \in [Conns -> BOOLEAN]
  <2>1. data \in [Conns -> BOOLEAN]
    BY <1>0 DEF TypeOK
  <2>2. data' = [data EXCEPT ![c] = FALSE] \/ data' = data
    BY DEF HandleMessage, ReadError, HandleClose, HandleWrite, clients
  <2>. QED
    BY <2>1, <2>2
<1>10. UNCHANGED <<connected, accepted, fd_, loop_, recv_events_, connections_, next_>>
  BY DEF HandleMessage, ReadError, HandleClose, HandleWrite, clients, conns, tables
<1>. QED
  BY <1>0, <1>3, <1>4, <1>6, <1>7, <1>8, <1>9, <1>10 DEF TypeOK, LoopTypes

LEMMA FunctorBodyTypes ==
  ASSUME ServerInv, NEW l \in Loops,
         ConnectionEstablished(l) \/ HandleCloseInLoop(l) \/ ConnectionDestructor(l)
  PROVE  TypeOK'
<1> DEFINE c == Functor(l).conn
<1>0. /\ TypeOK /\ LoopTypes
      /\ Functor(l) \in OnItsWay(l) /\ c \in Conns /\ fd_[c] \in Fds /\ pc[l] = "functor"
  BY RunningFunctor DEF ServerInv, TypeOK, LoopTypes, ConnectionEstablished, HandleCloseInLoop,
                        ConnectionDestructor, Runs, Calls
<1>1. Goto(l, "none") /\ UNCHANGED pc
  BY DEF ConnectionEstablished, HandleCloseInLoop, ConnectionDestructor, elvars, EL!QueueOneFunc
<1>2. /\ call' \in [Loops -> Control]
      /\ \A k \in Loops : call'[k] # "none" => pc'[k] \in {"handler", "functor"}
  BY <1>0, <1>1, CallEnds DEF Control
<1>3. loop_[c] \in Loops
  BY <1>0, Constants DEF ServerInv, ConnState, ConnSays
<1>4. CASE ConnectionEstablished(l)
  <2>1. LoopTypes'
    BY <1>0, <1>4, SameTypes DEF ConnectionEstablished
  <2>2. Established(c, l, fd_[c])
    BY <1>4 DEF ConnectionEstablished
  <2>3. ch_events[c] \cup {"IN"} \in SUBSET {"IN", "OUT"}
    BY <1>0 DEF TypeOK
  <2>4. /\ ch_events' \in [Conns -> SUBSET {"IN", "OUT"}]
        /\ ch_state' \in [Conns -> {"kNew", "kAdded", "kDeleted"}]
        /\ channels_' \in [Loops -> [Fds -> Conns \cup {NoConn}]]
    BY <1>0, <2>2, <2>3, UpdateTypes DEF Established
  <2>5. state_' \in [Conns -> {"kConnected", "kDisconnected"}]
    BY <1>0, <2>2 DEF Established, TypeOK
  <2>6. UNCHANGED <<clients, fd_, loop_, recv_events_, connections_, next_>>
    BY <1>4 DEF ConnectionEstablished
  <2>. QED
    BY <1>0, <1>2, <2>1, <2>4, <2>5, <2>6 DEF TypeOK, LoopTypes, clients
<1>5. CASE HandleCloseInLoop(l)
  <2>1. [op |-> "Destructor", conn |-> c] \in Funcs
    BY <1>0 DEF Funcs
  <2>2. LoopTypes'
    BY <1>0, <1>3, <1>5, <2>1, QueueTypes DEF HandleCloseInLoop
  <2>3. connections_' = [connections_ EXCEPT ![fd_[c]] = NoConn]
    BY <1>5 DEF HandleCloseInLoop
  <2>4. connections_' \in [Fds -> Conns \cup {NoConn}]
    BY <1>0, <2>3 DEF TypeOK
  <2>5. UNCHANGED <<clients, conns, channels_, next_>>
    BY <1>5 DEF HandleCloseInLoop
  <2>. QED
    BY <1>0, <1>2, <2>2, <2>4, <2>5 DEF TypeOK, LoopTypes, clients, conns
<1>6. CASE ConnectionDestructor(l)
  <2>1. LoopTypes'
    BY <1>0, <1>6, SameTypes DEF ConnectionDestructor
  <2>2. /\ ch_state' = [ch_state EXCEPT ![c] = "kNew"]
        /\ channels_' = [channels_ EXCEPT ![loop_[c]][fd_[c]] = NoConn]
    BY <1>6 DEF ConnectionDestructor, Remove
  <2>3. /\ ch_state' \in [Conns -> {"kNew", "kAdded", "kDeleted"}]
        /\ channels_' \in [Loops -> [Fds -> Conns \cup {NoConn}]]
    BY <1>0, <1>3, <2>2 DEF TypeOK
  <2>4. /\ state_' \in [Conns -> {"kConnected", "kDisconnected"}]
        /\ ch_events' \in [Conns -> SUBSET {"IN", "OUT"}]
    BY <1>0, <1>6, SMTT(20) DEF ConnectionDestructor, TypeOK
  <2>5. UNCHANGED <<clients, fd_, loop_, recv_events_, connections_, next_>>
    BY <1>6 DEF ConnectionDestructor
  <2>. QED
    BY <1>0, <1>2, <2>1, <2>3, <2>4, <2>5 DEF TypeOK, LoopTypes, clients
<1>. QED
  BY <1>4, <1>5, <1>6

LEMMA AcceptTypes ==
  ASSUME ServerInv, NewConnection \/ RefuseConnection PROVE TypeOK'
<1>0. /\ TypeOK /\ LoopTypes /\ Base \in Loops /\ accepted < connected
      /\ connected \in 0 .. MaxConn /\ accepted \in 0 .. connected /\ MaxConn \in Nat
  BY Constants, TcpServerAssumption
     DEF ServerInv, Handlers, HandlerSays, TypeOK, LoopTypes, NewConnection, RefuseConnection, Calls
<1>1. Goto(Base, "none") /\ UNCHANGED <<pc, connected>> /\ accepted' = accepted + 1
  BY DEF NewConnection, RefuseConnection, elvars, EL!RunOneFunc, EL!QueueOneFunc, EL!vars
<1>2. /\ call' \in [Loops -> Control]
      /\ \A k \in Loops : call'[k] # "none" => pc'[k] \in {"handler", "functor"}
  BY <1>0, <1>1, CallEnds DEF Control
<1>3. accepted' \in 0 .. connected
  BY <1>0, <1>1
<1>4. CASE RefuseConnection
  <2>1. LoopTypes'
    BY <1>0, <1>4, SameTypes DEF RefuseConnection
  <2>2. UNCHANGED <<connected, peer, data, conns, tables>>
    BY <1>4 DEF RefuseConnection
  <2>. QED
    BY <1>0, <1>2, <1>3, <2>1, <2>2 DEF TypeOK, LoopTypes, conns, tables
<1>5. CASE NewConnection
  <2> DEFINE c == accepted + 1
             f == Min(FreeFds)
             l == NextLoop
             fn == [op |-> "Established", conn |-> c]
  <2>0. /\ fd_' = [fd_ EXCEPT ![c] = f] /\ loop_' = [loop_ EXCEPT ![c] = l]
        /\ connections_' = [connections_ EXCEPT ![f] = c] /\ next_' = AfterNext
        /\ EL!RunOneFunc(Base, l, fn)
        /\ IF l = Base THEN Established(c, l, f)
                       ELSE UNCHANGED <<state_, ch_state, ch_events, channels_>>
        /\ UNCHANGED <<connected, peer, data, recv_events_>>
    BY <1>5 DEF NewConnection
  <2>1. c \in Conns /\ f \in Fds /\ l \in Loops
    BY <1>5, NewClient DEF NewConnection
  <2>2. next_' \in Nat /\ (Workers # <<>> => next_' < Len(Workers))
    BY <1>0, <2>0, NextLoopTypes
  <2> HIDE DEF c, f, l
  <2>3. fn \in Funcs
    BY <2>1 DEF Funcs
  <2>4. LoopTypes'
    <3>1. CASE EL!QueueOneFunc(Base, l, fn)
      BY <1>0, <2>1, <2>3, <3>1, QueueTypes
    <3>2. CASE UNCHANGED EL!vars
      BY <1>0, <3>2, SameTypes DEF EL!vars, elvars
    <3>. QED
      BY <2>0, <3>1, <3>2 DEF EL!RunOneFunc
  <2>5. /\ ch_events' \in [Conns -> SUBSET {"IN", "OUT"}]
        /\ ch_state' \in [Conns -> {"kNew", "kAdded", "kDeleted"}]
        /\ channels_' \in [Loops -> [Fds -> Conns \cup {NoConn}]]
        /\ state_' \in [Conns -> {"kConnected", "kDisconnected"}]
    <3>1. CASE l = Base
      <4>1. Established(c, l, f)
        BY <2>0, <3>1
      <4>2. ch_events[c] \cup {"IN"} \in SUBSET {"IN", "OUT"}
        BY <1>0, <2>1 DEF TypeOK
      <4>3. state_' \in [Conns -> {"kConnected", "kDisconnected"}]
        BY <1>0, <4>1 DEF Established, TypeOK
      <4>. QED
        BY <1>0, <2>1, <4>1, <4>2, <4>3, UpdateTypes DEF Established
    <3>2. CASE l # Base
      BY <1>0, <2>0, <3>2 DEF TypeOK
    <3>. QED
      BY <3>1, <3>2
  <2>6. /\ fd_' \in [Conns -> Fds \cup {NoFd}]
        /\ loop_' \in [Conns -> Loops \cup {NoOne}]
        /\ connections_' \in [Fds -> Conns \cup {NoConn}]
    BY <1>0, <2>0, <2>1 DEF TypeOK
  <2>. QED
    BY <1>0, <1>1, <1>2, <1>3, <2>0, <2>2, <2>4, <2>5, <2>6 DEF TypeOK, LoopTypes
<1>. QED
  BY <1>4, <1>5

LEMMA TypesStep == ASSUME ServerInv, [Next]_vars PROVE TypeOK'
<1>1. CASE UNCHANGED vars
  BY <1>1 DEF ServerInv, TypeOK, EL!TypeOK, vars, elvars, clients, conns, tables
<1>2. CASE Client
  BY <1>2, ClientTypes DEF ServerInv
<1>3. ASSUME NEW l \in Loops, ThreadStep(l) PROVE TypeOK'
  BY <1>3, PollStepTypes, LoopTypesStep, HandlerTypes, FunctorBodyTypes, AcceptTypes
     DEF ThreadStep
<1>. QED
  BY <1>1, <1>2, <1>3 DEF Next

-----------------------------------------------------------------------------
(* The functors of a loop under what a step may do with them.              *)
LEMMA OnItsWayElements ==
  ASSUME NEW l, NEW fn
  PROVE  fn \in OnItsWay(l) <=> \/ \E i \in DOMAIN to_do_list_[l] : to_do_list_[l][i] = fn
                                \/ \E i \in ToRun(l) : functors[l][i] = fn
  BY DEF OnItsWay, ToRun

(* Nothing is queued, started for good or dropped.                         *)
QueuesAlone ==
  /\ UNCHANGED <<to_do_list_, functors>>
  /\ \A l \in Loops : ToRun(l)' = ToRun(l)

LEMMA AloneKeepsFunctors ==
  ASSUME OneFunctor, QueuesAlone
  PROVE  OneFunctor' /\ \A l \in Loops : OnItsWay(l)' = OnItsWay(l)
<1>1. OneFunctor'
  BY DEF OneFunctor, QueuesAlone
<1>2. ASSUME NEW l \in Loops PROVE OnItsWay(l)' = OnItsWay(l)
  <2>1. OnItsWay(l) = {to_do_list_[l][i] : i \in DOMAIN to_do_list_[l]}
                        \cup {functors[l][i] : i \in ToRun(l)}
    BY DEF OnItsWay, ToRun
  <2>2. OnItsWay(l)' = {to_do_list_'[l][i] : i \in DOMAIN to_do_list_'[l]}
                        \cup {functors'[l][i] : i \in ToRun(l)'}
    BY DEF OnItsWay, ToRun
  <2>. QED
    BY <2>1, <2>2 DEF QueuesAlone
<1>. QED
  BY <1>1, <1>2

LEMMA AloneKeepsAlive ==
  ASSUME QueuesAlone, UNCHANGED connections_, NEW c PROVE Alive(c)' = Alive(c)
  BY DEF QueuesAlone, Alive, Refers

(* A functor is pushed whose connection has no other on its way.           *)
LEMMA PushedFunctor ==
  ASSUME TypeOK, OneFunctor, NEW m \in Loops, NEW fn \in Funcs,
         to_do_list_' = [to_do_list_ EXCEPT ![m] = Append(@, fn)], UNCHANGED functors,
         \A l \in Loops : /\ ToRun(l)' \subseteq ToRun(l)
                          /\ \A i \in ToRun(l)' : functors[l][i].conn # fn.conn
                          /\ \A i \in DOMAIN to_do_list_[l] : to_do_list_[l][i].conn # fn.conn
  PROVE  OneFunctor'
<1>1. /\ to_do_list_ \in [Loops -> Seq(Funcs)]
      /\ \A l \in Loops : /\ Len(to_do_list_[l]) \in Nat
                          /\ DOMAIN to_do_list_[l] = 1 .. Len(to_do_list_[l])
  BY FunctorTypes DEF TypeOK, EL!TypeOK
<1>2. /\ \A l \in Loops \ {m} : to_do_list_'[l] = to_do_list_[l]
      /\ to_do_list_'[m] = Append(to_do_list_[m], fn)
  BY <1>1
<1>3. /\ DOMAIN to_do_list_'[m] = 1 .. (Len(to_do_list_[m]) + 1)
      /\ \A i \in DOMAIN to_do_list_[m] : to_do_list_'[m][i] = to_do_list_[m][i]
      /\ to_do_list_'[m][Len(to_do_list_[m]) + 1] = fn
  BY <1>1, <1>2
<1>4. \A l \in Loops : \A i \in DOMAIN to_do_list_'[l] :
        \/ i \in DOMAIN to_do_list_[l] /\ to_do_list_'[l][i] = to_do_list_[l][i]
        \/ l = m /\ i = Len(to_do_list_[m]) + 1 /\ to_do_list_'[l][i] = fn
  BY <1>1, <1>2, <1>3
<1>. QED
  BY <1>4 DEF OneFunctor

LEMMA PushedView ==
  ASSUME TypeOK, NEW m \in Loops, NEW fn \in Funcs,
         to_do_list_' = [to_do_list_ EXCEPT ![m] = Append(@, fn)]
  PROVE  /\ \A l \in Loops \ {m} : to_do_list_'[l] = to_do_list_[l]
         /\ {to_do_list_'[m][i] : i \in DOMAIN to_do_list_'[m]}
              = {to_do_list_[m][i] : i \in DOMAIN to_do_list_[m]} \cup {fn}
         /\ \A l \in Loops : \A c \in Conns : Refers(to_do_list_[l], c)' <=>
                                  (Refers(to_do_list_[l], c) \/ (l = m /\ fn.conn = c))
<1>1. /\ to_do_list_ \in [Loops -> Seq(Funcs)]
      /\ \A l \in Loops : /\ Len(to_do_list_[l]) \in Nat
                          /\ DOMAIN to_do_list_[l] = 1 .. Len(to_do_list_[l])
  BY FunctorTypes DEF TypeOK, EL!TypeOK
<1>2. /\ \A l \in Loops \ {m} : to_do_list_'[l] = to_do_list_[l]
      /\ to_do_list_'[m] = Append(to_do_list_[m], fn)
  BY <1>1
<1>3. /\ DOMAIN to_do_list_'[m] = DOMAIN to_do_list_[m] \cup {Len(to_do_list_[m]) + 1}
      /\ \A i \in DOMAIN to_do_list_[m] : to_do_list_'[m][i] = to_do_list_[m][i]
      /\ to_do_list_'[m][Len(to_do_list_[m]) + 1] = fn
  BY <1>1, <1>2
<1>4. {to_do_list_'[m][i] : i \in DOMAIN to_do_list_'[m]}
         = {to_do_list_[m][i] : i \in DOMAIN to_do_list_[m]} \cup {fn}
  BY <1>3
<1>5. ASSUME NEW l \in Loops, NEW c \in Conns
      PROVE  Refers(to_do_list_[l], c)' <=> (Refers(to_do_list_[l], c) \/ (l = m /\ fn.conn = c))
  BY <1>2, <1>3 DEF Refers
<1>. QED
  BY <1>2, <1>4, <1>5

(* The functor that runs has done its part: it is no longer on its way,    *)
(* and neither is another for its connection.                              *)
FunctorDone(l) ==
  /\ call[l] = "functor"
  /\ Goto(l, "none")
  /\ UNCHANGED <<functors, next_func>>

LEMMA DoneView ==
  ASSUME ServerInv, NEW l \in Loops, FunctorDone(l)
  PROVE  /\ ToRun(l)' = ToRun(l) \ {next_func[l]} /\ next_func[l] \in ToRun(l)
         /\ \A k \in Loops \ {l} : ToRun(k)' = ToRun(k)
         /\ \A k \in Loops : /\ \A i \in ToRun(k)' : functors[k][i].conn # Functor(l).conn
                             /\ \A i \in DOMAIN to_do_list_[k] :
                                  to_do_list_[k][i].conn # Functor(l).conn
<1>1. /\ call \in [Loops -> Control] /\ next_func[l] \in ToRun(l)
      /\ Functor(l) = functors[l][next_func[l]]
  BY RunningFunctor DEF ServerInv, TypeOK, FunctorDone, Functor
<1>2. ToRun(l)' = ToRun(l) \ {next_func[l]}
  <2>1. /\ DOMAIN functors[l] \subseteq Nat /\ next_func[l] \in Nat
        /\ call'[l] = "none" /\ call[l] = "functor"
        /\ UNCHANGED <<functors, next_func>>
    BY <1>1, FunctorTypes DEF ServerInv, TypeOK, FunctorDone, Goto
  <2>. QED
    BY <2>1 DEF ToRun
<1>3. \A k \in Loops \ {l} : ToRun(k)' = ToRun(k)
  BY <1>1 DEF ToRun, FunctorDone, Goto
<1>4. ASSUME NEW k \in Loops, NEW i \in ToRun(k)' PROVE functors[k][i].conn # Functor(l).conn
  <2>1. i \in ToRun(k) /\ ~ (k = l /\ i = next_func[l])
    BY <1>2, <1>3
  <2>. QED
    BY <1>1, <2>1 DEF ServerInv, OneFunctor
<1>5. \A k \in Loops : \A i \in DOMAIN to_do_list_[k] :
        to_do_list_[k][i].conn # Functor(l).conn
  BY <1>1 DEF ServerInv, OneFunctor
<1>. QED
  BY <1>1, <1>2, <1>3, <1>4, <1>5

-----------------------------------------------------------------------------
(* The connections under a step that concerns none of them, and under one  *)
(* that concerns only c.                                                   *)
Later == accepted \in Nat /\ accepted' \in Nat /\ accepted <= accepted'

LEMMA QuietConnections ==
  ASSUME ServerInv, Later,
         UNCHANGED <<fd_, loop_, state_, ch_state, connections_, channels_>>,
         \A l \in Loops : OnItsWay(l)' = OnItsWay(l),
         \A c \in Conns : Alive(c)' => Alive(c),
         \A c \in Conns : /\ ch_state[c] = "kAdded" => "IN" \in ch_events'[c]
                          /\ ch_state[c] = "kDeleted" => ch_events'[c] = ch_events[c]
  PROVE  FunctorState' /\ ConnState' /\ Tables' /\ OneHolder'
<1>1. FunctorState'
  BY DEF ServerInv, FunctorState, FunctorSays
<1>2. ASSUME NEW c \in Conns PROVE ConnSays(c)'
  <2>1. ConnSays(c) /\ c \in Nat
    BY Constants DEF ServerInv, ConnState
  <2>. QED
    BY <2>1 DEF ConnSays, Later
<1>3. Tables'
  BY DEF ServerInv, Tables, TablesSay
<1>4. ASSUME NEW c \in Conns PROVE HoldsAlone(c)'
  <2>1. HoldsAlone(c)
    BY DEF ServerInv, OneHolder
  <2>. QED
    BY <2>1 DEF HoldsAlone
<1>. QED
  BY <1>1, <1>2, <1>3, <1>4 DEF ConnState, OneHolder

OthersKept(c) ==
  \A d \in Conns \ {c} :
    /\ fd_'[d] = fd_[d] /\ loop_'[d] = loop_[d] /\ state_'[d] = state_[d]
    /\ ch_state'[d] = ch_state[d] /\ ch_events'[d] = ch_events[d]
    /\ \A f \in Fds : connections_'[f] = d <=> connections_[f] = d
    /\ \A l \in Loops, f \in Fds : channels_'[l][f] = d <=> channels_[l][f] = d
    /\ Alive(d)' => Alive(d)

FunctorsKept(c) ==
  \A l \in Loops, fn \in Funcs :
    fn.conn # c => (fn \in OnItsWay(l)' <=> fn \in OnItsWay(l))

LEMMA WayTypes ==
  ASSUME TypeOK, NEW l \in Loops PROVE OnItsWay(l) \subseteq Funcs
  BY FunctorTypes DEF TypeOK, OnItsWay

LEMMA OneConnection ==
  ASSUME ServerInv, TypeOK', Later, NEW c \in Conns, OthersKept(c), FunctorsKept(c),
         \A l \in Loops : \A fn \in OnItsWay(l)' : fn.conn = c => FunctorSays(l, fn)',
         ConnSays(c)', TablesSay(c)', HoldsAlone(c)'
  PROVE  FunctorState' /\ ConnState' /\ Tables' /\ OneHolder'
<1>0. /\ fd_ \in [Conns -> Fds \cup {NoFd}] /\ TypeOK
      /\ \A l \in Loops : OnItsWay(l) \subseteq Funcs
      /\ \A fn \in Funcs : fn.conn \in Conns
  BY WayTypes DEF ServerInv, TypeOK, Funcs
<1>00. \A l \in Loops : OnItsWay(l)' \subseteq Funcs
  BY WayTypes, FunctorTypes, SMTT(20) DEF TypeOK, EL!TypeOK, OnItsWay
<1>1. ASSUME NEW l \in Loops, NEW fn \in OnItsWay(l)' PROVE FunctorSays(l, fn)'
  <2>1. CASE fn.conn = c
    BY <2>1
  <2>2. CASE fn.conn # c
    <3>1. fn \in OnItsWay(l) /\ fn.conn \in Conns \ {c}
      BY <1>0, <1>00, <2>2 DEF FunctorsKept
    <3>2. FunctorSays(l, fn)
      BY <3>1 DEF ServerInv, FunctorState
    <3>. QED
      BY <1>0, <3>1, <3>2 DEF FunctorSays, OthersKept
  <2>. QED
    BY <2>1, <2>2
<1>2. ASSUME NEW d \in Conns PROVE ConnSays(d)'
  <2>1. CASE d = c
    BY <2>1
  <2>2. CASE d # c
    <3>1. ConnSays(d) /\ d \in Nat
      BY Constants DEF ServerInv, ConnState
    <3>2. (\E l \in Loops : \E fn \in OnItsWay(l) : fn.conn = d)
            => \E l \in Loops : \E fn \in OnItsWay(l)' : fn.conn = d
      BY <1>0, <2>2 DEF FunctorsKept
    <3>. QED
      BY <1>0, <2>2, <3>1, <3>2 DEF ConnSays, OthersKept, Later
  <2>. QED
    BY <2>1, <2>2
<1>3. ASSUME NEW d \in Conns PROVE TablesSay(d)'
  <2>1. CASE d = c
    BY <2>1
  <2>2. CASE d # c
    BY <2>2 DEF ServerInv, Tables, TablesSay, OthersKept
  <2>. QED
    BY <2>1, <2>2
<1>4. ASSUME NEW d \in Conns PROVE HoldsAlone(d)'
  <2>1. CASE d = c
    BY <2>1
  <2>2. CASE d # c
    <3>1. HoldsAlone(d)
      BY DEF ServerInv, OneHolder
    <3>. QED
      BY <2>2, <3>1 DEF HoldsAlone, OthersKept
  <2>. QED
    BY <2>1, <2>2
<1>. QED
  BY <1>1, <1>2, <1>3, <1>4 DEF FunctorState, ConnState, Tables, OneHolder

(* accepted only counts up.                                                *)
LEMMA LaterStep == ASSUME ServerInv, TypeOK', accepted' \in {accepted, accepted + 1} PROVE Later
  BY TcpServerAssumption DEF ServerInv, TypeOK, Later

-----------------------------------------------------------------------------
(* The functors under the steps of the loops.                              *)
LEMMA HandKept ==
  ASSUME HandIsEmpty, UNCHANGED <<functors, next_func>>,
         \A l \in Loops : pc'[l] \notin {"run", "functor"} => pc[l] \notin {"run", "functor"}
  PROVE  HandIsEmpty'
  BY DEF HandIsEmpty

LEMMA QuietQueues ==
  ASSUME OneFunctor, UNCHANGED <<to_do_list_, functors, next_func, connections_>>,
         \A l \in Loops : call[l] = "functor" <=> call'[l] = "functor"
  PROVE  /\ OneFunctor' /\ QueuesAlone
         /\ \A l \in Loops : OnItsWay(l)' = OnItsWay(l)
         /\ \A c \in Conns : Alive(c)' => Alive(c)
<1>1. QueuesAlone
  BY DEF QueuesAlone, ToRun
<1>. QED
  BY <1>1, AloneKeepsFunctors, AloneKeepsAlive

LEMMA SwapQueues ==
  ASSUME ServerInv, NEW l \in Loops, EL!SwapToDoList(l), UNCHANGED <<call, connections_>>
  PROVE  /\ OneFunctor' /\ HandIsEmpty'
         /\ \A k \in Loops : OnItsWay(k)' = OnItsWay(k)
         /\ \A c \in Conns : Alive(c)' => Alive(c)
<1>1. /\ functors \in [Loops -> Seq(Funcs)] /\ to_do_list_ \in [Loops -> Seq(Funcs)]
      /\ next_func \in [Loops -> Nat] /\ pc \in [Loops -> EL!Control]
      /\ pc[l] = "dispatch" /\ call[l] = "none"
  BY DEF ServerInv, TypeOK, EL!TypeOK, EL!SwapToDoList
<1>2. functors[l] = <<>> /\ next_func[l] = 0
  BY <1>1 DEF ServerInv, HandIsEmpty
<1>3. /\ functors'[l] = to_do_list_[l] /\ to_do_list_'[l] = <<>> /\ next_func'[l] = 0
      /\ \A k \in Loops \ {l} : /\ functors'[k] = functors[k] /\ next_func'[k] = next_func[k]
                                /\ to_do_list_'[k] = to_do_list_[k] /\ pc'[k] = pc[k]
      /\ pc'[l] = "run"
  BY <1>1 DEF EL!SwapToDoList
<1>4. DOMAIN to_do_list_[l] = 1 .. Len(to_do_list_[l]) /\ Len(to_do_list_[l]) \in Nat
  BY <1>1, LenProperties
<1>5. /\ ToRun(l) = {} /\ ToRun(l)' = DOMAIN to_do_list_[l]
      /\ DOMAIN to_do_list_'[l] = {}
  <2>1. DOMAIN functors[l] = {} /\ DOMAIN to_do_list_'[l] = {}
    BY <1>2, <1>3
  <2>. QED
    BY <1>1, <1>2, <1>3, <1>4, <2>1 DEF ToRun
<1>6. \A k \in Loops \ {l} : ToRun(k)' = ToRun(k)
  BY <1>3 DEF ToRun
<1>7. OneFunctor'
  <2>1. OneFunctor
    BY DEF ServerInv
  <2>2. ASSUME NEW k \in Loops, NEW m \in Loops, NEW i \in ToRun(k)', NEW j \in ToRun(m)',
               functors'[k][i].conn = functors'[m][j].conn
        PROVE  k = m /\ i = j
    BY <1>3, <1>5, <1>6, <2>1, <2>2 DEF OneFunctor
  <2>3. ASSUME NEW k \in Loops, NEW m \in Loops, NEW i \in ToRun(k)', NEW j \in DOMAIN to_do_list_'[m]
        PROVE  functors'[k][i].conn # to_do_list_'[m][j].conn
    <3>1. m # l
      BY <1>5
    <3>. QED
      BY <1>3, <1>5, <1>6, <2>1, <3>1 DEF OneFunctor
  <2>4. ASSUME NEW k \in Loops, NEW m \in Loops, NEW i \in DOMAIN to_do_list_'[k],
               NEW j \in DOMAIN to_do_list_'[m], to_do_list_'[k][i].conn = to_do_list_'[m][j].conn
        PROVE  k = m /\ i = j
    BY <1>3, <1>5, <2>1, <2>4 DEF OneFunctor
  <2>. QED
    BY <2>2, <2>3, <2>4 DEF OneFunctor
<1>8. ASSUME NEW k \in Loops PROVE OnItsWay(k)' = OnItsWay(k)
  <2>1. OnItsWay(k) = {to_do_list_[k][i] : i \in DOMAIN to_do_list_[k]}
                        \cup {functors[k][i] : i \in ToRun(k)}
    BY DEF OnItsWay, ToRun
  <2>2. OnItsWay(k)' = {to_do_list_'[k][i] : i \in DOMAIN to_do_list_'[k]}
                        \cup {functors'[k][i] : i \in ToRun(k)'}
    BY DEF OnItsWay, ToRun
  <2>. QED
    BY <1>3, <1>5, <1>6, <2>1, <2>2
<1>9. ASSUME NEW c \in Conns, Alive(c)' PROVE Alive(c)
  <2>1. ASSUME NEW k \in Loops, Refers(to_do_list_[k], c)' \/ Refers(functors[k], c)' PROVE Alive(c)
    <3>1. CASE k = l
      BY <1>3, <1>5, <2>1, <3>1 DEF Alive, Refers
    <3>2. CASE k # l
      BY <1>3, <2>1, <3>2 DEF Alive, Refers
    <3>. QED
      BY <3>1, <3>2
  <2>2. \/ \E f \in Fds : connections_[f] = c
        \/ \E k \in Loops : Refers(to_do_list_[k], c)' \/ Refers(functors[k], c)'
    BY <1>9 DEF Alive
  <2>. QED
    BY <2>1, <2>2 DEF Alive
<1>10. HandIsEmpty'
  BY <1>3 DEF ServerInv, HandIsEmpty
<1>. QED
  BY <1>7, <1>8, <1>9, <1>10

LEMMA DropQueues ==
  ASSUME ServerInv, NEW l \in Loops, EL!EndToDoList(l), UNCHANGED <<call, connections_>>
  PROVE  /\ OneFunctor' /\ HandIsEmpty'
         /\ \A k \in Loops : OnItsWay(k)' = OnItsWay(k)
         /\ \A c \in Conns : Alive(c)' => Alive(c)
<1>1. /\ functors \in [Loops -> Seq(Funcs)] /\ UNCHANGED to_do_list_
      /\ next_func \in [Loops -> Nat] /\ pc \in [Loops -> EL!Control]
      /\ pc[l] = "run" /\ call[l] = "none" /\ next_func[l] = Len(functors[l])
  BY DEF ServerInv, TypeOK, EL!TypeOK, EL!EndToDoList
<1>2. /\ functors'[l] = <<>> /\ next_func'[l] = 0
      /\ \A k \in Loops \ {l} : /\ functors'[k] = functors[k] /\ next_func'[k] = next_func[k]
                                /\ pc'[k] = pc[k]
      /\ pc'[l] = "poll"
  BY <1>1 DEF EL!EndToDoList
<1>3. DOMAIN functors'[l] = {} /\ DOMAIN functors[l] = 1 .. Len(functors[l])
  BY <1>1, <1>2, LenProperties
<1>4. ToRun(l) = {} /\ ToRun(l)' = {}
  BY <1>1, <1>3 DEF ToRun
<1>5. \A k \in Loops \ {l} : ToRun(k)' = ToRun(k)
  BY <1>2 DEF ToRun
<1>6. OneFunctor'
  <2>1. OneFunctor
    BY DEF ServerInv
  <2>2. \A k \in Loops : \A i \in ToRun(k)' :
          k # l /\ i \in ToRun(k) /\ functors'[k][i] = functors[k][i]
    BY <1>2, <1>4, <1>5
  <2>3. ASSUME NEW k \in Loops, NEW m \in Loops
        PROVE  /\ \A i \in ToRun(k)', j \in ToRun(m)' :
                    functors'[k][i].conn = functors'[m][j].conn => k = m /\ i = j
               /\ \A i \in ToRun(k)', j \in DOMAIN to_do_list_[m] :
                    functors'[k][i].conn # to_do_list_[m][j].conn
    BY <2>1, <2>2 DEF OneFunctor
  <2>. QED
    BY <1>1, <2>1, <2>3 DEF OneFunctor
<1>7. ASSUME NEW k \in Loops PROVE OnItsWay(k)' = OnItsWay(k)
  <2>1. OnItsWay(k) = {to_do_list_[k][i] : i \in DOMAIN to_do_list_[k]}
                        \cup {functors[k][i] : i \in ToRun(k)}
    BY DEF OnItsWay, ToRun
  <2>2. OnItsWay(k)' = {to_do_list_'[k][i] : i \in DOMAIN to_do_list_'[k]}
                        \cup {functors'[k][i] : i \in ToRun(k)'}
    BY DEF OnItsWay, ToRun
  <2>. QED
    BY <1>1, <1>2, <1>4, <1>5, <2>1, <2>2
<1>8. ASSUME NEW c \in Conns, Alive(c)' PROVE Alive(c)
  BY <1>1, <1>2, <1>3, <1>8 DEF Alive, Refers
<1>9. HandIsEmpty'
  BY <1>2 DEF ServerInv, HandIsEmpty
<1>. QED
  BY <1>6, <1>7, <1>8, <1>9

-----------------------------------------------------------------------------
(* The functors under a handler or functor that queues one for connection  *)
(* c, has run one for it, or both.                                         *)
Pushes(m, fn) == to_do_list_' = [to_do_list_ EXCEPT ![m] = Append(@, fn)]

Others(l, c) == {fn \in OnItsWay(l) : fn.conn # c}

LEMMA PushedWay ==
  ASSUME TypeOK, UNCHANGED functors, NEW m \in Loops, NEW fn \in Funcs, Pushes(m, fn),
         NEW l \in Loops
  PROVE  OnItsWay(l)' = {to_do_list_[l][i] : i \in DOMAIN to_do_list_[l]}
                          \cup {functors[l][i] : i \in ToRun(l)'}
                          \cup (IF l = m THEN {fn} ELSE {})
<1>1. OnItsWay(l)' = {to_do_list_'[l][i] : i \in DOMAIN to_do_list_'[l]}
                       \cup {functors'[l][i] : i \in ToRun(l)'}
  BY DEF OnItsWay, ToRun
<1>2. CASE l = m
  <2>1. {to_do_list_'[m][i] : i \in DOMAIN to_do_list_'[m]}
          = {to_do_list_[m][i] : i \in DOMAIN to_do_list_[m]} \cup {fn}
    BY PushedView DEF Pushes
  <2>. QED
    BY <1>1, <1>2, <2>1
<1>3. CASE l # m
  <2>1. to_do_list_'[l] = to_do_list_[l]
    BY <1>3, PushedView DEF Pushes
  <2>. QED
    BY <1>1, <1>3, <2>1
<1>. QED
  BY <1>2, <1>3

LEMMA WayParts ==
  ASSUME NEW l
  PROVE  OnItsWay(l) = {to_do_list_[l][i] : i \in DOMAIN to_do_list_[l]}
                         \cup {functors[l][i] : i \in ToRun(l)}
  BY DEF OnItsWay, ToRun

LEMMA PushWay ==
  ASSUME ServerInv, UNCHANGED functors, \A l \in Loops : ToRun(l)' = ToRun(l),
         NEW m \in Loops, NEW fn \in Funcs, Pushes(m, fn),
         \A l \in Loops : \A g \in OnItsWay(l) : g.conn # fn.conn
  PROVE  /\ OneFunctor'
         /\ \A l \in Loops :
              OnItsWay(l)' = Others(l, fn.conn) \cup (IF l = m THEN {fn} ELSE {})
<1>1. \A l \in Loops : /\ \A i \in ToRun(l)' : functors[l][i].conn # fn.conn
                       /\ \A i \in DOMAIN to_do_list_[l] : to_do_list_[l][i].conn # fn.conn
  BY WayParts
<1>2. OneFunctor'
  BY <1>1, PushedFunctor DEF ServerInv, Pushes
<1>3. \A l \in Loops :
        OnItsWay(l)' = Others(l, fn.conn) \cup (IF l = m THEN {fn} ELSE {})
  BY PushedWay, WayParts DEF ServerInv, Others
<1>. QED
  BY <1>2, <1>3

LEMMA DoneOthers ==
  ASSUME ServerInv, NEW l \in Loops, FunctorDone(l), NEW k \in Loops
  PROVE  {to_do_list_[k][i] : i \in DOMAIN to_do_list_[k]} \cup {functors[k][i] : i \in ToRun(k)'}
           = Others(k, Functor(l).conn)
<1>1. /\ \A i \in ToRun(k)' : functors[k][i].conn # Functor(l).conn
      /\ \A i \in DOMAIN to_do_list_[k] : to_do_list_[k][i].conn # Functor(l).conn
      /\ ToRun(k)' \subseteq ToRun(k)
  BY DoneView
<1>2. \A i \in ToRun(k) \ ToRun(k)' : functors[k][i].conn = Functor(l).conn
  BY DoneView DEF Functor
<1>. QED
  BY <1>1, <1>2, WayParts DEF Others

LEMMA DoneWay ==
  ASSUME ServerInv, NEW l \in Loops, FunctorDone(l), UNCHANGED to_do_list_
  PROVE  /\ OneFunctor'
         /\ \A k \in Loops : OnItsWay(k)' = Others(k, Functor(l).conn)
<1>1. OneFunctor /\ \A k \in Loops : ToRun(k)' \subseteq ToRun(k)
  BY DoneView DEF ServerInv
<1>2. OneFunctor'
  BY <1>1 DEF OneFunctor, FunctorDone
<1>3. ASSUME NEW k \in Loops PROVE OnItsWay(k)' = Others(k, Functor(l).conn)
  <2>1. OnItsWay(k)' = {to_do_list_'[k][i] : i \in DOMAIN to_do_list_'[k]}
                         \cup {functors'[k][i] : i \in ToRun(k)'}
    BY DEF OnItsWay, ToRun
  <2>. QED
    BY <2>1, DoneOthers DEF FunctorDone
<1>. QED
  BY <1>2, <1>3

LEMMA DonePushWay ==
  ASSUME ServerInv, NEW l \in Loops, FunctorDone(l),
         NEW m \in Loops, NEW fn \in Funcs, fn.conn = Functor(l).conn, Pushes(m, fn)
  PROVE  /\ OneFunctor'
         /\ \A k \in Loops :
              OnItsWay(k)' = Others(k, fn.conn) \cup (IF k = m THEN {fn} ELSE {})
<1>1. /\ \A k \in Loops : /\ ToRun(k)' \subseteq ToRun(k)
                          /\ \A i \in ToRun(k)' : functors[k][i].conn # fn.conn
                          /\ \A i \in DOMAIN to_do_list_[k] : to_do_list_[k][i].conn # fn.conn
      /\ UNCHANGED functors /\ TypeOK
  BY DoneView DEF ServerInv, FunctorDone
<1>2. OneFunctor'
  BY <1>1, PushedFunctor DEF ServerInv, Pushes
<1>3. ASSUME NEW k \in Loops
      PROVE  OnItsWay(k)' = Others(k, fn.conn) \cup (IF k = m THEN {fn} ELSE {})
  <2>1. OnItsWay(k)' = {to_do_list_[k][i] : i \in DOMAIN to_do_list_[k]}
                         \cup {functors[k][i] : i \in ToRun(k)'}
                         \cup (IF k = m THEN {fn} ELSE {})
    BY <1>1, PushedWay
  <2>2. {to_do_list_[k][i] : i \in DOMAIN to_do_list_[k]}
           \cup {functors[k][i] : i \in ToRun(k)'} = Others(k, fn.conn)
    BY DoneOthers
  <2>. QED
    BY <2>1, <2>2
<1>. QED
  BY <1>2, <1>3

(* The shared_ptrs to any other connection, and to c.                      *)
LEMMA PushedAlive ==
  ASSUME TypeOK, UNCHANGED functors,
         NEW c \in Conns, NEW m \in Loops, NEW fn \in Funcs, fn.conn = c, Pushes(m, fn)
  PROVE  /\ Alive(c)'
         /\ \A d \in Conns \ {c} :
              (\A f \in Fds : connections_'[f] = d <=> connections_[f] = d)
                => (Alive(d)' <=> Alive(d))
<1>1. \A l \in Loops, d \in Conns :
        /\ Refers(to_do_list_[l], d)' <=> (Refers(to_do_list_[l], d) \/ (l = m /\ c = d))
        /\ Refers(functors[l], d)' <=> Refers(functors[l], d)
  <2>1. \A l \in Loops, d \in Conns :
          Refers(to_do_list_[l], d)' <=> (Refers(to_do_list_[l], d) \/ (l = m /\ fn.conn = d))
    BY PushedView DEF Pushes
  <2>2. \A l \in Loops, d \in Conns : Refers(functors[l], d)' <=> Refers(functors[l], d)
    BY DEF Refers
  <2>. QED
    BY <2>1, <2>2
<1>2. Refers(to_do_list_[m], c)'
  BY <1>1
<1>3. ASSUME NEW d \in Conns \ {c}, \A f \in Fds : connections_'[f] = d <=> connections_[f] = d
      PROVE  Alive(d)' <=> Alive(d)
  <2>1. \A l \in Loops :
          (Refers(to_do_list_[l], d)' \/ Refers(functors[l], d)')
            <=> (Refers(to_do_list_[l], d) \/ Refers(functors[l], d))
    BY <1>1
  <2>2. Alive(d)' <=> \/ \E f \in Fds : connections_'[f] = d
                      \/ \E l \in Loops : Refers(to_do_list_[l], d)' \/ Refers(functors[l], d)'
    BY DEF Alive
  <2>. QED
    BY <1>3, <2>1, <2>2 DEF Alive
<1>4. Alive(c)'
  BY <1>2 DEF Alive
<1>. QED
  BY <1>3, <1>4

LEMMA QueuesKeptAlive ==
  ASSUME UNCHANGED <<to_do_list_, functors>>,
         NEW d, \A f \in Fds : connections_'[f] = d <=> connections_[f] = d
  PROVE  Alive(d)' <=> Alive(d)
  BY DEF Alive, Refers

(* A connection with a functor on its way is alive.                        *)
LEMMA WayAlive ==
  ASSUME NEW l \in Loops, NEW fn \in OnItsWay(l) PROVE Alive(fn.conn)
  BY DEF OnItsWay, Alive, Refers

-----------------------------------------------------------------------------
(* The connections under every step.                                       *)
ConnInv == OneFunctor /\ HandIsEmpty /\ FunctorState /\ ConnState /\ Tables /\ OneHolder

(* What a step does to the lives of the connections: it may only let some  *)
(* of them go, or one client is refused, or one connection is accepted,    *)
(* comes up or closes.                                                     *)
Coming(c) == \E l \in Loops : [op |-> "Established", conn |-> c] \in OnItsWay(l)

SameLife(d) ==
  /\ fd_'[d] = fd_[d] /\ state_'[d] = state_[d]
  /\ Coming(d)' <=> Coming(d)
  /\ Alive(d)' <=> Alive(d)

LessLife(d) ==
  /\ fd_'[d] = fd_[d] /\ state_'[d] = state_[d]
  /\ Coming(d)' <=> Coming(d)
  /\ Alive(d)' => Alive(d)

LifeQuiet == accepted' = accepted /\ \A d \in Conns : LessLife(d)

LifeRefuse == accepted' = accepted + 1 /\ \A d \in Conns : SameLife(d)

LifeClose ==
  \E c \in Conns :
    /\ accepted' = accepted /\ fd_'[c] = fd_[c] /\ Alive(c) /\ Alive(c)'
    /\ ~ Coming(c) /\ ~ Coming(c)'
    /\ state_[c] = "kConnected" /\ state_'[c] = "kDisconnected"
    /\ \A d \in Conns \ {c} : SameLife(d)

LifeEstablish ==
  \E c \in Conns :
    /\ accepted' = accepted /\ fd_'[c] = fd_[c] /\ Alive(c) /\ Alive(c)'
    /\ Coming(c) /\ ~ Coming(c)' /\ state_'[c] = "kConnected"
    /\ \A d \in Conns \ {c} : SameLife(d)

LifeAccept ==
  \E c \in Conns, f \in Fds :
    /\ accepted' = c /\ c = accepted + 1 /\ fd_[c] = NoFd /\ fd_'[c] = f /\ Alive(c)'
    /\ \A d \in Conns : fd_[d] = f => ~ Alive(d)
    /\ Coming(c)' \/ state_'[c] = "kConnected"
    /\ \A d \in Conns \ {c} : SameLife(d)

Life == LifeQuiet \/ LifeRefuse \/ LifeClose \/ LifeEstablish \/ LifeAccept

LEMMA ComingKept ==
  ASSUME NEW c \in Conns, FunctorsKept(c)
  PROVE  \A d \in Conns \ {c} : Coming(d)' <=> Coming(d)
<1>1. ASSUME NEW d \in Conns \ {c} PROVE Coming(d)' <=> Coming(d)
  <2>1. [op |-> "Established", conn |-> d] \in Funcs
    BY DEF Funcs
  <2>2. \A l \in Loops : [op |-> "Established", conn |-> d] \in OnItsWay(l)'
                           <=> [op |-> "Established", conn |-> d] \in OnItsWay(l)
    BY <2>1 DEF FunctorsKept
  <2>. QED
    BY <2>2 DEF Coming
<1>. QED
  BY <1>1

LEMMA SameComing ==
  ASSUME \A l \in Loops : OnItsWay(l)' = OnItsWay(l), NEW d
  PROVE  Coming(d)' <=> Coming(d)
  BY DEF Coming

LEMMA QuietStep ==
  ASSUME ServerInv, TypeOK', accepted' \in {accepted, accepted + 1},
         UNCHANGED <<to_do_list_, functors, next_func, fd_, loop_, state_, ch_state,
                     connections_, channels_>>,
         \A l \in Loops : call[l] = "functor" <=> call'[l] = "functor",
         \A l \in Loops : pc'[l] \notin {"run", "functor"} => pc[l] \notin {"run", "functor"},
         \A c \in Conns : /\ ch_state[c] = "kAdded" => "IN" \in ch_events'[c]
                          /\ ch_state[c] = "kDeleted" => ch_events'[c] = ch_events[c]
  PROVE  /\ ConnInv'
         /\ accepted' = accepted => LifeQuiet
         /\ accepted' = accepted + 1 => LifeRefuse
<1>1. OneFunctor /\ HandIsEmpty
  BY DEF ServerInv
<1>2. /\ OneFunctor'
      /\ \A l \in Loops : OnItsWay(l)' = OnItsWay(l)
      /\ \A c \in Conns : Alive(c)' => Alive(c)
  BY <1>1, QuietQueues
<1>3. HandIsEmpty'
  BY <1>1, HandKept
<1>4. FunctorState' /\ ConnState' /\ Tables' /\ OneHolder'
  BY <1>2, LaterStep, QuietConnections
<1>5. \A d \in Conns : SameLife(d)
  <2>1. QueuesAlone
    BY <1>1, QuietQueues
  <2>. QED
    BY <1>2, <2>1, SameComing, AloneKeepsAlive DEF SameLife
<1>6. /\ accepted' = accepted => LifeQuiet
      /\ accepted' = accepted + 1 => LifeRefuse
  <2>1. \A d \in Conns : LessLife(d)
    BY <1>5 DEF SameLife, LessLife
  <2>. QED
    BY <1>5, <2>1 DEF LifeQuiet, LifeRefuse
<1>. QED
  BY <1>2, <1>3, <1>4, <1>6 DEF ConnInv

LEMMA EventsNow ==
  ASSUME ServerInv, NEW c \in Conns, ch_state[c] = "kAdded" PROVE "IN" \in ch_events[c]
  BY DEF ServerInv, ConnState, ConnSays

LEMMA ClientConns == ASSUME ServerInv, TypeOK', Client \/ UNCHANGED vars PROVE ConnInv' /\ Life
<1>1. UNCHANGED <<elvars, call, accepted, conns, tables>>
  BY DEF Client, Connect, SendData, Hangup, vars, clients
<1>. QED
  BY <1>1, EventsNow, QuietStep DEF elvars, conns, tables, Life

LEMMA LoopConns ==
  ASSUME ServerInv, TypeOK', NEW l \in Loops,
         Poll(l) \/ (\E ch \in Channels : HandleEvent(l, ch)) \/ RunFunctor(l) \/ LoopStep(l)
  PROVE  ConnInv' /\ Life
<1>0. /\ TypeOK /\ pc \in [Loops -> EL!Control] /\ call \in [Loops -> Control]
      /\ \A k \in Loops : call[k] # "none" => pc[k] \in {"handler", "functor"}
  BY DEF ServerInv, TypeOK, EL!TypeOK
<1>1. /\ UNCHANGED <<clients, tables, fd_, loop_, state_, ch_state, ch_events>>
      /\ accepted' = accepted /\ connections_' = connections_ /\ channels_' = channels_
  BY DEF Poll, HandleEvent, RunFunctor, LoopStep, conns, clients, tables
<1>2. CASE Poll(l) \/ \E ch \in Channels : HandleEvent(l, ch)
  <2>1. /\ UNCHANGED <<to_do_list_, functors, next_func>>
        /\ \E to \in {"dispatch", "handler"} : pc' = [pc EXCEPT ![l] = to]
        /\ pc[l] \in {"poll", "dispatch"}
    BY <1>2 DEF Poll, HandleEvent, EL!Poll, EL!HandleEvent
  <2>2. \/ call' = call
        \/ \E what \in {"accept", "read", "write"} : call' = [call EXCEPT ![l] = what]
    BY <1>2 DEF Poll, HandleEvent
  <2>3. \A k \in Loops : call[k] = "functor" <=> call'[k] = "functor"
    BY <1>0, <2>1, <2>2
  <2>4. \A k \in Loops : pc'[k] \notin {"run", "functor"} => pc[k] \notin {"run", "functor"}
    BY <1>0, <2>1
  <2>. QED
    BY <1>1, <2>1, <2>3, <2>4, EventsNow, QuietStep DEF Life
<1>3. CASE LoopStep(l) /\ (EL!HandleRead(l) \/ EL!WakeUp(l) \/ EL!EndHandler(l) \/ EL!EndFunctor(l))
  <2>1. /\ UNCHANGED <<to_do_list_, functors, next_func, call>>
        /\ \/ pc' = pc
           \/ pc[l] = "handler" /\ pc' = [pc EXCEPT ![l] = "dispatch"]
           \/ pc[l] = "functor" /\ pc' = [pc EXCEPT ![l] = "run"]
    BY <1>3 DEF LoopStep, EL!HandleRead, EL!WakeUp, EL!EndHandler, EL!EndFunctor
  <2>2. \A k \in Loops : pc'[k] \notin {"run", "functor"} => pc[k] \notin {"run", "functor"}
    BY <1>0, <2>1
  <2>. QED
    BY <1>1, <2>1, <2>2, EventsNow, QuietStep DEF Life
<1>4. CASE RunFunctor(l)
  <2>1. /\ UNCHANGED <<to_do_list_, functors>> /\ pc[l] = "run" /\ call[l] = "none"
        /\ next_func' = [next_func EXCEPT ![l] = @ + 1]
        /\ call' = [call EXCEPT ![l] = "functor"] /\ pc' = [pc EXCEPT ![l] = "functor"]
        /\ next_func \in [Loops -> Nat]
        /\ DOMAIN functors[l] \subseteq Nat
    BY <1>0, <1>4, FunctorTypes DEF RunFunctor, EL!RunFunctor, TypeOK, EL!TypeOK
  <2>2. ToRun(l)' = ToRun(l)
    <3>1. next_func'[l] = next_func[l] + 1 /\ next_func[l] \in Nat /\ call'[l] = "functor"
      BY <1>0, <2>1
    <3>. QED
      BY <2>1, <3>1 DEF ToRun
  <2>3. \A k \in Loops \ {l} : ToRun(k)' = ToRun(k)
    BY <2>1 DEF ToRun
  <2>4. QueuesAlone /\ OneFunctor
    BY <2>1, <2>2, <2>3 DEF QueuesAlone, ServerInv
  <2>5. /\ OneFunctor' /\ \A k \in Loops : OnItsWay(k)' = OnItsWay(k)
        /\ \A c \in Conns : Alive(c)' => Alive(c)
    BY <1>1, <2>4, AloneKeepsFunctors, AloneKeepsAlive
  <2>6. HandIsEmpty'
    BY <1>0, <2>1 DEF ServerInv, HandIsEmpty
  <2>7. FunctorState' /\ ConnState' /\ Tables' /\ OneHolder'
    BY <1>1, <2>5, EventsNow, LaterStep, QuietConnections
  <2>8. LifeQuiet
    <3>1. \A d \in Conns : LessLife(d)
      BY <1>1, <2>5, SameComing DEF LessLife
    <3>. QED
      BY <1>1, <3>1 DEF LifeQuiet
  <2>. QED
    BY <2>5, <2>6, <2>7, <2>8 DEF ConnInv, Life
<1>5. CASE LoopStep(l) /\ (EL!SwapToDoList(l) \/ EL!EndToDoList(l))
  <2>1. UNCHANGED <<call, connections_>>
    BY <1>5 DEF LoopStep, tables
  <2>2. /\ OneFunctor' /\ HandIsEmpty'
        /\ \A k \in Loops : OnItsWay(k)' = OnItsWay(k)
        /\ \A c \in Conns : Alive(c)' => Alive(c)
    BY <1>5, <2>1, SwapQueues, DropQueues
  <2>3. FunctorState' /\ ConnState' /\ Tables' /\ OneHolder'
    BY <1>1, <2>2, EventsNow, LaterStep, QuietConnections
  <2>4. LifeQuiet
    <3>1. \A d \in Conns : LessLife(d)
      BY <1>1, <2>2, SameComing DEF LessLife
    <3>. QED
      BY <1>1, <3>1 DEF LifeQuiet
  <2>. QED
    BY <2>2, <2>3, <2>4 DEF ConnInv, Life
<1>. QED
  BY <1>2, <1>3, <1>4, <1>5 DEF LoopStep

LEMMA QuietHandlers ==
  ASSUME ServerInv, TypeOK', NEW l \in Loops,
         \/ HandleMessage(l) \/ ReadError(l) \/ HandleWrite(l)
         \/ l = Base /\ RefuseConnection
  PROVE  ConnInv' /\ Life
<1> DEFINE c == current[l]
<1>0. TypeOK /\ call \in [Loops -> Control]
  BY DEF ServerInv, TypeOK
<1>1. /\ UNCHANGED <<elvars, fd_, loop_, state_, connections_>>
      /\ accepted' \in {accepted, accepted + 1}
      /\ call[l] \in {"accept", "read", "write"} /\ \E to \in {"write", "none"} : Goto(l, to)
  BY DEF HandleMessage, ReadError, HandleWrite, RefuseConnection, conns, tables, clients,
         Calls, AfterRead
<1>2. \A k \in Loops : call[k] = "functor" <=> call'[k] = "functor"
  BY <1>0, <1>1 DEF Goto
<1>3. CASE UNCHANGED <<ch_events, ch_state, channels_>>
  BY <1>1, <1>2, <1>3, EventsNow, QuietStep DEF elvars, Life
<1>4. ASSUME NEW ev \in SUBSET {"IN", "OUT"}, Update(c, l, fd_[c], ev), c \in Conns,
             ch_state[c] = "kAdded", "IN" \in ev
      PROVE  ConnInv' /\ Life
  <2>1. ev # {} /\ ch_state \in [Conns -> {"kNew", "kAdded", "kDeleted"}]
        /\ ch_events \in [Conns -> SUBSET {"IN", "OUT"}]
    BY <1>0, <1>4 DEF TypeOK
  <2>2. ch_events' = [ch_events EXCEPT ![c] = ev] /\ channels_' = channels_
    BY <1>4 DEF Update
  <2>3. ch_state' = ch_state
    BY <1>4, <2>1 DEF Update
  <2>4. \A d \in Conns : /\ ch_state[d] = "kAdded" => "IN" \in ch_events'[d]
                         /\ ch_state[d] = "kDeleted" => ch_events'[d] = ch_events[d]
    BY <1>4, <2>1, <2>2, EventsNow
  <2>. QED
    BY <1>1, <1>2, <2>2, <2>3, <2>4, QuietStep DEF elvars, Life
<1>5. \/ UNCHANGED <<ch_events, ch_state, channels_>>
      \/ \E ev \in SUBSET {"IN", "OUT"} :
           Update(c, l, fd_[c], ev) /\ c \in Conns /\ ch_state[c] = "kAdded" /\ "IN" \in ev
  <2>1. CASE HandleMessage(l)
    <3>1. c \in Conns /\ ch_state[c] = "kAdded" /\ "IN" \in ch_events[c]
      BY <2>1, CurrentConn, EventsNow DEF HandleMessage, Calls
    <3>2. ch_events[c] \cup {"OUT"} \in SUBSET {"IN", "OUT"}
      BY <1>0, <3>1 DEF TypeOK
    <3>. QED
      BY <2>1, <3>1, <3>2 DEF HandleMessage
  <2>2. CASE HandleWrite(l)
    <3>1. c \in Conns /\ ch_state[c] # "kNew"
      BY <2>2, CurrentConn DEF HandleWrite, Calls
    <3>2. ch_events[c] \ {"OUT"} \in SUBSET {"IN", "OUT"}
      BY <1>0, <3>1 DEF TypeOK
    <3>3. CASE "OUT" \in ch_events[c]
      <4>1. ch_state[c] = "kAdded"
        BY <1>0, <3>1, <3>3 DEF ServerInv, ConnState, ConnSays, TypeOK
      <4>2. "IN" \in ch_events[c]
        BY <3>1, <4>1, EventsNow
      <4>. QED
        BY <2>2, <3>1, <3>2, <4>1, <4>2 DEF HandleWrite
    <3>. QED
      BY <2>2, <3>3 DEF HandleWrite
  <2>3. CASE ReadError(l) \/ RefuseConnection
    BY <2>3 DEF ReadError, RefuseConnection, conns, tables
  <2>. QED
    BY <2>1, <2>2, <2>3
<1>. QED
  BY <1>3, <1>4, <1>5

(* What is known of the connection of a functor, and of a channel that a   *)
(* loop has.                                                               *)
LEMMA WayState ==
  ASSUME ServerInv, NEW l \in Loops, NEW fn \in OnItsWay(l)
  PROVE  /\ FunctorSays(l, fn) /\ fn \in Funcs /\ fn.conn \in Conns
         /\ fn.op \in {"Established", "CloseInLoop", "Destructor"}
         /\ ch_state[fn.conn] \in {"kNew", "kDeleted"} /\ Alive(fn.conn)
         /\ fd_[fn.conn] \in Fds
<1>1. FunctorSays(l, fn) /\ TypeOK
  BY DEF ServerInv, FunctorState
<1>2. fn \in Funcs
  BY <1>1, WayTypes
<1>3. fn.conn \in Conns /\ fn.op \in {"Established", "CloseInLoop", "Destructor"}
  BY <1>2 DEF Funcs
<1>4. fd_[fn.conn] \in Fds \cup {NoFd}
  BY <1>1, <1>3 DEF TypeOK
<1>. QED
  BY <1>1, <1>2, <1>3, <1>4, WayAlive DEF FunctorSays

LEMMA ChannelAlive ==
  ASSUME ServerInv, NEW c \in Conns, ch_state[c] # "kNew"
  PROVE  fd_[c] \in Fds /\ Alive(c)
<1>1. TypeOK /\ ConnSays(c)
  BY DEF ServerInv, ConnState
<1>2. fd_[c] \in Fds /\ ch_state[c] \in {"kAdded", "kDeleted"}
  BY <1>1 DEF TypeOK, ConnSays
<1>3. CASE ch_state[c] = "kAdded"
  BY <1>1, <1>2, <1>3 DEF ConnSays, Alive
<1>4. CASE ch_state[c] = "kDeleted"
  <2>1. PICK l \in Loops : \E fn \in OnItsWay(l) : fn.conn = c
    BY <1>1, <1>4 DEF ConnSays
  <2>2. PICK fn \in OnItsWay(l) : fn.conn = c
    BY <2>1
  <2>3. Alive(fn.conn)
    BY WayAlive
  <2>. QED
    BY <1>2, <2>2, <2>3
<1>. QED
  BY <1>2, <1>3, <1>4

(* The descriptor of a live connection is in the tables for it alone.      *)
LEMMA TablesFree ==
  ASSUME ServerInv, NEW f \in Fds, NEW c \in Conns,
         \A d \in Conns : fd_[d] = f /\ Alive(d) => d = c
  PROVE  /\ connections_[f] \in {c, NoConn}
         /\ \A l \in Loops : channels_[l][f] \in {c, NoConn}
<1>1. TypeOK /\ Tables
  BY DEF ServerInv
<1>2. connections_[f] \in {c, NoConn}
  <2>1. connections_[f] \in Conns \cup {NoConn}
    BY <1>1 DEF TypeOK
  <2>2. SUFFICES ASSUME connections_[f] \in Conns PROVE connections_[f] = c
    BY <2>1
  <2>. QED
    BY <1>1, <2>2 DEF Tables, TablesSay, Alive
<1>3. ASSUME NEW l \in Loops PROVE channels_[l][f] \in {c, NoConn}
  <2>1. channels_[l][f] \in Conns \cup {NoConn}
    BY <1>1 DEF TypeOK
  <2>2. SUFFICES ASSUME channels_[l][f] \in Conns PROVE channels_[l][f] = c
    BY <2>1
  <2>3. fd_[channels_[l][f]] = f /\ ch_state[channels_[l][f]] # "kNew"
    BY <1>1, <2>2 DEF Tables, TablesSay
  <2>. QED
    BY <2>2, <2>3, ChannelAlive
<1>. QED
  BY <1>2, <1>3

LEMMA CloseConns ==
  ASSUME ServerInv, TypeOK', NEW l \in Loops, HandleClose(l) PROVE ConnInv' /\ Life
<1>00. PICK c \in Conns : c = current[l]
  BY CurrentConn DEF HandleClose, Calls
<1> DEFINE fn == [op |-> "CloseInLoop", conn |-> c]
<1>0. /\ c \in Conns /\ fd_[c] \in Fds /\ loop_[c] = l /\ ch_state[c] = "kAdded"
      /\ TypeOK /\ Base \in Loops /\ ConnSays(c) /\ TablesSay(c) /\ HoldsAlone(c)
  BY <1>00, CurrentConn, Constants
     DEF HandleClose, Calls, ServerInv, ConnState, Tables, OneHolder
<1>1. /\ fn \in Funcs /\ Pushes(Base, fn) /\ call[l] = "read"
      /\ UNCHANGED <<pc, functors, next_func, accepted, fd_, loop_, connections_>>
      /\ \E to \in {"write", "none"} : Goto(l, to)
  <2>1. fn \in Funcs
    BY <1>0 DEF Funcs
  <2>. QED
    BY <1>00, <2>1 DEF HandleClose, EL!QueueOneFunc, Pushes, Calls, AfterRead, clients
<1>2. /\ state_' = [state_ EXCEPT ![c] = "kDisconnected"]
      /\ ch_events' = [ch_events EXCEPT ![c] = {}]
      /\ ch_state' = [ch_state EXCEPT ![c] = "kDeleted"]
      /\ channels_' = channels_
  BY <1>00, <1>0 DEF HandleClose, Update, TypeOK
<1>3. /\ state_'[c] = "kDisconnected" /\ ch_events'[c] = {} /\ ch_state'[c] = "kDeleted"
      /\ \A d \in Conns \ {c} : /\ state_'[d] = state_[d] /\ ch_events'[d] = ch_events[d]
                                /\ ch_state'[d] = ch_state[d]
  BY <1>0, <1>2 DEF TypeOK
<1>4. /\ connections_[fd_[c]] = c /\ Alive(c)
  BY <1>0 DEF ConnSays, Alive
<1>5. OneFunctor' /\ \A k \in Loops :
        OnItsWay(k)' = Others(k, c) \cup (IF k = Base THEN {fn} ELSE {})
  <2>1. call \in [Loops -> Control]
    BY <1>0 DEF TypeOK
  <2>2. \A k \in Loops : ToRun(k)' = ToRun(k)
    BY <1>1, <2>1 DEF ToRun, Goto
  <2>3. \A k \in Loops : \A g \in OnItsWay(k) : g.conn # c
    BY <1>0, WayState
  <2>4. fn.conn = c
    OBVIOUS
  <2>. QED
    BY <1>0, <1>1, <2>2, <2>3, <2>4, PushWay
<1>6. HandIsEmpty'
  BY <1>1, HandKept DEF ServerInv
<1>7. Alive(c)' /\ \A d \in Conns \ {c} : Alive(d)' <=> Alive(d)
  BY <1>0, <1>1, PushedAlive
<1>8. OthersKept(c) /\ FunctorsKept(c) /\ Later
  BY <1>1, <1>2, <1>3, <1>5, <1>7, LaterStep DEF OthersKept, FunctorsKept, Others
<1>9. ASSUME NEW k \in Loops, NEW g \in OnItsWay(k)', g.conn = c PROVE FunctorSays(k, g)'
  <2>1. k = Base /\ g = fn
    BY <1>5, <1>9 DEF Others
  <2>. QED
    BY <1>0, <1>1, <1>3, <1>4, <2>1, Constants DEF FunctorSays
<1>10. ConnSays(c)'
  BY <1>0, <1>1, <1>3, <1>5 DEF ConnSays
<1>11. TablesSay(c)'
  BY <1>0, <1>1, <1>2, <1>3 DEF TablesSay
<1>12. HoldsAlone(c)'
  BY <1>0, <1>1, <1>4, <1>7 DEF HoldsAlone
<1>13. LifeClose
  <2>1. ~ Coming(c)
    <3>1. \A k \in Loops : \A g \in OnItsWay(k) : g.conn # c
      BY <1>0, WayState
    <3>. QED
      BY <3>1 DEF Coming
  <2>2. ~ Coming(c)'
    BY <1>5 DEF Coming, Others
  <2>3. \A d \in Conns \ {c} : SameLife(d)
    BY <1>1, <1>3, <1>7, <1>8, ComingKept DEF SameLife
  <2>4. state_[c] = "kConnected"
    BY <1>0 DEF ConnSays
  <2>. QED
    BY <1>1, <1>3, <1>4, <1>7, <2>1, <2>2, <2>3, <2>4 DEF LifeClose
<1>. QED
  BY <1>0, <1>5, <1>6, <1>8, <1>9, <1>10, <1>11, <1>12, <1>13, OneConnection DEF ConnInv, Life

LEMMA EstablishConns ==
  ASSUME ServerInv, TypeOK', NEW l \in Loops, ConnectionEstablished(l) PROVE ConnInv' /\ Life
<1>1. PICK c \in Conns : c = Functor(l).conn
  BY RunningFunctor DEF ConnectionEstablished, Runs, Calls
<1>2. /\ Functor(l) \in OnItsWay(l) /\ Functor(l).op = "Established" /\ FunctorDone(l)
      /\ UNCHANGED <<pc, to_do_list_, functors, next_func, accepted, fd_, loop_, connections_>>
      /\ Established(c, l, fd_[c])
  BY <1>1, RunningFunctor
     DEF ConnectionEstablished, Runs, Calls, FunctorDone, elvars, clients
<1>3. /\ TypeOK /\ ConnSays(c) /\ TablesSay(c) /\ HoldsAlone(c)
      /\ loop_[c] = l /\ ch_state[c] = "kNew" /\ connections_[fd_[c]] = c
      /\ fd_[c] \in Fds /\ Alive(c) /\ fd_[c] # NoFd
  BY <1>1, <1>2, WayState, Constants
     DEF ServerInv, ConnState, Tables, OneHolder, FunctorSays
<1>4. /\ state_' = [state_ EXCEPT ![c] = "kConnected"]
      /\ ch_events' = [ch_events EXCEPT ![c] = @ \cup {"IN"}]
      /\ ch_state' = [ch_state EXCEPT ![c] = "kAdded"]
      /\ channels_' = [channels_ EXCEPT ![l][fd_[c]] = c]
  BY <1>2, <1>3 DEF Established, Update, TypeOK
<1>5. /\ state_'[c] = "kConnected" /\ "IN" \in ch_events'[c] /\ ch_state'[c] = "kAdded"
      /\ \A d \in Conns \ {c} : /\ state_'[d] = state_[d] /\ ch_events'[d] = ch_events[d]
                                /\ ch_state'[d] = ch_state[d]
  BY <1>3, <1>4 DEF TypeOK
<1>6. /\ channels_'[l][fd_[c]] = c
      /\ \A k \in Loops, f \in Fds :
           (k # l \/ f # fd_[c]) => channels_'[k][f] = channels_[k][f]
  BY <1>3, <1>4 DEF TypeOK
<1>7. channels_[l][fd_[c]] \in {c, NoConn}
  BY <1>3, TablesFree DEF HoldsAlone
<1>8. OneFunctor' /\ \A k \in Loops : OnItsWay(k)' = Others(k, c)
  BY <1>1, <1>2, DoneWay
<1>9. HandIsEmpty'
  BY <1>2, HandKept DEF ServerInv
<1>10. \A d \in Conns : Alive(d)' <=> Alive(d)
  BY <1>2, QueuesKeptAlive
<1>11. OthersKept(c) /\ FunctorsKept(c) /\ Later
  <2>1. \A d \in Conns \ {c}, k \in Loops, f \in Fds :
          channels_'[k][f] = d <=> channels_[k][f] = d
    BY <1>6, <1>7, Constants
  <2>2. OthersKept(c)
    BY <1>2, <1>5, <1>10, <2>1 DEF OthersKept
  <2>. QED
    BY <1>2, <1>8, <2>2, LaterStep DEF FunctorsKept, Others
<1>12. \A k \in Loops : \A g \in OnItsWay(k)' : g.conn # c
  BY <1>8 DEF Others
<1>13. ConnSays(c)'
  BY <1>2, <1>3, <1>5 DEF ConnSays
<1>14. TablesSay(c)'
  BY <1>2, <1>3, <1>5, <1>6 DEF TablesSay
<1>15. HoldsAlone(c)'
  BY <1>2, <1>3, <1>10 DEF HoldsAlone
<1>16. LifeEstablish
  <2>1. Coming(c)
    <3>1. Functor(l) \in [op : {"Established", "CloseInLoop", "Destructor"}, conn : Conns]
      BY <1>2, WayState DEF Funcs
    <3>2. Functor(l) = [op |-> "Established", conn |-> c]
      BY <1>1, <1>2, <3>1
    <3>. QED
      BY <1>2, <3>2 DEF Coming
  <2>2. ~ Coming(c)'
    BY <1>12 DEF Coming
  <2>3. \A d \in Conns \ {c} : SameLife(d)
    BY <1>2, <1>5, <1>10, <1>11, ComingKept DEF SameLife
  <2>. QED
    BY <1>2, <1>3, <1>5, <1>10, <2>1, <2>2, <2>3 DEF LifeEstablish
<1>. QED
  BY <1>8, <1>9, <1>11, <1>12, <1>13, <1>14, <1>15, <1>16, OneConnection DEF ConnInv, Life

LEMMA CloseInLoopConns ==
  ASSUME ServerInv, TypeOK', NEW l \in Loops, HandleCloseInLoop(l) PROVE ConnInv' /\ Life
<1>1. PICK c \in Conns : c = Functor(l).conn
  BY RunningFunctor DEF HandleCloseInLoop, Runs, Calls
<1>2. PICK m \in Loops : m = loop_[c]
  BY <1>1, RunningFunctor, Constants
     DEF HandleCloseInLoop, Runs, Calls, ServerInv, ConnState, ConnSays
<1> DEFINE fn == [op |-> "Destructor", conn |-> c]
<1>3. /\ Functor(l) \in OnItsWay(l) /\ Functor(l).op = "CloseInLoop" /\ FunctorDone(l)
      /\ fn \in Funcs /\ fn.conn = c /\ Pushes(m, fn)
      /\ UNCHANGED <<pc, functors, next_func, accepted, fd_, loop_, state_, ch_state,
                     ch_events, channels_>>
      /\ connections_' = [connections_ EXCEPT ![fd_[c]] = NoConn]
  <2>1. fn \in Funcs
    BY DEF Funcs
  <2>. QED
    BY <1>1, <1>2, <2>1, RunningFunctor
       DEF HandleCloseInLoop, EL!QueueOneFunc, Runs, Calls, FunctorDone, Pushes, clients, conns
<1>4. /\ TypeOK /\ ConnSays(c) /\ TablesSay(c) /\ HoldsAlone(c)
      /\ l = Base /\ ch_state[c] = "kDeleted" /\ connections_[fd_[c]] = c
      /\ state_[c] = "kDisconnected" /\ fd_[c] \in Fds /\ Alive(c) /\ fd_[c] # NoFd
  BY <1>1, <1>3, WayState, Constants
     DEF ServerInv, ConnState, Tables, OneHolder, FunctorSays
<1>5. /\ connections_'[fd_[c]] = NoConn
      /\ \A f \in Fds \ {fd_[c]} : connections_'[f] = connections_[f]
  BY <1>3, <1>4 DEF TypeOK
<1>6. OneFunctor' /\ \A k \in Loops :
        OnItsWay(k)' = Others(k, c) \cup (IF k = m THEN {fn} ELSE {})
  BY <1>1, <1>3, DonePushWay
<1>7. HandIsEmpty'
  BY <1>3, HandKept DEF ServerInv
<1>8. /\ Alive(c)'
      /\ \A d \in Conns \ {c} : /\ \A f \in Fds : connections_'[f] = d <=> connections_[f] = d
                                /\ Alive(d)' <=> Alive(d)
  <2>1. \A d \in Conns \ {c}, f \in Fds : connections_'[f] = d <=> connections_[f] = d
    BY <1>4, <1>5, Constants
  <2>. QED
    BY <1>3, <1>4, <2>1, PushedAlive
<1>9. OthersKept(c) /\ FunctorsKept(c) /\ Later
  BY <1>3, <1>6, <1>8, LaterStep DEF OthersKept, FunctorsKept, Others
<1>10. ASSUME NEW k \in Loops, NEW g \in OnItsWay(k)', g.conn = c PROVE FunctorSays(k, g)'
  <2>1. k = m /\ g = fn
    BY <1>6, <1>10 DEF Others
  <2>. QED
    BY <1>2, <1>3, <1>4, <2>1 DEF FunctorSays
<1>11. ConnSays(c)'
  BY <1>3, <1>4, <1>6 DEF ConnSays
<1>12. TablesSay(c)'
  BY <1>3, <1>4, <1>5, Constants DEF TablesSay
<1>13. HoldsAlone(c)'
  BY <1>3, <1>4, <1>8 DEF HoldsAlone
<1>14. LifeQuiet
  <2>1. ~ Coming(c)'
    BY <1>6 DEF Coming, Others
  <2>2. ~ Coming(c)
    <3>1. \A k \in Loops : \A g \in OnItsWay(k) : g.conn = c => g.op # "Established"
      BY <1>4, WayState DEF FunctorSays
    <3>. QED
      BY <3>1 DEF Coming
  <2>3. LessLife(c)
    BY <1>3, <1>4, <2>1, <2>2 DEF LessLife
  <2>4. \A d \in Conns \ {c} : LessLife(d)
    BY <1>3, <1>8, <1>9, ComingKept DEF LessLife
  <2>. QED
    BY <1>3, <2>3, <2>4 DEF LifeQuiet
<1>. QED
  BY <1>6, <1>7, <1>9, <1>10, <1>11, <1>12, <1>13, <1>14, OneConnection DEF ConnInv, Life

LEMMA DestructorConns ==
  ASSUME ServerInv, TypeOK', NEW l \in Loops, ConnectionDestructor(l) PROVE ConnInv' /\ Life
<1>1. PICK c \in Conns : c = Functor(l).conn
  BY RunningFunctor DEF ConnectionDestructor, Runs, Calls
<1>2. /\ Functor(l) \in OnItsWay(l) /\ Functor(l).op = "Destructor" /\ FunctorDone(l)
      /\ UNCHANGED <<pc, to_do_list_, functors, next_func, accepted, fd_, loop_, connections_>>
      /\ Remove(c)
      /\ state_[c] # "kConnected" => UNCHANGED <<state_, ch_events>>
  BY <1>1, RunningFunctor
     DEF ConnectionDestructor, Runs, Calls, FunctorDone, elvars, clients
<1>3. /\ TypeOK /\ ConnSays(c) /\ TablesSay(c) /\ HoldsAlone(c)
      /\ loop_[c] = l /\ ch_state[c] = "kDeleted" /\ state_[c] = "kDisconnected"
      /\ fd_[c] \in Fds /\ Alive(c) /\ fd_[c] # NoFd
  BY <1>1, <1>2, WayState, Constants
     DEF ServerInv, ConnState, Tables, OneHolder, FunctorSays
<1>4. /\ UNCHANGED <<state_, ch_events>>
      /\ ch_state' = [ch_state EXCEPT ![c] = "kNew"]
      /\ channels_' = [channels_ EXCEPT ![l][fd_[c]] = NoConn]
  BY <1>2, <1>3 DEF Remove
<1>5. /\ ch_state'[c] = "kNew"
      /\ \A d \in Conns \ {c} : ch_state'[d] = ch_state[d]
  BY <1>3, <1>4 DEF TypeOK
<1>6. /\ channels_'[l][fd_[c]] = NoConn /\ channels_[l][fd_[c]] = c
      /\ \A k \in Loops, f \in Fds :
           (k # l \/ f # fd_[c]) => channels_'[k][f] = channels_[k][f]
  BY <1>3, <1>4 DEF TypeOK, TablesSay
<1>7. OneFunctor' /\ \A k \in Loops : OnItsWay(k)' = Others(k, c)
  BY <1>1, <1>2, DoneWay
<1>8. HandIsEmpty'
  BY <1>2, HandKept DEF ServerInv
<1>9. \A d \in Conns : Alive(d)' <=> Alive(d)
  BY <1>2, QueuesKeptAlive
<1>10. OthersKept(c) /\ FunctorsKept(c) /\ Later
  <2>1. \A d \in Conns \ {c}, k \in Loops, f \in Fds :
          channels_'[k][f] = d <=> channels_[k][f] = d
    BY <1>6, Constants
  <2>2. OthersKept(c)
    BY <1>2, <1>4, <1>5, <1>9, <2>1 DEF OthersKept
  <2>. QED
    BY <1>2, <1>7, <2>2, LaterStep DEF FunctorsKept, Others
<1>11. \A k \in Loops : \A g \in OnItsWay(k)' : g.conn # c
  BY <1>7 DEF Others
<1>12. ConnSays(c)'
  BY <1>2, <1>3, <1>4, <1>5 DEF ConnSays
<1>13. TablesSay(c)'
  BY <1>2, <1>3, <1>5, <1>6, Constants DEF TablesSay
<1>14. HoldsAlone(c)'
  BY <1>2, <1>3, <1>9 DEF HoldsAlone
<1>15. LifeQuiet
  <2>1. ~ Coming(c)'
    BY <1>11 DEF Coming
  <2>2. ~ Coming(c)
    <3>1. \A k \in Loops : \A g \in OnItsWay(k) : g.conn = c => g.op # "Established"
      BY <1>3, WayState DEF FunctorSays
    <3>. QED
      BY <3>1 DEF Coming
  <2>3. LessLife(c)
    BY <1>2, <1>4, <1>9, <2>1, <2>2 DEF LessLife
  <2>4. \A d \in Conns \ {c} : LessLife(d)
    BY <1>2, <1>4, <1>9, <1>10, ComingKept DEF LessLife
  <2>. QED
    BY <1>2, <2>3, <2>4 DEF LifeQuiet
<1>. QED
  BY <1>7, <1>8, <1>10, <1>11, <1>12, <1>13, <1>14, <1>15, OneConnection DEF ConnInv, Life

(* A client that is accepted: nothing refers to its connection yet, nor to *)
(* the descriptor it is given.                                             *)
LEMMA FreshConnection ==
  ASSUME ServerInv, Calls(Base, "accept"), FreeFds # {},
         NEW c \in Conns, c = accepted + 1, NEW f \in Fds, f = Min(FreeFds)
  PROVE  /\ \A d \in Conns : fd_[d] = f => ~ Alive(d)
         /\ fd_[c] = NoFd /\ ~ Alive(c) /\ ch_state[c] = "kNew" /\ state_[c] = "kDisconnected"
         /\ connections_[f] = NoConn /\ \A l \in Loops : channels_[l][f] = NoConn
         /\ \A l \in Loops : \A g \in OnItsWay(l) : g.conn # c
         /\ \A l \in Loops, g \in Fds : connections_[g] # c /\ channels_[l][g] # c
<1>1. fd_[c] = NoFd /\ \A d \in Conns : fd_[d] = f => ~ Alive(d)
  BY NewClient
<1>2. HoldsAlone(c) /\ ConnSays(c) /\ TablesSay(c) /\ TypeOK
  BY DEF ServerInv, OneHolder, ConnState, Tables
<1>3. ~ Alive(c) /\ ch_state[c] = "kNew" /\ state_[c] = "kDisconnected"
  BY <1>1, <1>2 DEF HoldsAlone, ConnSays
<1>4. connections_[f] \in {c, NoConn} /\ \A l \in Loops : channels_[l][f] \in {c, NoConn}
  BY <1>1, TablesFree
<1>5. \A l \in Loops, g \in Fds : connections_[g] # c /\ channels_[l][g] # c
  <2>1. \A g \in Fds : connections_[g] # c
    BY <1>3 DEF Alive
  <2>2. \A l \in Loops, g \in Fds : channels_[l][g] # c
    BY <1>2, <1>3 DEF TablesSay
  <2>. QED
    BY <2>1, <2>2
<1>6. ASSUME NEW l \in Loops, NEW g \in OnItsWay(l) PROVE g.conn # c
  <2>1. Alive(g.conn) /\ g.conn \in Conns
    BY WayState
  <2>. QED
    BY <1>3, <2>1
<1>7. connections_[f] = NoConn /\ \A l \in Loops : channels_[l][f] = NoConn
  BY <1>4, <1>5, Constants
<1>. QED
  BY <1>1, <1>3, <1>5, <1>6, <1>7

(* What a new connection is when the step is over, whichever loop has it.  *)
LEMMA AcceptConns ==
  ASSUME ServerInv, TypeOK', NewConnection PROVE ConnInv' /\ Life
<1>0. Calls(Base, "accept") /\ FreeFds # {} /\ Goto(Base, "none") /\ TypeOK /\ Base \in Loops
  BY Constants DEF NewConnection, ServerInv
<1>1. PICK c \in Conns : c = accepted + 1
  BY <1>0, NewClient
<1>2. PICK f \in Fds : f = Min(FreeFds)
  BY <1>0, NewClient
<1>3. PICK l \in Loops : l = NextLoop
  BY <1>0, NewClient
<1> DEFINE fn == [op |-> "Established", conn |-> c]
<1>4. /\ \A d \in Conns : fd_[d] = f => ~ Alive(d)
      /\ fd_[c] = NoFd /\ ~ Alive(c) /\ ch_state[c] = "kNew" /\ state_[c] = "kDisconnected"
      /\ connections_[f] = NoConn /\ \A k \in Loops : channels_[k][f] = NoConn
      /\ \A k \in Loops : \A g \in OnItsWay(k) : g.conn # c
      /\ \A k \in Loops, g \in Fds : connections_[g] # c /\ channels_[k][g] # c
  BY <1>0, <1>1, <1>2, FreshConnection
<1>5. /\ accepted' = c /\ fd_' = [fd_ EXCEPT ![c] = f] /\ loop_' = [loop_ EXCEPT ![c] = l]
      /\ connections_' = [connections_ EXCEPT ![f] = c]
      /\ EL!RunOneFunc(Base, l, fn)
      /\ IF l = Base THEN Established(c, l, f)
                     ELSE UNCHANGED <<state_, ch_state, ch_events, channels_>>
  BY <1>1, <1>2, <1>3 DEF NewConnection
<1>6. /\ fd_'[c] = f /\ loop_'[c] = l /\ connections_'[f] = c /\ f # NoFd
      /\ \A d \in Conns \ {c} : fd_'[d] = fd_[d] /\ loop_'[d] = loop_[d]
      /\ \A g \in Fds \ {f} : connections_'[g] = connections_[g]
  BY <1>0, <1>5, Constants DEF TypeOK
<1>7. \A d \in Conns \ {c}, g \in Fds : connections_'[g] = d <=> connections_[g] = d
  BY <1>4, <1>6, Constants
<1>8. Later /\ accepted' = accepted + 1 /\ c \in Nat
  BY <1>1, <1>5, LaterStep, Constants
<1>9. call \in [Loops -> Control] /\ call[Base] = "accept"
  BY <1>0 DEF TypeOK, Calls
<1>10. ASSUME \A d \in Conns \ {c} : Alive(d)' => Alive(d) PROVE HoldsAlone(c)'
  BY <1>4, <1>6, <1>10 DEF HoldsAlone
<1>11. CASE l = Base
  <2>1. UNCHANGED <<pc, to_do_list_, functors, next_func>> /\ Established(c, l, f)
    BY <1>5, <1>11 DEF EL!RunOneFunc, EL!vars
  <2>2. /\ state_' = [state_ EXCEPT ![c] = "kConnected"]
        /\ ch_events' = [ch_events EXCEPT ![c] = @ \cup {"IN"}]
        /\ ch_state' = [ch_state EXCEPT ![c] = "kAdded"]
        /\ channels_' = [channels_ EXCEPT ![l][f] = c]
    BY <1>0, <1>4, <2>1 DEF Established, Update, TypeOK
  <2>3. /\ state_'[c] = "kConnected" /\ "IN" \in ch_events'[c] /\ ch_state'[c] = "kAdded"
        /\ \A d \in Conns \ {c} : /\ state_'[d] = state_[d] /\ ch_events'[d] = ch_events[d]
                                  /\ ch_state'[d] = ch_state[d]
    BY <1>0, <2>2 DEF TypeOK
  <2>4. /\ channels_'[l][f] = c
        /\ \A k \in Loops, g \in Fds : (k # l \/ g # f) => channels_'[k][g] = channels_[k][g]
    BY <1>0, <2>2 DEF TypeOK
  <2>5. QueuesAlone /\ OneFunctor
    BY <1>0, <1>9, <2>1 DEF QueuesAlone, ToRun, Goto, ServerInv
  <2>6. OneFunctor' /\ \A k \in Loops : OnItsWay(k)' = OnItsWay(k)
    BY <2>5, AloneKeepsFunctors
  <2>7. HandIsEmpty'
    BY <2>1, HandKept DEF ServerInv
  <2>8. \A d \in Conns \ {c} : Alive(d)' <=> Alive(d)
    BY <1>7, <2>1, QueuesKeptAlive
  <2>9. OthersKept(c) /\ FunctorsKept(c)
    <3>1. \A d \in Conns \ {c}, k \in Loops, g \in Fds :
            channels_'[k][g] = d <=> channels_[k][g] = d
      BY <1>4, <2>4, Constants
    <3>. QED
      BY <1>6, <1>7, <2>3, <2>6, <2>8, <3>1 DEF OthersKept, FunctorsKept
  <2>10. \A k \in Loops : \A g \in OnItsWay(k)' : g.conn # c
    BY <1>4, <2>6
  <2>11. ConnSays(c)'
    BY <1>5, <1>6, <1>8, <2>3 DEF ConnSays
  <2>12. TablesSay(c)'
    BY <1>4, <1>6, <2>3, <2>4 DEF TablesSay
  <2>13. LifeAccept
    <3>1. \A d \in Conns \ {c} : SameLife(d)
      BY <1>6, <2>3, <2>8, <2>9, ComingKept DEF SameLife
    <3>2. Alive(c)'
      BY <1>6 DEF Alive
    <3>. QED
      BY <1>1, <1>4, <1>5, <1>6, <2>3, <3>1, <3>2 DEF LifeAccept
  <2>. QED
    BY <1>8, <1>10, <2>6, <2>7, <2>8, <2>9, <2>10, <2>11, <2>12, <2>13, OneConnection
       DEF ConnInv, Life
<1>12. CASE l # Base
  <2>1. /\ Pushes(l, fn) /\ fn \in Funcs /\ fn.conn = c
        /\ UNCHANGED <<pc, functors, next_func, state_, ch_state, ch_events, channels_>>
    BY <1>5, <1>12 DEF EL!RunOneFunc, EL!QueueOneFunc, Pushes, Funcs
  <2>2. \A k \in Loops : ToRun(k)' = ToRun(k)
    BY <1>0, <1>9, <2>1 DEF ToRun, Goto
  <2>3. OneFunctor' /\ \A k \in Loops :
          OnItsWay(k)' = Others(k, c) \cup (IF k = l THEN {fn} ELSE {})
    BY <1>4, <2>1, <2>2, PushWay
  <2>4. HandIsEmpty'
    BY <2>1, HandKept DEF ServerInv
  <2>5. Alive(c)' /\ \A d \in Conns \ {c} : Alive(d)' <=> Alive(d)
    BY <1>0, <1>7, <2>1, PushedAlive
  <2>6. OthersKept(c) /\ FunctorsKept(c)
    BY <1>6, <1>7, <2>1, <2>3, <2>5 DEF OthersKept, FunctorsKept, Others
  <2>7. ASSUME NEW k \in Loops, NEW g \in OnItsWay(k)', g.conn = c PROVE FunctorSays(k, g)'
    <3>1. k = l /\ g = fn
      BY <2>3, <2>7 DEF Others
    <3>. QED
      BY <1>4, <1>6, <2>1, <3>1 DEF FunctorSays
  <2>8. ConnSays(c)'
    BY <1>4, <1>5, <1>6, <1>8, <2>1 DEF ConnSays
  <2>9. TablesSay(c)'
    BY <1>4, <1>6, <2>1 DEF TablesSay
  <2>10. LifeAccept
    <3>1. \A d \in Conns \ {c} : SameLife(d)
      BY <1>6, <2>1, <2>5, <2>6, ComingKept DEF SameLife
    <3>2. Coming(c)'
      BY <2>3 DEF Coming
    <3>. QED
      BY <1>1, <1>4, <1>5, <1>6, <2>5, <3>1, <3>2 DEF LifeAccept
  <2>. QED
    BY <1>8, <1>10, <2>3, <2>4, <2>5, <2>6, <2>7, <2>8, <2>9, <2>10, OneConnection
       DEF ConnInv, Life
<1>. QED
  BY <1>11, <1>12

LEMMA ConnsStep == ASSUME ServerInv, [Next]_vars PROVE ConnInv' /\ Life
<1>1. TypeOK'
  BY TypesStep
<1>2. CASE Client \/ UNCHANGED vars
  BY <1>1, <1>2, ClientConns
<1>3. ASSUME NEW l \in Loops, ThreadStep(l) PROVE ConnInv' /\ Life
  BY <1>1, <1>3, LoopConns, QuietHandlers, CloseConns, EstablishConns, CloseInLoopConns,
     DestructorConns, AcceptConns DEF ThreadStep
<1>. QED
  BY <1>2, <1>3 DEF Next

-----------------------------------------------------------------------------
(* What runs inside the handlers, under every step.                        *)
LEMMA IdleLoop ==
  ASSUME ServerInv, NEW l \in Loops, pc[l] \notin {"handler", "functor"}
  PROVE  call[l] = "none" /\ current[l] = NoOne
  BY DEF ServerInv, TypeOK, EL!TypeOK

LEMMA ClientHandlers == ASSUME ServerInv, TypeOK', Client \/ UNCHANGED vars PROVE Handlers'
<1>1. /\ UNCHANGED <<pc, current, active_channels_, call, accepted, loop_, ch_state>>
      /\ connected' \in {connected, connected + 1}
  BY DEF Client, Connect, SendData, Hangup, vars, clients, elvars, conns
<1>2. connected \in Nat /\ accepted \in Nat
  BY TcpServerAssumption DEF ServerInv, TypeOK
<1>3. ASSUME NEW l \in Loops PROVE HandlerSays(l)'
  <2>1. HandlerSays(l)
    BY DEF ServerInv, Handlers
  <2>. QED
    BY <1>1, <1>2, <2>1 DEF HandlerSays
<1>. QED
  BY <1>3 DEF Handlers

(* A handler or functor has run, and its loop has nothing left to call, or *)
(* HandleWrite.                                                            *)
LEMMA CalledHandlers ==
  ASSUME ServerInv, TypeOK', NEW l \in Loops, UNCHANGED <<pc, current, active_channels_, connected>>,
         NEW to \in {"none", "write"}, Goto(l, to), to = "write" => call[l] = "read",
         accepted' = accepted \/ (l = Base /\ call[l] = "accept"),
         \A d \in Conns : ch_state[d] # "kNew" => loop_'[d] = loop_[d],
         \A k \in Loops : /\ \A d \in active_channels_[k] \cap Conns : ch_state'[d] = "kAdded"
                          /\ current[k] \in Conns => ch_state'[current[k]] # "kNew",
         \A k \in Loops \ {l} : call[k] = "read" => ch_state'[current[k]] = "kAdded"
  PROVE  Handlers'
<1>0. call \in [Loops -> Control]
  BY DEF ServerInv, TypeOK
<1>1. call'[l] = to /\ \A k \in Loops \ {l} : call'[k] = call[k]
  BY <1>0 DEF Goto
<1>2. ASSUME NEW k \in Loops PROVE HandlerSays(k)'
  <2>1. HandlerSays(k)
    BY DEF ServerInv, Handlers
  <2>2. CASE k = l
    <3>1. ListenChannel \in active_channels_[l] => l = Base /\ accepted' < connected
      BY <2>1, <2>2 DEF HandlerSays
    <3>. QED
      BY <1>1, <2>1, <2>2, <3>1 DEF HandlerSays
  <2>3. CASE k # l
    <3>1. ListenChannel \in active_channels_[k] \/ call[k] = "accept" =>
            k = Base /\ accepted' < connected
      BY <2>1, <2>3 DEF HandlerSays
    <3>. QED
      BY <1>1, <2>1, <2>3, <3>1 DEF HandlerSays
  <2>. QED
    BY <2>2, <2>3
<1>. QED
  BY <1>2 DEF Handlers

LEMMA PollHandlers == ASSUME ServerInv, TypeOK', NEW l \in Loops, Poll(l) PROVE Handlers'
<1>1. PICK S : /\ EL!Poll(l, S)
               /\ \A c \in S \cap Conns : loop_[c] = l /\ ch_state[c] = "kAdded"
               /\ S \subseteq Channels \cup {WakeupChannel}
               /\ ListenChannel \in S => l = Base /\ accepted < connected
  <2>1. PICK W \in SUBSET {c \in Conns : Registered(l, c) /\ "OUT" \in ch_events[c]} :
          EL!Poll(l, ReadReady(l) \cup W
                       \cup (IF l = Base /\ accepted < connected THEN {ListenChannel} ELSE {})
                       \cup (IF wakeup_fd_[l] THEN {WakeupChannel} ELSE {}))
    BY DEF Poll
  <2> DEFINE S == ReadReady(l) \cup W
                    \cup (IF l = Base /\ accepted < connected THEN {ListenChannel} ELSE {})
                    \cup (IF wakeup_fd_[l] THEN {WakeupChannel} ELSE {})
  <2>2. /\ ReadReady(l) \subseteq Conns /\ W \subseteq Conns
        /\ \A c \in ReadReady(l) \cup W : loop_[c] = l /\ ch_state[c] = "kAdded"
    BY DEF ReadReady, Registered
  <2>3. S \subseteq Channels \cup {WakeupChannel}
    BY <2>2, Constants
  <2>4. \A c \in S \cap Conns : c \in ReadReady(l) \cup W
    BY Constants
  <2>5. ListenChannel \in S => l = Base /\ accepted < connected
    BY <2>2, Constants
  <2>. QED
    BY <2>1, <2>2, <2>3, <2>4, <2>5
<1>2. /\ active_channels_' = [active_channels_ EXCEPT ![l] = S] /\ current' = current
      /\ pc' = [pc EXCEPT ![l] = "dispatch"] /\ pc[l] = "poll"
      /\ UNCHANGED <<call, connected, accepted, loop_, ch_state>>
  BY <1>1 DEF Poll, EL!Poll, clients
<1>3. /\ active_channels_ \in [Loops -> SUBSET (Channels \cup {WakeupChannel})]
      /\ pc \in [Loops -> EL!Control]
  BY DEF ServerInv, TypeOK, EL!TypeOK
<1>4. call[l] = "none" /\ current[l] = NoOne
  BY <1>2, IdleLoop
<1>5. ASSUME NEW k \in Loops PROVE HandlerSays(k)'
  <2>1. HandlerSays(k)
    BY DEF ServerInv, Handlers
  <2>2. CASE k = l
    <3>1. active_channels_'[l] = S
      BY <1>2, <1>3
    <3>. QED
      BY <1>1, <1>2, <1>4, <2>2, <3>1, Constants DEF HandlerSays
  <2>3. CASE k # l
    <3>1. active_channels_'[k] = active_channels_[k] /\ pc'[k] = pc[k]
      BY <1>2, <1>3, <2>3
    <3>. QED
      BY <1>2, <2>1, <3>1 DEF HandlerSays
  <2>. QED
    BY <2>2, <2>3
<1>. QED
  BY <1>5 DEF Handlers

LEMMA EventHandlers ==
  ASSUME ServerInv, TypeOK', NEW l \in Loops, NEW ch \in Channels, HandleEvent(l, ch)
  PROVE  Handlers'
<1>1. /\ active_channels_' = [active_channels_ EXCEPT ![l] = @ \ {ch}]
      /\ current' = [current EXCEPT ![l] = ch]
      /\ pc' = [pc EXCEPT ![l] = "handler"] /\ ch \in active_channels_[l]
      /\ call' = [call EXCEPT ![l] =
                    IF ch = ListenChannel THEN "accept"
                    ELSE IF "IN" \in recv_events_[ch] THEN "read" ELSE "write"]
      /\ UNCHANGED <<connected, accepted, loop_, ch_state>>
  BY DEF HandleEvent, EL!HandleEvent, clients, conns
<1>2. /\ active_channels_ \in [Loops -> SUBSET (Channels \cup {WakeupChannel})]
      /\ pc \in [Loops -> EL!Control] /\ call \in [Loops -> Control]
      /\ current \in [Loops -> Channels \cup {NoOne}]
  BY DEF ServerInv, TypeOK, EL!TypeOK
<1>3. ASSUME NEW k \in Loops PROVE HandlerSays(k)'
  <2>1. HandlerSays(k)
    BY DEF ServerInv, Handlers
  <2>2. CASE k = l
    <3>1. /\ active_channels_'[l] = active_channels_[l] \ {ch} /\ current'[l] = ch
          /\ pc'[l] = "handler"
      BY <1>1, <1>2
    <3>2. CASE ch = ListenChannel
      <4>1. call'[l] = "accept" /\ ch \notin Conns
        BY <1>1, <1>2, <3>2, Constants
      <4>. QED
        BY <1>1, <2>1, <2>2, <3>1, <3>2, <4>1 DEF HandlerSays
    <3>3. CASE ch # ListenChannel
      <4>1. call'[l] \in {"read", "write"} /\ ch \in Conns
        BY <1>1, <1>2, <3>3 DEF Channels
      <4>. QED
        BY <1>1, <2>1, <2>2, <3>1, <4>1 DEF HandlerSays
    <3>. QED
      BY <3>2, <3>3
  <2>3. CASE k # l
    <3>1. /\ active_channels_'[k] = active_channels_[k] /\ pc'[k] = pc[k]
          /\ current'[k] = current[k] /\ call'[k] = call[k]
      BY <1>1, <1>2, <2>3
    <3>. QED
      BY <1>1, <2>1, <3>1 DEF HandlerSays
  <2>. QED
    BY <2>2, <2>3
<1>. QED
  BY <1>3 DEF Handlers

LEMMA LoopHandlers ==
  ASSUME ServerInv, TypeOK', NEW l \in Loops, RunFunctor(l) \/ LoopStep(l) PROVE Handlers'
<1>1. UNCHANGED <<connected, accepted, loop_, ch_state>>
  BY DEF RunFunctor, LoopStep, clients, conns
<1>2. /\ active_channels_ \in [Loops -> SUBSET (Channels \cup {WakeupChannel})]
      /\ pc \in [Loops -> EL!Control] /\ call \in [Loops -> Control]
      /\ current \in [Loops -> Channels \cup {NoOne}]
  BY DEF ServerInv, TypeOK, EL!TypeOK
<1>3. \A k \in Loops \ {l} : /\ active_channels_'[k] = active_channels_[k] /\ pc'[k] = pc[k]
                             /\ current'[k] = current[k] /\ call'[k] = call[k]
  BY <1>2 DEF RunFunctor, LoopStep, EL!RunFunctor, EL!HandleRead, EL!SwapToDoList,
              EL!EndToDoList, EL!WakeUp, EL!EndHandler, EL!EndFunctor
<1>4. active_channels_'[l] \in {active_channels_[l], active_channels_[l] \ {WakeupChannel}}
  BY <1>2 DEF RunFunctor, LoopStep, EL!RunFunctor, EL!HandleRead, EL!SwapToDoList,
              EL!EndToDoList, EL!WakeUp, EL!EndHandler, EL!EndFunctor
<1>5. \/ call'[l] = call[l] /\ pc'[l] = pc[l] /\ current'[l] = current[l]
      \/ call'[l] = "none" /\ call[l] = "none" /\ current'[l] \in {current[l], NoOne}
      \/ call'[l] = "functor" /\ call[l] = "none" /\ pc'[l] = "functor" /\ current'[l] = current[l]
  <2>1. CASE RunFunctor(l)
    BY <1>2, <2>1, IdleLoop DEF RunFunctor, EL!RunFunctor
  <2>2. CASE LoopStep(l) /\ (EL!HandleRead(l) \/ EL!WakeUp(l))
    BY <2>2 DEF LoopStep, EL!HandleRead, EL!WakeUp
  <2>3. CASE LoopStep(l) /\ (EL!SwapToDoList(l) \/ EL!EndToDoList(l))
    BY <2>3, IdleLoop DEF LoopStep, EL!SwapToDoList, EL!EndToDoList
  <2>4. CASE LoopStep(l) /\ call[l] = "none" /\ (EL!EndHandler(l) \/ EL!EndFunctor(l))
    BY <1>2, <2>4 DEF LoopStep, EL!EndHandler, EL!EndFunctor
  <2>. QED
    BY <2>1, <2>2, <2>3, <2>4 DEF LoopStep
<1>6. ASSUME NEW k \in Loops PROVE HandlerSays(k)'
  <2>1. HandlerSays(k)
    BY DEF ServerInv, Handlers
  <2>2. CASE k = l
    <3>1. NoOne \notin active_channels_[l] /\ NoOne \notin Conns
      BY <1>2, Constants
    <3>. QED
      BY <1>1, <1>4, <1>5, <2>1, <2>2, <3>1 DEF HandlerSays
  <2>3. CASE k # l
    BY <1>1, <1>3, <2>1, <2>3 DEF HandlerSays
  <2>. QED
    BY <2>2, <2>3
<1>. QED
  BY <1>6 DEF Handlers

LEMMA CurrentState ==
  ASSUME ServerInv, NEW l \in Loops
  PROVE  /\ \A d \in active_channels_[l] \cap Conns :
              loop_[d] = l /\ ch_state[d] = "kAdded" /\ d # current[l]
         /\ current[l] \in Conns => loop_[current[l]] = l /\ ch_state[current[l]] # "kNew"
         /\ call[l] = "read" => current[l] \in Conns /\ ch_state[current[l]] = "kAdded"
  BY DEF ServerInv, Handlers, HandlerSays

(* The steps that leave every channel where it is.                         *)
LEMMA QuietCalled ==
  ASSUME ServerInv, TypeOK', NEW l \in Loops,
         \/ HandleMessage(l) \/ ReadError(l) \/ HandleWrite(l)
         \/ (l = Base /\ RefuseConnection) \/ HandleCloseInLoop(l)
  PROVE  Handlers'
<1>1. /\ UNCHANGED <<pc, current, active_channels_, connected, loop_>>
      /\ accepted' = accepted \/ (l = Base /\ call[l] = "accept")
      /\ \E to \in {"none", "write"} : Goto(l, to) /\ (to = "write" => call[l] = "read")
  BY DEF HandleMessage, ReadError, HandleWrite, RefuseConnection, HandleCloseInLoop,
         EL!QueueOneFunc, elvars, clients, conns, Calls, AfterRead
<1>2. \A d \in Conns : ch_state[d] = "kAdded" => ch_state'[d] = "kAdded" \/ d = current[l]
  BY DEF HandleMessage, ReadError, HandleWrite, RefuseConnection, HandleCloseInLoop, conns,
         Update, ServerInv, TypeOK
<1>3. \A d \in Conns : ch_state[d] # "kNew" => ch_state'[d] # "kNew"
  BY DEF HandleMessage, ReadError, HandleWrite, RefuseConnection, HandleCloseInLoop, conns,
         Update, ServerInv, TypeOK
<1>4. \A k \in Loops : /\ \A d \in active_channels_[k] \cap Conns : ch_state'[d] = "kAdded"
                       /\ current[k] \in Conns => ch_state'[current[k]] # "kNew"
  BY <1>2, <1>3, CurrentState
<1>5. \A k \in Loops \ {l} : call[k] = "read" => ch_state'[current[k]] = "kAdded"
  BY <1>2, CurrentState
<1>. QED
  BY <1>1, <1>4, <1>5, CalledHandlers

LEMMA CloseCalled ==
  ASSUME ServerInv, TypeOK', NEW l \in Loops, HandleClose(l) PROVE Handlers'
<1>1. /\ UNCHANGED <<pc, current, active_channels_, connected, accepted, loop_>>
      /\ \E to \in {"none", "write"} : Goto(l, to) /\ (to = "write" => call[l] = "read")
  BY DEF HandleClose, EL!QueueOneFunc, clients, Calls, AfterRead
<1>2. current[l] \in Conns /\ loop_[current[l]] = l /\ ch_state[current[l]] = "kAdded"
  BY CurrentConn DEF HandleClose, Calls
<1>3. ch_state' = [ch_state EXCEPT ![current[l]] = "kDeleted"]
  BY <1>2 DEF HandleClose, Update, ServerInv, TypeOK
<1>4. \A d \in Conns : ch_state'[d] = IF d = current[l] THEN "kDeleted" ELSE ch_state[d]
  BY <1>2, <1>3 DEF ServerInv, TypeOK
<1>5. \A k \in Loops : /\ \A d \in active_channels_[k] \cap Conns : ch_state'[d] = "kAdded"
                       /\ current[k] \in Conns => ch_state'[current[k]] # "kNew"
  BY <1>2, <1>4, CurrentState
<1>6. \A k \in Loops \ {l} : call[k] = "read" => ch_state'[current[k]] = "kAdded"
  BY <1>2, <1>4, CurrentState
<1>. QED
  BY <1>1, <1>5, <1>6, CalledHandlers

LEMMA EstablishCalled ==
  ASSUME ServerInv, TypeOK', NEW l \in Loops, ConnectionEstablished(l) PROVE Handlers'
<1>1. /\ UNCHANGED <<pc, current, active_channels_, connected, accepted, loop_>>
      /\ Goto(l, "none")
  BY DEF ConnectionEstablished, elvars, clients
<1>2. \A d \in Conns : ch_state'[d] \in {ch_state[d], "kAdded"}
  <2>1. ch_events[Functor(l).conn] \cup {"IN"} # {}
    OBVIOUS
  <2>. QED
    BY <2>1 DEF ConnectionEstablished, Established, Update, ServerInv, TypeOK
<1>3. \A k \in Loops : /\ \A d \in active_channels_[k] \cap Conns : ch_state'[d] = "kAdded"
                       /\ current[k] \in Conns => ch_state'[current[k]] # "kNew"
  BY <1>2, CurrentState
<1>4. \A k \in Loops \ {l} : call[k] = "read" => ch_state'[current[k]] = "kAdded"
  BY <1>2, CurrentState
<1>. QED
  BY <1>1, <1>3, <1>4, CalledHandlers

LEMMA DestructorCalled ==
  ASSUME ServerInv, TypeOK', NEW l \in Loops, ConnectionDestructor(l) PROVE Handlers'
<1>1. /\ UNCHANGED <<pc, current, active_channels_, connected, accepted, loop_>>
      /\ Goto(l, "none")
  BY DEF ConnectionDestructor, elvars, clients
<1>2. PICK c \in Conns : c = Functor(l).conn
  BY RunningFunctor DEF ConnectionDestructor, Runs, Calls
<1>3. /\ loop_[c] = l /\ ch_state[c] = "kDeleted" /\ current[l] = NoOne
      /\ ch_state' = [ch_state EXCEPT ![c] = "kNew"]
  BY <1>2, RunningFunctor, WayState
     DEF ConnectionDestructor, Runs, Calls, Remove, FunctorSays
<1>4. \A d \in Conns \ {c} : ch_state'[d] = ch_state[d]
  BY <1>3 DEF ServerInv, TypeOK
<1>5. \A k \in Loops : current[k] # c
  BY <1>3, CurrentState, Constants
<1>6. \A k \in Loops : /\ \A d \in active_channels_[k] \cap Conns : ch_state'[d] = "kAdded"
                       /\ current[k] \in Conns => ch_state'[current[k]] # "kNew"
  BY <1>3, <1>4, <1>5, CurrentState
<1>7. \A k \in Loops \ {l} : call[k] = "read" => ch_state'[current[k]] = "kAdded"
  BY <1>4, <1>5, CurrentState
<1>. QED
  BY <1>1, <1>6, <1>7, CalledHandlers

LEMMA AcceptCalled == ASSUME ServerInv, TypeOK', NewConnection PROVE Handlers'
<1>0. Calls(Base, "accept") /\ FreeFds # {} /\ Base \in Loops /\ TypeOK
  BY Constants DEF NewConnection, ServerInv
<1>1. PICK c \in Conns : c = accepted + 1
  BY <1>0, NewClient
<1>2. /\ UNCHANGED <<pc, current, active_channels_, connected>> /\ Goto(Base, "none")
      /\ call[Base] = "accept" /\ loop_' = [loop_ EXCEPT ![c] = NextLoop]
  BY <1>0, <1>1
     DEF NewConnection, EL!RunOneFunc, EL!QueueOneFunc, EL!vars, Calls
<1>3. ch_state[c] = "kNew"
  BY <1>0, <1>1, NewClient DEF ServerInv, ConnState, ConnSays
<1>4. \A d \in Conns : ch_state'[d] \in {ch_state[d], "kAdded"}
  <2>1. \/ ch_state' = ch_state
        \/ \E d \in Conns, f \in Fds, l \in Loops :
             Update(d, l, f, ch_events[d] \cup {"IN"})
    BY <1>0, <1>1, NewClient DEF NewConnection, Established
  <2>2. ASSUME NEW d \in Conns, NEW f \in Fds, NEW l \in Loops,
               Update(d, l, f, ch_events[d] \cup {"IN"})
        PROVE  \A e \in Conns : ch_state'[e] \in {ch_state[e], "kAdded"}
    <3>1. ch_events[d] \cup {"IN"} # {}
      OBVIOUS
    <3>. QED
      BY <1>0, <2>2, <3>1 DEF Update, TypeOK
  <2>. QED
    BY <2>1, <2>2
<1>5. \A d \in Conns : ch_state[d] # "kNew" => loop_'[d] = loop_[d]
  BY <1>0, <1>2, <1>3 DEF TypeOK
<1>6. \A k \in Loops : /\ \A d \in active_channels_[k] \cap Conns : ch_state'[d] = "kAdded"
                       /\ current[k] \in Conns => ch_state'[current[k]] # "kNew"
  BY <1>4, CurrentState
<1>7. \A k \in Loops \ {Base} : call[k] = "read" => ch_state'[current[k]] = "kAdded"
  BY <1>4, CurrentState
<1>. QED
  BY <1>0, <1>2, <1>5, <1>6, <1>7, CalledHandlers

LEMMA HandlersStep == ASSUME ServerInv, [Next]_vars PROVE Handlers'
<1>1. TypeOK'
  BY TypesStep
<1>2. CASE Client \/ UNCHANGED vars
  BY <1>1, <1>2, ClientHandlers
<1>3. ASSUME NEW l \in Loops, ThreadStep(l) PROVE Handlers'
  BY <1>1, <1>3, PollHandlers, EventHandlers, LoopHandlers, QuietCalled, CloseCalled,
     EstablishCalled, DestructorCalled, AcceptCalled DEF ThreadStep
<1>. QED
  BY <1>2, <1>3 DEF Next

-----------------------------------------------------------------------------
(* The server starts with no connections, and nothing on its way.          *)
LEMMA InitServer == Init => ServerInv
<1> SUFFICES ASSUME Init PROVE ServerInv
  OBVIOUS
<1>1. \A l \in Loops : /\ to_do_list_[l] = <<>> /\ functors[l] = <<>> /\ next_func[l] = 0
                       /\ pc[l] = "poll" /\ current[l] = NoOne /\ active_channels_[l] = {}
                       /\ call[l] = "none"
  BY DEF Init, EL!Init
<1>2. \A l \in Loops : OnItsWay(l) = {} /\ ToRun(l) = {}
  BY <1>1 DEF OnItsWay, ToRun
<1>3. TypeOK
  <2>1. LoopTypes
    BY Constants, TcpServerAssumption DEF LoopTypes, EL!TypeOK, EL!Control, Init, EL!Init
  <2>2. Workers # <<>> => 0 < Len(Workers)
    BY TcpServerAssumption, EmptySeq
  <2>. QED
    BY <2>1, <2>2, TcpServerAssumption, <1>1
       DEF Init, TypeOK, LoopTypes, Control
<1>4. Handlers
  BY <1>1, Constants DEF Handlers, HandlerSays
<1>5. HandIsEmpty /\ OneFunctor /\ FunctorState
  BY <1>1, <1>2 DEF HandIsEmpty, OneFunctor, FunctorState
<1>6. ConnState
  BY Constants DEF Init, ConnState, ConnSays
<1>7. Tables
  BY Constants DEF Init, Tables, TablesSay
<1>8. OneHolder
  <2>1. \A c \in Conns : ~ Alive(c)
    BY <1>1, Constants DEF Init, Alive, Refers
  <2>. QED
    BY <2>1 DEF OneHolder, HoldsAlone
<1>. QED
  BY <1>3, <1>4, <1>5, <1>6, <1>7, <1>8 DEF ServerInv

LEMMA ServerInvariant == Spec => []ServerInv
<1>1. ServerInv /\ [Next]_vars => ServerInv'
  BY TypesStep, ConnsStep, HandlersStep DEF ServerInv, ConnInv
<1>. QED
  BY InitServer, <1>1, PTL DEF Spec

(* Every reachable state is one the types allow: a call is under way only  *)
(* inside a handler or a functor, next_ stays within the pool, and no more *)
(* clients are accepted than have connected.                               *)
THEOREM ServerTypeCorrect == Spec => []TypeOK
<1>1. ServerInv => TypeOK
  BY DEF ServerInv
<1>. QED
  BY ServerInvariant, <1>1, PTL

(* A raw Channel pointer in epoll, in channels_, on a list of active       *)
(* channels or in a running HandleEvent belongs to a connection that is    *)
(* still alive, so nothing is read after it has been freed.                *)
THEOREM ChannelsAreAlive == Spec => []NoUseAfterFree
<1>1. ASSUME ServerInv PROVE NoUseAfterFree
  <2>1. ASSUME NEW l \in Loops, NEW c \in Conns,
               \/ current[l] = c \/ c \in active_channels_[l]
               \/ \E f \in Fds : channels_[l][f] = c
               \/ loop_[c] = l /\ ch_state[c] # "kNew"
        PROVE  ch_state[c] # "kNew"
    BY <1>1, <2>1, CurrentState DEF ServerInv, Tables, TablesSay
  <2>. QED
    BY <1>1, <2>1, ChannelAlive DEF NoUseAfterFree
<1>. QED
  BY ServerInvariant, <1>1, PTL

(* The assertions of ConnectionEstablished, HandleCloseInLoop and          *)
(* ConnectionDestructor hold for every functor from the moment it is       *)
(* queued: no other thread can invalidate them meanwhile.                  *)
THEOREM FunctorsAreSound == Spec => []FunctorsFindTheirState
<1>1. ASSUME ServerInv, NEW l \in Loops, NEW fn \in OnItsWay(l)
      PROVE  LET c == fn.conn IN
             CASE fn.op = "Established" -> /\ channels_[l][fd_[c]] = NoConn
                                           /\ ch_state[c] = "kNew"
                                           /\ loop_[c] = l
               [] fn.op = "CloseInLoop" -> /\ connections_[fd_[c]] = c
                                           /\ state_[c] = "kDisconnected"
                                           /\ l = Base
               [] fn.op = "Destructor"  -> /\ channels_[l][fd_[c]] = c
                                           /\ ch_state[c] # "kNew"
                                           /\ loop_[c] = l
  <2>1. PICK c \in Conns : c = fn.conn
    BY <1>1, WayState
  <2>2. /\ FunctorSays(l, fn) /\ Alive(c) /\ fd_[c] \in Fds
        /\ fn.op \in {"Established", "CloseInLoop", "Destructor"}
    BY <1>1, <2>1, WayState
  <2>3. TablesSay(c) /\ HoldsAlone(c)
    BY <1>1 DEF ServerInv, Tables, OneHolder
  <2>4. CASE fn.op = "Established"
    <3>1. channels_[l][fd_[c]] \in {c, NoConn}
      BY <1>1, <2>2, <2>3, TablesFree DEF HoldsAlone
    <3>2. channels_[l][fd_[c]] # c
      BY <2>1, <2>2, <2>3, <2>4 DEF TablesSay, FunctorSays
    <3>. QED
      BY <2>1, <2>2, <2>4, <3>1, <3>2 DEF FunctorSays
  <2>5. CASE fn.op = "CloseInLoop"
    BY <2>1, <2>2, <2>5 DEF FunctorSays
  <2>6. CASE fn.op = "Destructor"
    BY <2>1, <2>2, <2>3, <2>6 DEF FunctorSays, TablesSay
  <2>. QED
    BY <2>2, <2>4, <2>5, <2>6
<1>2. ServerInv => FunctorsFindTheirState
  BY <1>1 DEF FunctorsFindTheirState
<1>. QED
  BY ServerInvariant, <1>2, PTL

-----------------------------------------------------------------------------
(* The server as ConnectionLife sees it.                                   *)
Phases == [c \in Conns |-> Phase(c)]
Holders == [f \in Fds |-> Holder(f)]

PhaseIs(c) ==
  Phase(c) = IF fd_[c] = NoFd THEN (IF c <= accepted THEN "gone" ELSE "absent")
             ELSE IF ~ Alive(c) THEN "gone"
             ELSE IF Coming(c) THEN "accepted"
             ELSE IF state_[c] = "kConnected" THEN "up" ELSE "closing"

HolderIs(f) ==
  /\ Holder(f) \in Conns \cup {NoConn}
  /\ \A c \in Conns : Holder(f) = c <=> (Alive(c) /\ fd_[c] = f)

LifeIs(c) ==
  /\ Coming(c) => Alive(c)
  /\ state_[c] = "kConnected" => Alive(c) /\ ~ Coming(c)
  /\ Alive(c) => fd_[c] # NoFd
  /\ fd_[c] # NoFd => c <= accepted

MapInv ==
  /\ \A c \in Conns : PhaseIs(c) /\ LifeIs(c)
  /\ \A f \in Fds : HolderIs(f)
  /\ accepted \in Nat /\ accepted <= MaxConn

LEMMA MapInvariant == ServerInv => MapInv
<1> SUFFICES ASSUME ServerInv PROVE MapInv
  OBVIOUS
<1>1. ASSUME NEW c \in Conns PROVE PhaseIs(c)
  BY DEF PhaseIs, Phase, Served, Coming
<1>2. ASSUME NEW c \in Conns PROVE LifeIs(c)
  <2>1. TypeOK /\ HoldsAlone(c) /\ ConnSays(c) /\ c \in Nat
    BY Constants DEF ServerInv, OneHolder, ConnState
  <2>2. ASSUME Coming(c) PROVE Alive(c) /\ state_[c] # "kConnected"
    <3>1. PICK l \in Loops : [op |-> "Established", conn |-> c] \in OnItsWay(l)
      BY <2>2 DEF Coming
    <3>2. PICK fn \in OnItsWay(l) : fn = [op |-> "Established", conn |-> c]
      BY <3>1
    <3>3. FunctorSays(l, fn) /\ fn.conn = c /\ Alive(fn.conn)
      BY <3>2, WayState
    <3>. QED
      BY <3>3 DEF FunctorSays
  <2>3. state_[c] = "kConnected" => Alive(c)
    <3>1. state_[c] = "kConnected" => ch_state[c] # "kNew"
      BY <2>1 DEF ConnSays
    <3>. QED
      BY <3>1, ChannelAlive
  <2>4. fd_[c] # NoFd => c <= accepted
    BY <2>1, TcpServerAssumption DEF ConnSays, TypeOK
  <2>5. Alive(c) => fd_[c] # NoFd
    BY <2>1 DEF HoldsAlone
  <2>. QED
    BY <2>2, <2>3, <2>4, <2>5 DEF LifeIs
<1>3. ASSUME NEW f \in Fds PROVE HolderIs(f)
  <2>1. CASE f \in FreeFds
    BY <2>1, Constants DEF Holder, HolderIs, FreeFds
  <2>2. CASE f \notin FreeFds
    <3>1. PICK c \in Conns : fd_[c] = f /\ Alive(c)
      BY <2>2 DEF FreeFds
    <3>2. \A d \in Conns : fd_[d] = f /\ Alive(d) => d = c
      BY <3>1 DEF ServerInv, OneHolder, HoldsAlone
    <3>3. Holder(f) = CHOOSE d \in Conns : fd_[d] = f /\ Alive(d)
      BY <2>2 DEF Holder
    <3>4. Holder(f) = c
      BY <3>1, <3>2, <3>3
    <3>. QED
      BY <3>1, <3>2, <3>4 DEF HolderIs
  <2>. QED
    BY <2>1, <2>2
<1>4. accepted \in Nat /\ accepted <= MaxConn
  BY TcpServerAssumption DEF ServerInv, TypeOK
<1>. QED
  BY <1>1, <1>2, <1>3, <1>4 DEF MapInv

(* The steps of ConnectionLife.                                            *)
AsAccept(c, f) ==
  /\ Phases[c] = "absent" /\ Holders[f] = NoConn
  /\ \E p \in {"accepted", "up"} : Phases' = [Phases EXCEPT ![c] = p]
  /\ Holders' = [Holders EXCEPT ![f] = c]

AsMove(c, from, to) ==
  Phases[c] = from /\ Phases' = [Phases EXCEPT ![c] = to] /\ Holders' = Holders

AsFree(C) ==
  /\ \A c \in C : Phases[c] = "closing"
  /\ Phases' = [c \in Conns |-> IF c \in C THEN "gone" ELSE Phases[c]]
  /\ Holders' = [f \in Fds |-> IF Holders[f] \in C THEN NoConn ELSE Holders[f]]

LEMMA SamePhase ==
  ASSUME MapInv, MapInv', NEW d \in Conns, SameLife(d),
         d <= accepted' <=> d <= accepted
  PROVE  Phase(d)' = Phase(d)
<1>1. PhaseIs(d) /\ PhaseIs(d)'
  BY DEF MapInv
<1>. QED
  BY <1>1 DEF PhaseIs, SameLife

LEMMA SameHolders ==
  ASSUME MapInv, MapInv', NEW f \in Fds,
         \A d \in Conns : (Alive(d)' /\ fd_'[d] = f) <=> (Alive(d) /\ fd_[d] = f)
  PROVE  Holder(f)' = Holder(f)
<1>1. /\ Holder(f) \in Conns \cup {NoConn} /\ Holder(f)' \in Conns \cup {NoConn}
      /\ \A c \in Conns : Holder(f) = c <=> (Alive(c) /\ fd_[c] = f)
      /\ \A c \in Conns : Holder(f)' = c <=> (Alive(c)' /\ fd_'[c] = f)
  BY DEF MapInv, HolderIs
<1>. QED
  BY <1>1

LEMMA QuietMaps ==
  ASSUME MapInv, MapInv', LifeQuiet PROVE \E C \in SUBSET Conns : AsFree(C)
<1> DEFINE C == {c \in Conns : Alive(c) /\ ~ Alive(c)'}
<1>1. \A d \in Conns : LessLife(d) /\ accepted' = accepted
  BY DEF LifeQuiet
<1>2. ASSUME NEW d \in C PROVE Phase(d) = "closing" /\ Phase(d)' = "gone"
  <2>1. d \in Conns /\ Alive(d) /\ ~ Alive(d)' /\ LessLife(d)
    BY <1>1, <1>2
  <2>2. PhaseIs(d) /\ LifeIs(d) /\ PhaseIs(d)' /\ LifeIs(d)'
    BY <2>1 DEF MapInv
  <2>3. ~ Coming(d) /\ state_[d] # "kConnected" /\ fd_[d] # NoFd /\ fd_'[d] # NoFd
    BY <2>1, <2>2 DEF LifeIs, LessLife
  <2>. QED
    BY <2>1, <2>2, <2>3 DEF PhaseIs
<1>3. ASSUME NEW d \in Conns \ C PROVE Phase(d)' = Phase(d)
  <2>1. SameLife(d)
    BY <1>1 DEF LessLife, SameLife
  <2>. QED
    BY <1>1, <2>1, SamePhase
<1>4. ASSUME NEW f \in Fds
      PROVE  Holder(f)' = IF Holder(f) \in C THEN NoConn ELSE Holder(f)
  <2>1. HolderIs(f) /\ HolderIs(f)'
    BY DEF MapInv
  <2>2. \A d \in Conns : Alive(d)' /\ fd_'[d] = f => Alive(d) /\ fd_[d] = f
    BY <1>1 DEF LessLife
  <2>3. CASE Holder(f) \in C
    <3>1. \A d \in Conns : Holder(f)' # d
      BY <2>1, <2>2, <2>3 DEF HolderIs
    <3>. QED
      BY <2>1, <2>3, <3>1 DEF HolderIs
  <2>4. CASE Holder(f) \notin C
    <3>1. \A d \in Conns : (Alive(d)' /\ fd_'[d] = f) <=> (Alive(d) /\ fd_[d] = f)
      <4>1. ASSUME NEW d \in Conns, Alive(d), fd_[d] = f PROVE Alive(d)' /\ fd_'[d] = f
        <5>1. Holder(f) = d
          BY <2>1, <4>1 DEF HolderIs
        <5>2. Alive(d)'
          BY <2>4, <4>1, <5>1
        <5>. QED
          BY <1>1, <4>1, <5>2 DEF LessLife
      <4>. QED
        BY <2>2, <4>1
    <3>. QED
      BY <2>4, <3>1, SameHolders
  <2>. QED
    BY <2>3, <2>4
<1>5. AsFree(C)
  BY <1>2, <1>3, <1>4 DEF AsFree, Phases, Holders
<1>. QED
  BY <1>5

(* A connection, or a client that never becomes one, moves on, and every   *)
(* other stays as it is.                                                   *)
LEMMA MoveMaps ==
  ASSUME MapInv, MapInv', NEW c \in Conns, NEW from, NEW to,
         \A d \in Conns \ {c} : SameLife(d) /\ (d <= accepted' <=> d <= accepted),
         fd_'[c] = fd_[c], Alive(c)' <=> Alive(c), Phase(c) = from, Phase(c)' = to
  PROVE  AsMove(c, from, to)
<1>1. \A d \in Conns \ {c} : Phase(d)' = Phase(d)
  BY SamePhase
<1>2. \A d \in Conns : fd_'[d] = fd_[d] /\ (Alive(d)' <=> Alive(d))
  BY DEF SameLife
<1>3. \A f \in Fds : Holder(f)' = Holder(f)
  BY <1>2, SameHolders
<1>4. Phases' = [Phases EXCEPT ![c] = to] /\ Phases[c] = from
  BY <1>1 DEF Phases
<1>5. Holders' = Holders
  BY <1>3 DEF Holders
<1>. QED
  BY <1>4, <1>5 DEF AsMove

LEMMA RefuseMaps ==
  ASSUME MapInv, MapInv', LifeRefuse PROVE \E c \in Conns : AsMove(c, "absent", "gone")
<1>1. /\ accepted \in Nat /\ accepted' = accepted + 1 /\ accepted' <= MaxConn
      /\ Conns \subseteq Nat /\ \A d \in Conns : SameLife(d)
  BY Constants DEF MapInv, LifeRefuse
<1>2. PICK c \in Conns : c = accepted + 1
  BY <1>1, TcpServerAssumption DEF Conns
<1>3. ~ (c <= accepted) /\ c <= accepted' /\ \A d \in Conns \ {c} : d <= accepted' <=> d <= accepted
  BY <1>1, <1>2
<1>4. PhaseIs(c) /\ PhaseIs(c)' /\ LifeIs(c) /\ SameLife(c)
  BY <1>1 DEF MapInv
<1>5. fd_[c] = NoFd /\ fd_'[c] = NoFd
  BY <1>3, <1>4 DEF LifeIs, SameLife
<1>6. Phase(c) = "absent" /\ Phase(c)' = "gone"
  BY <1>3, <1>4, <1>5 DEF PhaseIs
<1>7. fd_'[c] = fd_[c] /\ (Alive(c)' <=> Alive(c))
  BY <1>4 DEF SameLife
<1>. QED
  BY <1>1, <1>3, <1>6, <1>7, MoveMaps

LEMMA CloseMaps ==
  ASSUME MapInv, MapInv', LifeClose PROVE \E c \in Conns : AsMove(c, "up", "closing")
<1>1. PICK c \in Conns :
        /\ accepted' = accepted /\ fd_'[c] = fd_[c] /\ Alive(c) /\ Alive(c)'
        /\ ~ Coming(c) /\ ~ Coming(c)'
        /\ state_[c] = "kConnected" /\ state_'[c] = "kDisconnected"
        /\ \A d \in Conns \ {c} : SameLife(d)
  BY DEF LifeClose
<1>2. PhaseIs(c) /\ PhaseIs(c)' /\ LifeIs(c)
  BY DEF MapInv
<1>3. Phase(c) = "up" /\ Phase(c)' = "closing"
  BY <1>1, <1>2 DEF PhaseIs, LifeIs
<1>. QED
  BY <1>1, <1>3, MoveMaps

LEMMA EstablishMaps ==
  ASSUME MapInv, MapInv', LifeEstablish PROVE \E c \in Conns : AsMove(c, "accepted", "up")
<1>1. PICK c \in Conns :
        /\ accepted' = accepted /\ fd_'[c] = fd_[c] /\ Alive(c) /\ Alive(c)'
        /\ Coming(c) /\ ~ Coming(c)' /\ state_'[c] = "kConnected"
        /\ \A d \in Conns \ {c} : SameLife(d)
  BY DEF LifeEstablish
<1>2. PhaseIs(c) /\ PhaseIs(c)' /\ LifeIs(c)
  BY DEF MapInv
<1>3. Phase(c) = "accepted" /\ Phase(c)' = "up"
  BY <1>1, <1>2 DEF PhaseIs, LifeIs
<1>. QED
  BY <1>1, <1>3, MoveMaps

LEMMA AcceptMaps ==
  ASSUME MapInv, MapInv', LifeAccept PROVE \E c \in Conns, f \in Fds : AsAccept(c, f)
<1>1. PICK c \in Conns, f \in Fds :
        /\ accepted' = c /\ c = accepted + 1 /\ fd_[c] = NoFd /\ fd_'[c] = f /\ Alive(c)'
        /\ \A d \in Conns : fd_[d] = f => ~ Alive(d)
        /\ Coming(c)' \/ state_'[c] = "kConnected"
        /\ \A d \in Conns \ {c} : SameLife(d)
  BY DEF LifeAccept
<1>2. /\ accepted \in Nat /\ Conns \subseteq Nat /\ f # NoFd
      /\ PhaseIs(c) /\ PhaseIs(c)' /\ LifeIs(c)
  BY Constants DEF MapInv
<1>3. Phase(c) = "absent" /\ Phase(c)' \in {"accepted", "up"}
  BY <1>1, <1>2 DEF PhaseIs
<1>4. \A d \in Conns \ {c} : Phase(d)' = Phase(d)
  <2>1. \A d \in Conns \ {c} : d <= accepted' <=> d <= accepted
    BY <1>1, <1>2
  <2>. QED
    BY <1>1, <2>1, SamePhase
<1>5. Holder(f) = NoConn /\ Holder(f)' = c
  <2>1. HolderIs(f) /\ HolderIs(f)'
    BY DEF MapInv
  <2>2. \A d \in Conns : Holder(f) # d
    BY <1>1, <2>1 DEF HolderIs
  <2>. QED
    BY <1>1, <2>1, <2>2 DEF HolderIs
<1>6. ASSUME NEW g \in Fds \ {f} PROVE Holder(g)' = Holder(g)
  <2>1. \A d \in Conns : (Alive(d)' /\ fd_'[d] = g) <=> (Alive(d) /\ fd_[d] = g)
    <3>1. ~ Alive(c)
      BY <1>1, <1>2 DEF LifeIs
    <3>2. \A d \in Conns \ {c} : (Alive(d)' /\ fd_'[d] = g) <=> (Alive(d) /\ fd_[d] = g)
      BY <1>1 DEF SameLife
    <3>. QED
      BY <1>1, <3>1, <3>2
  <2>. QED
    BY <2>1, SameHolders
<1>7. AsAccept(c, f)
  <2>1. Phases' = [Phases EXCEPT ![c] = Phase(c)'] /\ Phases[c] = "absent"
    BY <1>3, <1>4 DEF Phases
  <2>2. Holders' = [Holders EXCEPT ![f] = c] /\ Holders[f] = NoConn
    BY <1>5, <1>6 DEF Holders
  <2>. QED
    BY <1>3, <2>1, <2>2 DEF AsAccept
<1>. QED
  BY <1>7

(* The server keeps the promise of ConnectionLife: a descriptor belongs to *)
(* one live connection at a time, and each connection comes up once,       *)
(* closes once and is freed after that.                                    *)
THEOREM ServerImplementsLife == Spec => ImplementsConnectionLife
<1>1. Init => CL!Init
  <2> SUFFICES ASSUME Init PROVE CL!Init
    OBVIOUS
  <2>1. MapInv
    BY InitServer, MapInvariant
  <2>2. \A c \in Conns : fd_[c] = NoFd /\ ~ (c <= accepted)
    BY Constants DEF Init, Conns
  <2>3. \A c \in Conns : Phase(c) = "absent" /\ ~ Alive(c)
    BY <2>1, <2>2 DEF MapInv, PhaseIs, LifeIs
  <2>4. \A f \in Fds : Holder(f) = NoConn
    BY <2>1, <2>3 DEF MapInv, HolderIs
  <2>. QED
    BY <2>3, <2>4 DEF CL!Init
<1>2. MapInv /\ MapInv' /\ ServerInv /\ [Next]_vars => [CL!Next]_(CL!vars)
  <2> SUFFICES ASSUME MapInv, MapInv', ServerInv, [Next]_vars PROVE CL!Next
    OBVIOUS
  <2>1. Life
    BY ConnsStep
  <2>2. ASSUME NEW C \in SUBSET Conns, AsFree(C) PROVE CL!Next
    BY <2>2 DEF AsFree, Phases, Holders, CL!Next, CL!Free
  <2>3. ASSUME NEW c \in Conns, NEW f \in Fds, AsAccept(c, f) PROVE CL!Next
    BY <2>3 DEF AsAccept, Phases, Holders, CL!Next, CL!Accept
  <2>4. ASSUME NEW c \in Conns, AsMove(c, "absent", "gone") PROVE CL!Next
    BY <2>4 DEF AsMove, Phases, Holders, CL!Next, CL!Refuse
  <2>5. ASSUME NEW c \in Conns, AsMove(c, "accepted", "up") PROVE CL!Next
    BY <2>5 DEF AsMove, Phases, Holders, CL!Next, CL!Establish
  <2>6. ASSUME NEW c \in Conns, AsMove(c, "up", "closing") PROVE CL!Next
    BY <2>6 DEF AsMove, Phases, Holders, CL!Next, CL!Close
  <2>. QED
    BY <2>1, <2>2, <2>3, <2>4, <2>5, <2>6, QuietMaps, RefuseMaps, CloseMaps, EstablishMaps,
       AcceptMaps DEF Life
<1>3. ServerInv => MapInv
  BY MapInvariant
<1>. QED
  BY <1>1, <1>2, <1>3, ServerInvariant, PTL DEF Spec, ImplementsConnectionLife, CL!Spec
-----------------------------------------------------------------------------
(* The server's own handlers and functors lose no wake-up of its loops.    *)
(* As for EventLoop, calling_functors_ has to be known to be TRUE while    *)
(* functors run, and a push to come from a handler or a functor.           *)
LoopSays(l) ==
  /\ calling_functors_[l] <=> pc[l] \in {"run", "functor"}
  /\ waking[l] # NoOne => pc[l] \in {"handler", "functor"}
  /\ pc[l] \in {"run", "functor", "poll"} /\ to_do_list_[l] # <<>> => EL!WakeUpPending(l)

WakeupInv == \A l \in Loops : LoopSays(l)

(* What a step of the server does to the loops.                            *)
LoopActs(l) ==
  \/ \E S \in SUBSET (Channels \cup {WakeupChannel}) : EL!Poll(l, S)
  \/ \E ch \in Channels : EL!HandleEvent(l, ch)
  \/ EL!HandleRead(l) \/ EL!EndHandler(l)
  \/ EL!SwapToDoList(l) \/ EL!RunFunctor(l) \/ EL!EndFunctor(l) \/ EL!EndToDoList(l)
  \/ \E m \in Loops, fn \in Funcs : EL!QueueOneFunc(l, m, fn)
  \/ EL!WakeUp(l)

LEMMA ServerActs ==
  ASSUME ServerInv, [Next]_vars
  PROVE  (\E l \in Loops : LoopActs(l)) \/ UNCHANGED elvars
<1>1. CASE Client \/ UNCHANGED vars
  BY <1>1 DEF Client, Connect, SendData, Hangup, vars
<1>2. ASSUME NEW l \in Loops, ThreadStep(l) PROVE LoopActs(l) \/ UNCHANGED elvars
  <2>1. CASE Poll(l)
    <3>1. PICK W \in SUBSET Conns :
            EL!Poll(l, (ReadReady(l) \cup W)
                         \cup (IF l = Base /\ accepted < connected THEN {ListenChannel} ELSE {})
                         \cup (IF wakeup_fd_[l] THEN {WakeupChannel} ELSE {}))
      BY <2>1 DEF Poll
    <3>2. ReadReady(l) \subseteq Channels /\ W \subseteq Channels /\ ListenChannel \in Channels
      BY Constants DEF ReadReady
    <3>. QED
      BY <3>1, <3>2 DEF LoopActs
  <2>2. CASE (\E ch \in Channels : HandleEvent(l, ch)) \/ RunFunctor(l) \/ LoopStep(l)
    BY <2>2 DEF HandleEvent, RunFunctor, LoopStep, LoopActs
  <2>3. CASE HandleMessage(l) \/ ReadError(l) \/ HandleWrite(l)
             \/ ConnectionEstablished(l) \/ ConnectionDestructor(l) \/ RefuseConnection
    BY <2>3 DEF HandleMessage, ReadError, HandleWrite, ConnectionEstablished,
                ConnectionDestructor, RefuseConnection
  <2>4. CASE HandleClose(l)
    <3>1. current[l] \in Conns
      BY <2>4, CurrentConn DEF HandleClose, Calls
    <3>2. [op |-> "CloseInLoop", conn |-> current[l]] \in Funcs
      BY <3>1 DEF Funcs
    <3>. QED
      BY <2>4, <3>2, Constants DEF HandleClose, LoopActs
  <2>5. CASE HandleCloseInLoop(l)
    <3>1. Functor(l) \in OnItsWay(l) /\ Functor(l).conn \in Conns
          /\ fd_[Functor(l).conn] \in Fds
      BY <2>5, RunningFunctor DEF HandleCloseInLoop, Runs, Calls
    <3>2. loop_[Functor(l).conn] \in Loops
      BY <3>1, Constants DEF ServerInv, ConnState, ConnSays
    <3>3. [op |-> "Destructor", conn |-> Functor(l).conn] \in Funcs
      BY <3>1 DEF Funcs
    <3>. QED
      BY <2>5, <3>2, <3>3 DEF HandleCloseInLoop, LoopActs
  <2>6. CASE l = Base /\ NewConnection
    <3>1. accepted + 1 \in Conns /\ NextLoop \in Loops
      BY <2>6, NewClient DEF NewConnection
    <3>2. [op |-> "Established", conn |-> accepted + 1] \in Funcs
      BY <3>1 DEF Funcs
    <3>3. EL!RunOneFunc(l, NextLoop, [op |-> "Established", conn |-> accepted + 1])
      BY <2>6 DEF NewConnection
    <3>4. \/ UNCHANGED elvars
          \/ EL!QueueOneFunc(l, NextLoop, [op |-> "Established", conn |-> accepted + 1])
      BY <3>3 DEF EL!RunOneFunc, EL!vars, elvars
    <3>. QED
      BY <3>1, <3>2, <3>4 DEF LoopActs
  <2>. QED
    BY <1>2, <2>1, <2>2, <2>3, <2>4, <2>5, <2>6 DEF ThreadStep
<1>. QED
  BY <1>1, <1>2 DEF Next

LEMMA WakeupStep ==
  ASSUME EL!TypeOK, WakeupInv, NEW l \in Loops, LoopActs(l)
  PROVE  WakeupInv'
<1> USE DEF WakeupInv, LoopSays, EL!WakeUpPending, EL!TypeOK
<1>1. ASSUME NEW S \in SUBSET (Channels \cup {WakeupChannel}), EL!Poll(l, S) PROVE WakeupInv'
  BY <1>1 DEF EL!Poll
<1>2. ASSUME NEW ch \in Channels, EL!HandleEvent(l, ch) PROVE WakeupInv'
  BY <1>2 DEF EL!HandleEvent
<1>3. CASE EL!HandleRead(l)
  BY <1>3 DEF EL!HandleRead
<1>4. CASE EL!EndHandler(l)
  BY <1>4 DEF EL!EndHandler
<1>5. CASE EL!SwapToDoList(l)
  BY <1>5 DEF EL!SwapToDoList
<1>6. CASE EL!RunFunctor(l)
  BY <1>6 DEF EL!RunFunctor
<1>7. CASE EL!EndFunctor(l)
  BY <1>7 DEF EL!EndFunctor
<1>8. CASE EL!EndToDoList(l)
  BY <1>8 DEF EL!EndToDoList
<1>9. ASSUME NEW m \in Loops, NEW fn \in Funcs, EL!QueueOneFunc(l, m, fn) PROVE WakeupInv'
  <2>1. /\ pc' = pc /\ calling_functors_' = calling_functors_ /\ wakeup_fd_' = wakeup_fd_
        /\ pc[l] \in {"handler", "functor"} /\ waking[l] = NoOne
        /\ waking'[l] = m /\ \A t \in Loops \ {l} : waking'[t] = waking[t]
        /\ \A k \in Loops \ {m} : to_do_list_'[k] = to_do_list_[k]
    BY <1>9 DEF EL!QueueOneFunc, EL!InUserCode
  <2>2. ASSUME NEW k \in Loops, EL!WakeUpPending(k) PROVE EL!WakeUpPending(k)'
    <3>1. \A t \in Loops : waking[t] = k => t # l
      BY <2>1, Constants
    <3>2. ASSUME NEW t \in Loops, waking[t] = k PROVE waking'[t] = k
      BY <2>1, <3>1, <3>2
    <3>. QED
      BY <2>1, <2>2, <3>2
  <2>3. EL!WakeUpPending(m)'
    BY <2>1
  <2>. QED
    BY <2>1, <2>2, <2>3, ZenonT(20)
<1>10. CASE EL!WakeUp(l)
  (* Without a write the loop has queued on itself in a handler.           *)
  <2>1. CASE waking[l] # l \/ calling_functors_[l]
    BY <1>10, <2>1, Constants, SMTT(20) DEF EL!WakeUp
  <2>2. CASE waking[l] = l /\ ~ calling_functors_[l]
    <3>1. pc[l] = "handler"
      BY <2>2, Constants
    <3>. QED
      BY <1>10, <2>2, <3>1 DEF EL!WakeUp
  <2>. QED
    BY <2>1, <2>2
<1>. QED
  BY <1>1, <1>2, <1>3, <1>4, <1>5, <1>6, <1>7, <1>8, <1>9, <1>10 DEF LoopActs

LEMMA WakeupInvariance == Spec => []WakeupInv
<1>1. Init => WakeupInv
  BY DEF Init, EL!Init, WakeupInv, LoopSays
<1>2. ServerInv /\ WakeupInv /\ [Next]_vars => WakeupInv'
  <2> SUFFICES ASSUME ServerInv, WakeupInv, [Next]_vars PROVE WakeupInv'
    OBVIOUS
  <2>1. EL!TypeOK
    BY DEF ServerInv, TypeOK
  <2>2. CASE UNCHANGED elvars
    BY <2>2 DEF elvars, WakeupInv, LoopSays, EL!WakeUpPending
  <2>. QED
    BY <2>1, <2>2, ServerActs, WakeupStep
<1>. QED
  BY <1>1, <1>2, ServerInvariant, PTL DEF Spec

(* In the server as it uses its loops, with its own channels, handlers and *)
(* functors, no loop waits in epoll_wait with functors queued and nothing  *)
(* on its eventfd, unless another thread is about to write it: connections *)
(* handed out, closes and destructions are never left behind               *)
(* (eventloop.cc:66-79 as called by tcpserver.cc:28-50).                   *)
THEOREM ServerNeverSleepsOnWork == Spec => []EL!NoSleepOnWork
<1>1. WakeupInv => EL!NoSleepOnWork
  BY Constants DEF WakeupInv, LoopSays, EL!NoSleepOnWork, EL!WakeUpPending
<1>. QED
  BY <1>1, WakeupInvariance, PTL
=============================================================================
