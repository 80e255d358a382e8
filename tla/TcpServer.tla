----------------------------- MODULE TcpServer -----------------------------
(***************************************************************************)
(* The life of a connection in tiny_muduo: TCPServer, Acceptor and         *)
(* EventLoopThreadPool (tcpserver.cc, acceptor.cc, eventloopthreadpool.cc) *)
(* with the parts of TcpConnection, Channel and Epoller that create,       *)
(* register, close and free it, on top of the loops of EventLoop.          *)
(*                                                                         *)
(* The base loop accepts.  A worker loop, or the base loop when there are  *)
(* no workers, serves the connection.  The two exchange functors:          *)
(*                                                                         *)
(*    base:    accept --Established-->           CloseInLoop --Destructor-->*)
(*    worker:              up ... read = 0 --CloseInLoop-->       Remove   *)
(*                                                                         *)
(* A TcpConnection lives as long as a shared_ptr to it: in connections_ or *)
(* in a functor.  Channel pointers, in epoll, in channels_ and on the list *)
(* of active channels, are raw.  The descriptor is closed by the           *)
(* destructor, on whichever thread drops the last reference, and the next  *)
(* accept takes the lowest free one.                                       *)
(*                                                                         *)
(* A handler or functor body is one step up to its QueueOneFunc: what it   *)
(* does before is to objects only its own thread reaches, or, for accept,  *)
(* to a descriptor no other thread knows yet.                              *)
(***************************************************************************)
EXTENDS Naturals, Sequences, FiniteSets, FiniteSetsExt

CONSTANTS
  Base,            (* TCPServer::loop_                                      *)
  Workers,         (* EventLoopThreadPool::loops_, a sequence               *)
  MaxConn,         (* bound: the number of clients                          *)
  MaxFd,           (* descriptors left for connections                      *)
  NoOne, WakeupChannel, kDefaultEvents, MaxFuncs   (* as in EventLoop       *)

NoConn == 0
NoFd == 0
Conns == 1 .. MaxConn
Fds == 1 .. MaxFd
ListenChannel == MaxConn + 1
Loops == {Base} \cup {Workers[i] : i \in DOMAIN Workers}
Channels == Conns \cup {ListenChannel}
Funcs == [op : {"Established", "CloseInLoop", "Destructor"}, conn : Conns]

ASSUME TcpServerAssumption ==
  /\ Workers \in Seq(Loops)
  /\ NoOne \notin Loops \cup Channels
  /\ WakeupChannel \notin Channels \cup {NoOne}
  /\ MaxConn \in Nat
  /\ MaxFd \in Nat
  /\ kDefaultEvents \in Nat \ {0}

VARIABLES
  (* the loops *)
  pc, current, active_channels_, events_size, to_do_list_, functors,
  next_func, calling_functors_, wakeup_fd_, waking,
  call,            (* what the handler or functor of a loop still has to do *)
  (* clients and kernel *)
  connected,       (* clients 1 .. connected have connected                 *)
  accepted,        (* clients 1 .. accepted have left the listen backlog    *)
  peer,            (* the client's end: open, closed (FIN) or reset         *)
  data,            (* TRUE iff the receive queue holds bytes                *)
  (* the connections; number c is the one of client c *)
  fd_, loop_, state_,
  ch_state,        (* Channel::state_                                       *)
  ch_events,       (* Channel::events_                                      *)
  recv_events_,
  (* the server *)
  connections_, channels_, next_

elvars == <<pc, current, active_channels_, events_size, to_do_list_, functors,
            next_func, calling_functors_, wakeup_fd_, waking>>
clients == <<connected, accepted, peer, data>>
conns == <<fd_, loop_, state_, ch_state, ch_events, recv_events_>>
tables == <<connections_, channels_, next_>>
vars == <<elvars, call, clients, conns, tables>>

EL == INSTANCE EventLoop

(* The shared_ptrs to connection c: while one is left, c is not destroyed  *)
(* and its descriptor stays open.  A functor that has run keeps its        *)
(* reference until DoToDoList drops the vector.                            *)
Refers(queue, c) == \E i \in DOMAIN queue : queue[i].conn = c

Alive(c) ==
  \/ \E f \in Fds : connections_[f] = c
  \/ \E l \in Loops : Refers(to_do_list_[l], c) \/ Refers(functors[l], c)

Served(c) == fd_[c] # NoFd
FreeFds == {f \in Fds : \A c \in Conns : fd_[c] = f => ~ Alive(c)}

Init ==
  /\ EL!Init
  /\ call = [l \in Loops |-> "none"]
  /\ connected = 0
  /\ accepted = 0
  /\ peer = [c \in Conns |-> "open"]
  /\ data = [c \in Conns |-> FALSE]
  /\ fd_ = [c \in Conns |-> NoFd]
  /\ loop_ = [c \in Conns |-> NoOne]
  /\ state_ = [c \in Conns |-> "kDisconnected"]
  /\ ch_state = [c \in Conns |-> "kNew"]
  /\ ch_events = [c \in Conns |-> {}]
  /\ recv_events_ = [c \in Conns |-> {}]
  /\ connections_ = [f \in Fds |-> NoConn]
  /\ channels_ = [l \in Loops |-> [f \in Fds |-> NoConn]]
  /\ next_ = 0

-----------------------------------------------------------------------------
(* The clients *)

Connect ==
  /\ connected < MaxConn
  /\ connected' = connected + 1
  /\ UNCHANGED <<elvars, call, accepted, peer, data, conns, tables>>

SendData(c) ==
  /\ c <= connected /\ peer[c] = "open"
  /\ data' = [data EXCEPT ![c] = TRUE]
  /\ UNCHANGED <<elvars, call, connected, accepted, peer, conns, tables>>

Hangup(c) ==
  /\ c <= connected /\ peer[c] = "open"
  /\ \E how \in {"closed", "reset"} : peer' = [peer EXCEPT ![c] = how]
  /\ UNCHANGED <<elvars, call, connected, accepted, data, conns, tables>>

-----------------------------------------------------------------------------
(* Epoller and Channel *)

(* Channel::Update -> Epoller::Update after events_ has become ev: it adds *)
(* a channel that is new or deleted, even with no events to wait for, and  *)
(* takes one out of epoll when no events are left.                         *)
Update(c, l, f, ev) ==
  /\ ch_events' = [ch_events EXCEPT ![c] = ev]
  /\ ch_state' = [ch_state EXCEPT
       ![c] = IF @ = "kAdded" /\ ev = {} THEN "kDeleted" ELSE "kAdded"]
  /\ channels_' = IF ch_state[c] = "kNew"
                  THEN [channels_ EXCEPT ![l][f] = c]
                  ELSE channels_

(* Epoller::Remove *)
Remove(c) ==
  /\ ch_state' = [ch_state EXCEPT ![c] = "kNew"]
  /\ channels_' = [channels_ EXCEPT ![loop_[c]][fd_[c]] = NoConn]

Readable(c) == data[c] \/ peer[c] # "open"

(* What epoll watches for l and finds readable: closing a descriptor takes *)
(* it out of epoll.                                                        *)
Registered(l, c) == loop_[c] = l /\ ch_state[c] = "kAdded" /\ Alive(c)

ReadReady(l) ==
  {c \in Conns : Registered(l, c) /\ "IN" \in ch_events[c] /\ Readable(c)}

(* epoll_wait returns every ready channel, there being room for them; W is *)
(* the part of those waiting to write whose sockets have room.             *)
Poll(l) ==
  \E W \in SUBSET {c \in Conns : Registered(l, c) /\ "OUT" \in ch_events[c]} :
    LET ready == ReadReady(l) \cup W
    IN /\ EL!Poll(l, ready
             \cup (IF l = Base /\ accepted < connected THEN {ListenChannel} ELSE {})
             \cup (IF wakeup_fd_[l] THEN {WakeupChannel} ELSE {}))
       /\ recv_events_' = [c \in Conns |->
             IF c \in ready
             THEN (IF c \in ReadReady(l) THEN {"IN"} ELSE {})
                    \cup (IF c \in W THEN {"OUT"} ELSE {})
             ELSE recv_events_[c]]
       /\ UNCHANGED <<call, clients, fd_, loop_, state_, ch_state, ch_events, tables>>

-----------------------------------------------------------------------------
(* The loop around the handlers and functors *)

(* Channel::HandleEvent, up to the first callback. *)
HandleEvent(l, ch) ==
  /\ EL!HandleEvent(l, ch)
  /\ call' = [call EXCEPT ![l] =
                IF ch = ListenChannel THEN "accept"
                ELSE IF "IN" \in recv_events_[ch] THEN "read" ELSE "write"]
  /\ UNCHANGED <<clients, conns, tables>>

RunFunctor(l) ==
  /\ EL!RunFunctor(l)
  /\ call' = [call EXCEPT ![l] = "functor"]
  /\ UNCHANGED <<clients, conns, tables>>

(* The steps of the loop that run no code of the server. *)
LoopStep(l) ==
  /\ \/ EL!HandleRead(l)
     \/ EL!SwapToDoList(l)
     \/ EL!EndToDoList(l)
     \/ EL!WakeUp(l)
     \/ call[l] = "none" /\ (EL!EndHandler(l) \/ EL!EndFunctor(l))
  /\ UNCHANGED <<call, clients, conns, tables>>

Calls(l, what) == call[l] = what /\ waking[l] = NoOne
Goto(l, what) == call' = [call EXCEPT ![l] = what]
Functor(l) == functors[l][next_func[l]]
Runs(l, op) == Calls(l, "functor") /\ Functor(l).op = op

-----------------------------------------------------------------------------
(* Acceptor::NewConnection and TCPServer::HandleNewConnection *)

(* Mistake: the connection is not marked as connected. *)
Established_NoState(c, l, f) ==
  /\ UNCHANGED state_
  /\ Update(c, l, f, ch_events[c] \cup {"IN"})

(* TcpConnection::ConnectionEstablished.  The connection callback of the   *)
(* HTTP server changes nothing here.                                       *)
Established(c, l, f) ==
  /\ state_' = [state_ EXCEPT ![c] = "kConnected"]
  /\ Update(c, l, f, ch_events[c] \cup {"IN"})

(* EventLoopThreadPool::NextLoop: the loop it returns and the next_ it leaves. *)
NextLoop == IF Workers = <<>> THEN Base ELSE Workers[next_ + 1]

(* Mistake: next_ does not wrap. *)
AfterNext_NoWrap == IF Workers = <<>> THEN next_ ELSE next_ + 1

AfterNext == IF Workers = <<>> THEN next_ ELSE (next_ + 1) % Len(Workers)

(* Mistake: no spare descriptor, so accept fails and the client stays.     *)
RefuseConnection_NoIdleFd ==
  /\ Calls(Base, "accept")
  /\ FreeFds = {}
  /\ Goto(Base, "none")
  /\ UNCHANGED <<elvars, clients, conns, tables>>

(* No descriptor left: idlefd_ is given up, the client accepted on it,     *)
(* closed, and idlefd_ opened again (acceptor.cc:62-70).  The failing      *)
(* setsockopt paths below it close connfd to the same effect, but the      *)
(* calls they test do not fail on an accepted socket.                      *)
RefuseConnection ==
  /\ Calls(Base, "accept")
  /\ FreeFds = {}
  /\ accepted' = accepted + 1
  /\ Goto(Base, "none")
  /\ UNCHANGED <<elvars, connected, peer, data, conns, tables>>

(* RunOneFunc calls ConnectionEstablished in place when the base loop      *)
(* serves the connection and queues it otherwise.                          *)
NewConnection ==
  /\ Calls(Base, "accept")
  /\ FreeFds # {}
  /\ LET c == accepted + 1
         f == Min(FreeFds)
         l == NextLoop
     IN /\ accepted' = c
        /\ fd_' = [fd_ EXCEPT ![c] = f]
        /\ loop_' = [loop_ EXCEPT ![c] = l]
        /\ connections_' = [connections_ EXCEPT ![f] = c]
        /\ next_' = AfterNext
        /\ EL!RunOneFunc(Base, l, [op |-> "Established", conn |-> c])
        /\ IF l = Base THEN Established(c, l, f)
                       ELSE UNCHANGED <<state_, ch_state, ch_events, channels_>>
  /\ Goto(Base, "none")
  /\ UNCHANGED <<connected, peer, data, recv_events_>>

ConnectionEstablished(l) ==
  /\ Runs(l, "Established")
  /\ LET c == Functor(l).conn IN Established(c, l, fd_[c])
  /\ Goto(l, "none")
  /\ UNCHANGED <<elvars, clients, fd_, loop_, recv_events_, connections_, next_>>

-----------------------------------------------------------------------------
(* TcpConnection::HandleMessage and HandleWrite, as called by HandleEvent *)

AfterRead(l, c) == Goto(l, IF "OUT" \in recv_events_[c] THEN "write" ELSE "none")

(* read > 0: the message callback may send, and what the socket does not   *)
(* take at once makes Send enable writing.                                 *)
HandleMessage(l) ==
  LET c == current[l] IN
  /\ Calls(l, "read")
  /\ data[c]
  /\ data' = [data EXCEPT ![c] = FALSE]
  /\ \/ UNCHANGED <<ch_events, ch_state, channels_>>
     \/ "OUT" \notin ch_events[c]
          /\ Update(c, l, fd_[c], ch_events[c] \cup {"OUT"})
  /\ AfterRead(l, c)
  /\ UNCHANGED <<elvars, connected, accepted, peer, fd_, loop_, state_,
                 recv_events_, connections_, next_>>

(* read < 0 is logged; after a reset the next read returns 0. *)
ReadError(l) ==
  LET c == current[l] IN
  /\ Calls(l, "read")
  /\ ~ data[c] /\ peer[c] = "reset"
  /\ peer' = [peer EXCEPT ![c] = "closed"]
  /\ AfterRead(l, c)
  /\ UNCHANGED <<elvars, connected, accepted, data, conns, tables>>

(* read = 0: TcpConnection::HandleClose, TCPServer::HandleClose. *)
HandleClose(l) ==
  LET c == current[l] IN
  /\ Calls(l, "read")
  /\ ~ data[c] /\ peer[c] = "closed"
  /\ state_' = [state_ EXCEPT ![c] = "kDisconnected"]
  /\ Update(c, l, fd_[c], {})
  /\ EL!QueueOneFunc(l, Base, [op |-> "CloseInLoop", conn |-> c])
  /\ AfterRead(l, c)
  /\ UNCHANGED <<clients, fd_, loop_, recv_events_, connections_, next_>>

(* HandleWrite does nothing for a channel that does not wait to write, as  *)
(* after HandleClose in the same HandleEvent; it stops waiting when the    *)
(* output buffer is empty.                                                 *)
HandleWrite(l) ==
  LET c == current[l] IN
  /\ Calls(l, "write")
  /\ \/ UNCHANGED <<ch_events, ch_state, channels_>>
     \/ "OUT" \in ch_events[c]
          /\ Update(c, l, fd_[c], ch_events[c] \ {"OUT"})
  /\ Goto(l, "none")
  /\ UNCHANGED <<elvars, clients, fd_, loop_, state_, recv_events_,
                 connections_, next_>>

-----------------------------------------------------------------------------
(* The way out: TCPServer::HandleCloseInLoop on the base loop, then        *)
(* TcpConnection::ConnectionDestructor on the connection's own loop.       *)

(* Mistake: the destructor functor goes to the server's loop. *)
HandleCloseInLoop_OnBase(l) ==
  LET c == Functor(l).conn IN
  /\ Runs(l, "CloseInLoop")
  /\ connections_' = [connections_ EXCEPT ![fd_[c]] = NoConn]
  /\ EL!QueueOneFunc(l, Base, [op |-> "Destructor", conn |-> c])
  /\ Goto(l, "none")
  /\ UNCHANGED <<clients, conns, channels_, next_>>

(* Mistake: the connection is only taken off the map. *)
HandleCloseInLoop_NoDestructor(l) ==
  LET c == Functor(l).conn IN
  /\ Runs(l, "CloseInLoop")
  /\ connections_' = [connections_ EXCEPT ![fd_[c]] = NoConn]
  /\ Goto(l, "none")
  /\ UNCHANGED <<elvars, clients, conns, channels_, next_>>

(* Mistake: the connection stays on the map. *)
HandleCloseInLoop_NoErase(l) ==
  LET c == Functor(l).conn IN
  /\ Runs(l, "CloseInLoop")
  /\ EL!QueueOneFunc(l, loop_[c], [op |-> "Destructor", conn |-> c])
  /\ Goto(l, "none")
  /\ UNCHANGED <<clients, conns, tables>>

HandleCloseInLoop(l) ==
  LET c == Functor(l).conn IN
  /\ Runs(l, "CloseInLoop")
  /\ connections_' = [connections_ EXCEPT ![fd_[c]] = NoConn]
  /\ EL!QueueOneFunc(l, loop_[c], [op |-> "Destructor", conn |-> c])
  /\ Goto(l, "none")
  /\ UNCHANGED <<clients, conns, channels_, next_>>

(* A connection that is still up is disconnected first (DisableAll).  That *)
(* takes its channel out of epoll, as Remove does for one still in it.     *)
ConnectionDestructor(l) ==
  LET c == Functor(l).conn IN
  /\ Runs(l, "Destructor")
  /\ Remove(c)
  /\ IF state_[c] = "kConnected"
     THEN /\ state_' = [state_ EXCEPT ![c] = "kDisconnected"]
          /\ ch_events' = [ch_events EXCEPT ![c] = {}]
     ELSE UNCHANGED <<state_, ch_events>>
  /\ Goto(l, "none")
  /\ UNCHANGED <<elvars, clients, fd_, loop_, recv_events_, connections_, next_>>

-----------------------------------------------------------------------------
ThreadStep(l) ==
  \/ Poll(l)
  \/ \E ch \in Channels : HandleEvent(l, ch)
  \/ RunFunctor(l)
  \/ LoopStep(l)
  \/ HandleMessage(l) \/ ReadError(l) \/ HandleClose(l) \/ HandleWrite(l)
  \/ ConnectionEstablished(l)
  \/ HandleCloseInLoop(l)
  \/ ConnectionDestructor(l)
  \/ l = Base /\ (NewConnection \/ RefuseConnection)

Client == Connect \/ \E c \in Conns : SendData(c) \/ Hangup(c)

Next == Client \/ \E l \in Loops : ThreadStep(l)

Spec == Init /\ [][Next]_vars

(* Every thread is scheduled and epoll_wait returns when a channel is      *)
(* ready; clients need not do anything.                                    *)
FairSpec == Spec /\ \A l \in Loops : WF_vars(ThreadStep(l))

-----------------------------------------------------------------------------
Control == {"none", "accept", "read", "write", "functor"}

TypeOK ==
  /\ EL!TypeOK
  /\ call \in [Loops -> Control]
  /\ connected \in 0 .. MaxConn /\ accepted \in 0 .. connected
  /\ peer \in [Conns -> {"open", "closed", "reset"}]
  /\ data \in [Conns -> BOOLEAN]
  /\ fd_ \in [Conns -> Fds \cup {NoFd}]
  /\ loop_ \in [Conns -> Loops \cup {NoOne}]
  /\ state_ \in [Conns -> {"kConnected", "kDisconnected"}]
  /\ ch_state \in [Conns -> {"kNew", "kAdded", "kDeleted"}]
  /\ ch_events \in [Conns -> SUBSET {"IN", "OUT"}]
  /\ recv_events_ \in [Conns -> SUBSET {"IN", "OUT"}]
  /\ connections_ \in [Fds -> Conns \cup {NoConn}]
  /\ channels_ \in [Loops -> [Fds -> Conns \cup {NoConn}]]
  /\ next_ \in Nat /\ (Workers # <<>> => next_ < Len(Workers))
  /\ \A l \in Loops : call[l] # "none" => pc[l] \in {"handler", "functor"}

(* The raw Channel pointers: a connection whose channel epoll, channels_,  *)
(* the list of active channels or a running HandleEvent still refers to    *)
(* has not been destroyed.  HandleEvent reads recv_events_ after the read  *)
(* callback has closed the connection and dropped its guard                *)
(* (channel.cc:12-23, tcpconnection.cc:40-45).                             *)
NoUseAfterFree ==
  \A l \in Loops, c \in Conns :
    (\/ current[l] = c
     \/ c \in active_channels_[l]
     \/ \E f \in Fds : channels_[l][f] = c
     \/ loop_[c] = l /\ ch_state[c] # "kNew")
      => Alive(c)

(* The assertions of the functors, for every functor on its way: the       *)
(* server finds this very connection under its descriptor (tcpserver.cc:33),*)
(* the loop has no other channel under the descriptor of a new connection  *)
(* (epoller.cc:66), and a channel is removed once (epoller.cc:48).  The    *)
(* build compiles the assertions out.                                      *)
OnItsWay(l) ==
  {to_do_list_[l][i] : i \in DOMAIN to_do_list_[l]}
    \cup {functors[l][i] : i \in {j \in DOMAIN functors[l] :
            j > next_func[l] \/ (j = next_func[l] /\ call[l] = "functor")}}

FunctorsFindTheirState ==
  \A l \in Loops : \A fn \in OnItsWay(l) :
    LET c == fn.conn IN
    CASE fn.op = "Established" -> /\ channels_[l][fd_[c]] = NoConn
                                  /\ ch_state[c] = "kNew"
                                  /\ loop_[c] = l
      [] fn.op = "CloseInLoop" -> /\ connections_[fd_[c]] = c
                                  /\ state_[c] = "kDisconnected"
                                  /\ l = Base
      [] fn.op = "Destructor"  -> /\ channels_[l][fd_[c]] = c
                                  /\ ch_state[c] # "kNew"
                                  /\ loop_[c] = l

(* The server keeps the promise of ConnectionLife. *)
Phase(c) ==
  IF ~ Served(c) THEN (IF c <= accepted THEN "gone" ELSE "absent")
  ELSE IF ~ Alive(c) THEN "gone"
  ELSE IF \E l \in Loops : [op |-> "Established", conn |-> c] \in OnItsWay(l)
       THEN "accepted"
  ELSE IF state_[c] = "kConnected" THEN "up"
  ELSE "closing"

Holder(f) ==
  IF f \in FreeFds THEN NoConn ELSE CHOOSE c \in Conns : fd_[c] = f /\ Alive(c)

CL == INSTANCE ConnectionLife WITH phase <- [c \in Conns |-> Phase(c)],
                                   holder <- [f \in Fds |-> Holder(f)]

ImplementsConnectionLife == CL!Spec

(* A connection whose client closed or reset it is destroyed in the end,   *)
(* and its descriptor is free again.                                       *)
HangupFreesConnection ==
  \A c \in Conns : (Served(c) /\ peer[c] # "open") ~> ~ Alive(c)

(* No client stays in the listen backlog, whether there are descriptors    *)
(* for it or not (acceptor.cc:62-70).                                      *)
BacklogDrains == \A c \in Conns : (c <= connected) ~> (c <= accepted)
=============================================================================
