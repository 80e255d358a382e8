---------------------------- MODULE ProcessPool ----------------------------
(***************************************************************************)
(* The multi-process echo server (process_pool.h, echo.h).  The parent     *)
(* watches the listening socket and tells one child after another, through *)
(* a pipe of its own, that there is a client; a child told so accepts one  *)
(* client from the listening socket all processes share, and echoes what   *)
(* its clients send.                                                       *)
(*                                                                         *)
(* Every descriptor is registered edge-triggered: an arrival marks it      *)
(* ready, one report by epoll_wait takes the mark away, and what arrives   *)
(* in between is reported together.  Nobody ever reads from the pipes.     *)
(* Nobody ignores SIGPIPE, so a process that sends on a connection or pipe *)
(* whose other end is gone dies.                                           *)
(*                                                                         *)
(* Processes and descriptors do not run out: fork and accept fail for no   *)
(* want of them.  What the code does then is in the README, section 8.     *)
(***************************************************************************)
EXTENDS Integers, Sequences, FiniteSets

CONSTANTS
  max_process_num,
  MAX_EVENTS_NUMBER,
  PipeCapacity,  (* notifications that fit into a pipe                      *)
  MaxClients,    (* bound of the model: clients                             *)
  MaxData        (* bound of the model: buffers of data the clients send    *)

ASSUME PoolAssumption ==
  /\ max_process_num \in Nat \ {0}
  /\ MAX_EVENTS_NUMBER \in Nat \ {0}
  /\ PipeCapacity \in Nat \ {0}
  /\ MaxClients \in Nat
  /\ MaxData \in Nat

Children == 0 .. max_process_num - 1
Clients == 1 .. MaxClients
Pipe == 0        (* among the descriptors of a child; its clients are others *)
NoChild == -1
NoClient == 0

VARIABLES
  (* the listening socket and the parent *)
  connected,     (* clients 1 .. connected have connected                   *)
  backlog,       (* the clients waiting to be accepted                      *)
  listen_ready,
  parent,        (* forking, in epoll_wait, about to notify a child, dead   *)
  pre_idx,
  (* the children *)
  process,       (* not forked yet, forked, in its loop, or dead            *)
  pipe,          (* notifications in the pipe of each child                 *)
  pipe_ready,
  events,        (* what epoll_wait has reported and is not done with       *)
  serving,       (* the client whose process() is running                   *)
  (* the clients *)
  owner,         (* the child that has accepted it                          *)
  conn_ready,
  sent,          (* buffers of data they have sent, all together            *)
  inbuf,         (* those of them not yet received                          *)
  peer,          (* its end of the connection, see Hangup                   *)
  closed         (* TRUE iff the child has closed the connection            *)

listener == <<connected, backlog, listen_ready, parent, pre_idx>>
children == <<process, pipe, pipe_ready, events, serving>>
clients == <<owner, conn_ready, sent, inbuf, peer, closed>>
vars == <<listener, children, clients>>

(* main has called listen; the constructor of ProcessPool forks. *)
Init ==
  /\ connected = 0
  /\ backlog = <<>>
  /\ listen_ready = FALSE
  /\ parent = "fork"
  /\ pre_idx = 0
  /\ process = [i \in Children |-> "none"]
  /\ pipe = [i \in Children |-> 0]
  /\ pipe_ready = [i \in Children |-> FALSE]
  /\ events = [i \in Children |-> {}]
  /\ serving = [i \in Children |-> NoClient]
  /\ owner = [c \in Clients |-> NoChild]
  /\ conn_ready = [c \in Clients |-> FALSE]
  /\ sent = 0
  /\ inbuf = [c \in Clients |-> 0]
  /\ peer = [c \in Clients |-> "open"]
  /\ closed = [c \in Clients |-> FALSE]

-----------------------------------------------------------------------------
(* The clients *)

Connect ==
  /\ connected < MaxClients
  /\ connected' = connected + 1
  /\ backlog' = Append(backlog, connected + 1)
  /\ listen_ready' = (parent # "fork")
  /\ UNCHANGED <<parent, pre_idx, children, clients>>

(* An arrival on a connection some child has registered marks it ready. *)
Arrival(c) ==
  conn_ready' = [conn_ready EXCEPT ![c] = owner[c] # NoChild /\ ~ closed[c]]

SendData(c) ==
  /\ c <= connected /\ peer[c] = "open"
  /\ sent < MaxData
  /\ sent' = sent + 1
  /\ inbuf' = [inbuf EXCEPT ![c] = @ + 1]
  /\ Arrival(c)
  /\ UNCHANGED <<listener, children, owner, peer, closed>>

(* The client shuts down its sending side and goes on receiving, closes    *)
(* its socket, or resets the connection.                                   *)
Hangup(c) ==
  /\ c <= connected /\ peer[c] = "open"
  /\ \E how \in {"shut", "closed", "reset"} : peer' = [peer EXCEPT ![c] = how]
  /\ Arrival(c)
  /\ UNCHANGED <<listener, children, owner, sent, inbuf, closed>>

(* The answer of a closed socket to what is sent to it. *)
ResetArrives(c) ==
  /\ peer[c] = "resetting"
  /\ peer' = [peer EXCEPT ![c] = "broken"]
  /\ Arrival(c)
  /\ UNCHANGED <<listener, children, owner, sent, inbuf, closed>>

-----------------------------------------------------------------------------
(* Start-up.  Registering a descriptor reports what is waiting there.      *)

(* fork() succeeds: for -1 the code has no branch of its own. *)
Fork ==
  /\ parent = "fork"
  /\ \E i \in Children :
       /\ \A j \in Children : process[j] = "none" <=> j >= i
       /\ process' = [process EXCEPT ![i] = "forked"]
  /\ UNCHANGED <<listener, pipe, pipe_ready, events, serving, clients>>

(* run_parent registers listenfd when all children exist, *)
ParentStarts ==
  /\ parent = "fork"
  /\ \A i \in Children : process[i] # "none"
  /\ parent' = "wait"
  /\ listen_ready' = (backlog # <<>>)
  /\ UNCHANGED <<connected, backlog, pre_idx, children, clients>>

(* and run_child its end of the pipe, which the parent may have used.      *)
ChildStarts(i) ==
  /\ process[i] = "forked"
  /\ process' = [process EXCEPT ![i] = "runs"]
  /\ pipe_ready' = [pipe_ready EXCEPT ![i] = pipe[i] > 0]
  /\ UNCHANGED <<listener, pipe, events, serving, clients>>

-----------------------------------------------------------------------------
(* run_parent *)

(* Mistake: listenfd is watched level-triggered, so it is reported until   *)
(* the client has been accepted.                                           *)
ParentWait_LevelTriggered ==
  /\ parent = "wait"
  /\ backlog # <<>>
  /\ parent' = "notify"
  /\ UNCHANGED <<connected, backlog, listen_ready, pre_idx, children, clients>>

(* epoll_wait reports listenfd. *)
ParentWait ==
  /\ parent = "wait"
  /\ listen_ready
  /\ listen_ready' = FALSE
  /\ parent' = "notify"
  /\ UNCHANGED <<connected, backlog, pre_idx, children, clients>>

(* Mistake: every other child is left out.                                 *)
NextChild_Skips == (pre_idx + 2) % max_process_num

NextChild == (pre_idx + 1) % max_process_num

(* send to the next child, whose pid nobody sets back when it has died; it *)
(* blocks while the pipe is full.                                          *)
NotifyDeadChild ==
  /\ parent = "notify"
  /\ pre_idx' = NextChild
  /\ process[pre_idx'] = "dead"
  /\ parent' = "dead"
  /\ UNCHANGED <<connected, backlog, listen_ready, children, clients>>

Notify ==
  /\ parent = "notify"
  /\ pre_idx' = NextChild
  /\ process[pre_idx'] # "dead"
  /\ pipe[pre_idx'] < PipeCapacity
  /\ pipe' = [pipe EXCEPT ![pre_idx'] = @ + 1]
  /\ pipe_ready' = [pipe_ready EXCEPT ![pre_idx'] = process[pre_idx'] = "runs"]
  /\ parent' = "wait"
  /\ UNCHANGED <<connected, backlog, listen_ready, process, events, serving, clients>>

-----------------------------------------------------------------------------
(* run_child *)

ReadyFor(i) ==
  (IF pipe_ready[i] THEN {Pipe} ELSE {})
    \cup {c \in Clients : owner[c] = i /\ conn_ready[c] /\ ~ closed[c]}

(* epoll_wait reports what is ready, at most MAX_EVENTS_NUMBER of it. *)
ChildWait(i) ==
  /\ process[i] = "runs" /\ events[i] = {} /\ serving[i] = NoClient
  /\ \E E \in SUBSET ReadyFor(i) \ {{}} :
       /\ \/ E = ReadyFor(i) /\ Cardinality(E) <= MAX_EVENTS_NUMBER
          \/ Cardinality(E) = MAX_EVENTS_NUMBER
       /\ events' = [events EXCEPT ![i] = E]
       /\ pipe_ready' = [pipe_ready EXCEPT ![i] = @ /\ Pipe \notin E]
       /\ conn_ready' = [c \in Clients |-> conn_ready[c] /\ c \notin E]
  /\ UNCHANGED <<listener, process, pipe, serving, owner, sent, inbuf, peer, closed>>

(* An event on pipefd: accept, addfd, init.  What has come before addfd is *)
(* reported to it.  The child has a descriptor left for the client.        *)
Accept(i) ==
  /\ Pipe \in events[i] /\ serving[i] = NoClient
  /\ backlog # <<>>
  /\ events' = [events EXCEPT ![i] = @ \ {Pipe}]
  /\ backlog' = Tail(backlog)
  /\ LET c == Head(backlog)
     IN /\ owner' = [owner EXCEPT ![c] = i]
        /\ conn_ready' = [conn_ready EXCEPT ![c] = inbuf[c] > 0 \/ peer[c] # "open"]
  /\ UNCHANGED <<connected, listen_ready, parent, pre_idx, process, pipe,
                 pipe_ready, serving, sent, inbuf, peer, closed>>

(* Mistake: the event stays on the list.                                   *)
Serve_KeepsEvent(i) ==
  /\ serving[i] = NoClient
  /\ \E c \in events[i] \ {Pipe} : serving' = [serving EXCEPT ![i] = c]
  /\ UNCHANGED <<listener, process, pipe, pipe_ready, events, clients>>

(* Echo::process begins. *)
Serve(i) ==
  /\ serving[i] = NoClient
  /\ \E c \in events[i] \ {Pipe} :
       /\ serving' = [serving EXCEPT ![i] = c]
       /\ events' = [events EXCEPT ![i] = @ \ {c}]
  /\ UNCHANGED <<listener, process, pipe, pipe_ready, clients>>

(* Mistake: process() receives one buffer and returns.                     *)
Echo_Once(i, c) ==
  /\ serving[i] = c
  /\ inbuf[c] > 0
  /\ inbuf' = [inbuf EXCEPT ![c] = @ - 1]
  /\ serving' = [serving EXCEPT ![i] = NoClient]
  /\ UNCHANGED <<listener, process, pipe, pipe_ready, events, owner, conn_ready,
                 sent, peer, closed>>

(* One turn of its loop: recv > 0 and send.  A closed peer answers with a  *)
(* reset; a reset connection makes one send fail,                          *)
AfterSend(p) ==
  CASE p = "closed" -> "resetting"
    [] p = "reset"  -> "broken"
    [] OTHER        -> p

Echo(i, c) ==
  /\ serving[i] = c
  /\ inbuf[c] > 0
  /\ peer[c] # "broken"
  /\ inbuf' = [inbuf EXCEPT ![c] = @ - 1]
  /\ peer' = [peer EXCEPT ![c] = AfterSend(@)]
  /\ UNCHANGED <<listener, children, owner, conn_ready, sent, closed>>

(* and the next one kill the process, which closes all it has open.        *)
Die(i, c) ==
  /\ serving[i] = c
  /\ inbuf[c] > 0
  /\ peer[c] = "broken"
  /\ process' = [process EXCEPT ![i] = "dead"]
  /\ pipe_ready' = [pipe_ready EXCEPT ![i] = FALSE]
  /\ events' = [events EXCEPT ![i] = {}]
  /\ serving' = [serving EXCEPT ![i] = NoClient]
  /\ closed' = [d \in Clients |-> closed[d] \/ owner[d] = i]
  /\ UNCHANGED <<listener, pipe, owner, conn_ready, sent, inbuf, peer>>

(* recv = 0 and removefd, or EAGAIN.  A reset not yet reported is by one   *)
(* recv, and the loop goes on to the one that returns 0.                   *)
Return(i, c) ==
  /\ serving[i] = c
  /\ inbuf[c] = 0
  /\ closed' = [closed EXCEPT ![c] = peer[c] # "open"]
  /\ serving' = [serving EXCEPT ![i] = NoClient]
  /\ UNCHANGED <<listener, process, pipe, pipe_ready, events, owner, conn_ready,
                 sent, inbuf, peer>>

-----------------------------------------------------------------------------
Parent == Fork \/ ParentStarts \/ ParentWait \/ Notify \/ NotifyDeadChild

Child(i) ==
  \/ ChildStarts(i)
  \/ ChildWait(i)
  \/ Accept(i)
  \/ Serve(i)
  \/ \E c \in Clients : Echo(i, c) \/ Die(i, c) \/ Return(i, c)

Next ==
  \/ Connect
  \/ \E c \in Clients : SendData(c) \/ Hangup(c) \/ ResetArrives(c)
  \/ Parent
  \/ \E i \in Children : Child(i)

Spec == Init /\ [][Next]_vars

(* The processes are scheduled; the clients need not do anything. *)
FairSpec == Spec /\ WF_vars(Parent) /\ \A i \in Children : WF_vars(Child(i))

-----------------------------------------------------------------------------
(* The types; and what a child has on its list of events, or is serving,   *)
(* is a connection of its own that it has not closed: no descriptor is     *)
(* used after close() (process_pool.h:164-183).                            *)
TypeOK ==
  /\ connected \in 0 .. MaxClients
  /\ backlog \in Seq(Clients)
  /\ listen_ready \in BOOLEAN
  /\ parent \in {"fork", "wait", "notify", "dead"}
  /\ pre_idx \in Children
  /\ process \in [Children -> {"none", "forked", "runs", "dead"}]
  /\ pipe \in [Children -> 0 .. PipeCapacity]
  /\ pipe_ready \in [Children -> BOOLEAN]
  /\ events \in [Children -> SUBSET (Clients \cup {Pipe})]
  /\ serving \in [Children -> Clients \cup {NoClient}]
  /\ owner \in [Clients -> Children \cup {NoChild}]
  /\ conn_ready \in [Clients -> BOOLEAN]
  /\ sent \in 0 .. MaxData
  /\ inbuf \in [Clients -> 0 .. MaxData]
  /\ peer \in [Clients -> {"open", "shut", "closed", "resetting", "reset", "broken"}]
  /\ closed \in [Clients -> BOOLEAN]
  /\ \A i \in Children :
       \A c \in (events[i] \ {Pipe}) \cup ({serving[i]} \ {NoClient}) :
         owner[c] = i /\ process[i] = "runs" /\ ~ closed[c]

(* No child is sent to the listening socket in vain: every notification    *)
(* under way, wherever it is between listenfd's readiness and a child's    *)
(* list of events, has a client of its own in the backlog, so no accept    *)
(* finds it empty.  A child uses what accept returns as an index without   *)
(* looking (process_pool.h:172-174).                                       *)
One(b) == IF b THEN 1 ELSE 0

NotificationsBacked ==
  One(listen_ready) + One(parent = "notify")
    + Cardinality({i \in Children : pipe_ready[i]})
    + Cardinality({i \in Children : process[i] = "forked" /\ pipe[i] > 0})
    + Cardinality({i \in Children : Pipe \in events[i]}) <= Len(backlog)

(* Nothing is read from the pipes, so they fill up; the round robin makes  *)
(* the parent block only when every child's pipe is full, never while      *)
(* there is a child it could still notify (process_pool.h:138-146).        *)
BlocksOnlyWhenAllFull ==
  parent = "notify" /\ process[NextChild] # "dead" /\ pipe[NextChild] = PipeCapacity
    => \A i \in Children : pipe[i] = PipeCapacity

(* A child that has accepted a client receives all it sends and closes the *)
(* connection after the client has, although each arrival is reported once *)
(* at most, and those during process() together (echo.h:24-40); unless it  *)
(* dies.                                                                   *)
ClientServed ==
  \A c \in Clients :
    (owner[c] # NoChild /\ (inbuf[c] > 0 \/ peer[c] # "open"))
      ~> \/ inbuf[c] = 0 /\ (peer[c] # "open" => closed[c])
         \/ \E i \in Children : owner[c] = i /\ process[i] = "dead"

(* "If it detects a connection request, the parent chooses a child ... and *)
(* notifies it to process the new client's connection" (Note.md:36): every *)
(* client that connects is accepted by some child.                         *)
EveryClientAccepted ==
  \A c \in Clients : (c <= connected) ~> (owner[c] # NoChild)
=============================================================================
