------------------------- MODULE ProcessPoolProofs -------------------------
(***************************************************************************)
(* Theorems about ProcessPool for any number of children and clients, any  *)
(* capacity of the pipes and any amount of data.                           *)
(***************************************************************************)
EXTENDS ProcessPool, FiniteSetTheorems, TLAPS

(* The first conjuncts of TypeOK; the last one is about descriptors.       *)
Types ==
  /\ connected \in 0 .. MaxClients
  /\ backlog \in Seq(Clients)
  /\ listen_ready \in BOOLEAN
  /\ parent \in {"fork", "wait", "notify", "dead"}
  /\ pre_idx \in Children
  /\ process \in [Children -> {"none", "forked", "runs", "dead"}]
  /\ pipe \in [Children -> 0 .. PipeCapacity]
  /\ pipe_ready \in [Children -> BOOLEAN]
  /\ events \in [Children -> SUBSET (Clients \cup {Pipe})]
  /\ serving \in [Children -> Clients \cup {NoClient}]
  /\ owner \in [Clients -> Children \cup {NoChild}]
  /\ conn_ready \in [Clients -> BOOLEAN]
  /\ sent \in 0 .. MaxData
  /\ inbuf \in [Clients -> 0 .. MaxData]
  /\ peer \in [Clients -> {"open", "shut", "closed", "resetting", "reset", "broken"}]
  /\ closed \in [Clients -> BOOLEAN]

(* What is received has been sent. *)
DataSent == \A c \in Clients : inbuf[c] <= sent

(* A client in the backlog is there once, and nobody's yet.                *)
Unaccepted ==
  /\ \A k \in 1 .. Len(backlog) : backlog[k] <= connected /\ owner[backlog[k]] = NoChild
  /\ \A j, k \in 1 .. Len(backlog) : backlog[j] = backlog[k] => j = k
  /\ \A c \in Clients : c > connected => owner[c] = NoChild

(* What a child has at hand is a connection of its own, and open.          *)
Holds(i, c) == c \in events[i] \/ c = serving[i]

OwnOpen ==
  \A i \in Children, c \in Clients :
    Holds(i, c) => owner[c] = i /\ process[i] = "runs" /\ ~ closed[c]

OneAtATime == \A i \in Children : serving[i] \notin events[i] \/ serving[i] = NoClient

(* No pipe is used before all children exist, and none is reported that    *)
(* has not been used.                                                      *)
Forking ==
  /\ parent = "fork" => \A i \in Children : pipe[i] = 0
  /\ parent # "fork" => \A i \in Children : process[i] # "none"
  /\ \A i \in Children : pipe_ready[i] \/ Pipe \in events[i] => pipe[i] > 0

(* The notifications go round, beginning with child 1, as long as the      *)
(* parent lives.                                                           *)
RoundRobin ==
  parent # "dead" =>
    \A i \in Children : pipe[i] = pipe[0] + (IF i \in 1 .. pre_idx THEN 1 ELSE 0)

Base ==
  Types /\ DataSent /\ Unaccepted /\ OwnOpen /\ OneAtATime /\ Forking /\ RoundRobin

PoolInv == Base /\ NotificationsBacked

-----------------------------------------------------------------------------
LEMMA Indices ==
  /\ max_process_num \in Nat /\ max_process_num >= 1
  /\ \A i \in Children : i \in Int /\ i >= 0 /\ i < max_process_num
  /\ 0 \in Children /\ IsFiniteSet(Children)
  /\ Pipe \notin Clients /\ NoClient \notin Clients /\ NoChild \notin Children
<1>1. IsFiniteSet(Children)
  BY PoolAssumption, FS_Interval DEF Children
<1>. QED
  BY <1>1, PoolAssumption DEF Children, Clients, Pipe, NoClient, NoChild

LEMMA Following ==
  ASSUME pre_idx \in Children
  PROVE  /\ NextChild \in Children
         /\ NextChild = IF pre_idx = max_process_num - 1 THEN 0 ELSE pre_idx + 1
<1>1. /\ pre_idx \in Nat /\ pre_idx < max_process_num
      /\ max_process_num \in Nat /\ max_process_num >= 1
  BY Indices DEF Children
<1>2. NextChild = IF pre_idx = max_process_num - 1 THEN 0 ELSE pre_idx + 1
  BY <1>1 DEF NextChild
<1>. QED
  BY <1>1, <1>2 DEF Children

-----------------------------------------------------------------------------
(* Base is kept by each action.                                            *)

LEMMA ConnectKeepsBase == ASSUME Base, Connect PROVE Base'
<1> USE DEF Base
<1>1. /\ connected' = connected + 1 /\ connected' \in Clients
      /\ backlog \in Seq(Clients) /\ backlog' = Append(backlog, connected')
      /\ Len(backlog) \in Nat
  BY PoolAssumption DEF Connect, Types, Clients
<1>2. /\ backlog' \in Seq(Clients) /\ Len(backlog') = Len(backlog) + 1
      /\ \A k \in 1 .. Len(backlog) : backlog'[k] = backlog[k]
      /\ backlog'[Len(backlog) + 1] = connected'
  BY <1>1
<1>3. Types'
  BY <1>1, <1>2 DEF Connect, children, clients, Types, Clients
<1>4. Unaccepted'
  <2>1. owner[connected'] = NoChild /\ owner' = owner /\ connected \in Nat
    BY <1>1 DEF Connect, clients, Unaccepted, Types
  <2>2. \A k \in 1 .. Len(backlog) : backlog[k] <= connected /\ backlog[k] \in Nat
    <3>1. \A k \in 1 .. Len(backlog) : backlog[k] \in Clients
      BY <1>1
    <3>. QED
      BY <3>1 DEF Unaccepted, Clients
  <2>. QED
    BY <1>1, <1>2, <2>1, <2>2 DEF Unaccepted, Clients
<1>5. DataSent' /\ OwnOpen' /\ OneAtATime' /\ Forking' /\ RoundRobin'
  BY DEF Connect, children, clients, DataSent, OwnOpen, Holds, OneAtATime, Forking, RoundRobin
<1>. QED
  BY <1>3, <1>4, <1>5

LEMMA ClientKeepsBase ==
  ASSUME Base, NEW c \in Clients, SendData(c) \/ Hangup(c) \/ ResetArrives(c) PROVE Base'
<1> USE DEF Base
<1>1. UNCHANGED <<listener, children, owner, closed>>
  BY DEF SendData, Hangup, ResetArrives
<1>2. conn_ready' \in [Clients -> BOOLEAN]
  BY DEF SendData, Hangup, ResetArrives, Arrival, Types
<1>3. peer' \in [Clients -> {"open", "shut", "closed", "resetting", "reset", "broken"}]
  BY DEF SendData, Hangup, ResetArrives, Types
<1>4. sent' \in 0 .. MaxData /\ inbuf' \in [Clients -> 0 .. MaxData] /\ DataSent'
  <2>1. CASE SendData(c)
    <3>1. sent' = sent + 1 /\ sent' \in 0 .. MaxData /\ sent \in Nat
      BY <2>1, PoolAssumption DEF SendData, Types
    <3>2. inbuf' = [inbuf EXCEPT ![c] = @ + 1] /\ inbuf[c] \in Nat /\ inbuf[c] <= sent
      BY <2>1 DEF SendData, Types, DataSent
    <3>. QED
      BY <3>1, <3>2, PoolAssumption DEF Types, DataSent
  <2>2. CASE UNCHANGED <<sent, inbuf>>
    BY <2>2 DEF Types, DataSent
  <2>. QED
    BY <2>1, <2>2 DEF Hangup, ResetArrives
<1>5. Types'
  BY <1>1, <1>2, <1>3, <1>4 DEF listener, children, Types
<1>6. Unaccepted' /\ OwnOpen' /\ OneAtATime' /\ Forking' /\ RoundRobin'
  BY <1>1 DEF listener, children, Unaccepted, OwnOpen, Holds, OneAtATime, Forking, RoundRobin
<1>. QED
  BY <1>4, <1>5, <1>6

LEMMA ParentKeepsBase == ASSUME Base, Parent PROVE Base'
<1> USE DEF Base
<1>1. CASE Fork
  <2>1. Types'
    BY <1>1 DEF Fork, listener, clients, Types
  <2>2. PICK i \in Children : /\ \A j \in Children : process[j] = "none" <=> j >= i
                             /\ process' = [process EXCEPT ![i] = "forked"]
    BY <1>1 DEF Fork
  <2>3. process[i] = "none"
    <3>1. i \in Int
      BY Indices
    <3>. QED
      BY <2>2, <3>1
  <2>4. OwnOpen' /\ Forking'
    BY <1>1, <2>2, <2>3, SMTT(20) DEF Fork, listener, clients, Types, OwnOpen, Holds, Forking
  <2>5. DataSent' /\ Unaccepted' /\ OneAtATime' /\ RoundRobin'
    BY <1>1 DEF Fork, listener, clients, DataSent, Unaccepted, OneAtATime, RoundRobin
  <2>. QED
    BY <2>1, <2>4, <2>5
<1>2. CASE ParentStarts \/ ParentWait
  <2>1. Types'
    BY <1>2 DEF ParentStarts, ParentWait, children, clients, Types
  <2>2. Forking' /\ RoundRobin'
    BY <1>2 DEF ParentStarts, ParentWait, children, clients, Forking, RoundRobin
  <2>3. DataSent' /\ Unaccepted' /\ OwnOpen' /\ OneAtATime'
    BY <1>2 DEF ParentStarts, ParentWait, children, clients, DataSent, Unaccepted,
                OwnOpen, Holds, OneAtATime
  <2>. QED
    BY <2>1, <2>2, <2>3
<1>3. CASE NotifyDeadChild
  <2>1. Types'
    BY <1>3, Following DEF NotifyDeadChild, children, clients, Types
  <2>2. Forking' /\ RoundRobin'
    BY <1>3 DEF NotifyDeadChild, children, clients, Forking, RoundRobin
  <2>3. DataSent' /\ Unaccepted' /\ OwnOpen' /\ OneAtATime'
    BY <1>3 DEF NotifyDeadChild, children, clients, DataSent, Unaccepted,
                OwnOpen, Holds, OneAtATime
  <2>. QED
    BY <2>1, <2>2, <2>3
<1>4. CASE Notify
  <2>1. pre_idx' \in Children /\ pipe'[pre_idx'] > 0
    BY <1>4, Following, PoolAssumption DEF Notify, Types
  <2>2. Types'
    BY <1>4, <2>1, PoolAssumption DEF Notify, clients, Types
  <2>3. Forking'
    BY <1>4, <2>1 DEF Notify, Types, Forking
  <2>4. RoundRobin'
    BY <1>4, Following, Indices, SMTT(20) DEF Notify, Types, RoundRobin
  <2>5. DataSent' /\ Unaccepted' /\ OwnOpen' /\ OneAtATime'
    BY <1>4 DEF Notify, clients, DataSent, Unaccepted, OwnOpen, Holds, OneAtATime
  <2>. QED
    BY <2>2, <2>3, <2>4, <2>5
<1>. QED
  BY <1>1, <1>2, <1>3, <1>4 DEF Parent

LEMMA AcceptKeepsBase == ASSUME Base, NEW i \in Children, Accept(i) PROVE Base'
<1> USE DEF Base
<1> DEFINE c == Head(backlog)
<1>1. /\ backlog \in Seq(Clients) /\ backlog # <<>> /\ backlog' = Tail(backlog)
      /\ owner' = [owner EXCEPT ![c] = i]
      /\ events' = [events EXCEPT ![i] = @ \ {Pipe}]
      /\ conn_ready' = [conn_ready EXCEPT ![c] = inbuf[c] > 0 \/ peer[c] # "open"]
  BY DEF Accept, Types
<1>2. /\ Len(backlog) \in Nat /\ c = backlog[1] /\ c \in Clients
      /\ backlog' \in Seq(Clients) /\ Len(backlog') = Len(backlog) - 1
      /\ \A k \in 1 .. Len(backlog') : backlog'[k] = backlog[k + 1]
  BY <1>1
<1>3. owner[c] = NoChild /\ c <= connected /\ \A k \in 1 .. Len(backlog') : backlog'[k] # c
  BY <1>2 DEF Unaccepted
<1>4. Types'
  BY <1>1, <1>2 DEF Accept, Types
<1>5. Unaccepted'
  <2>1. connected' = connected /\ connected \in Int /\ c \in Int
    BY <1>2 DEF Accept, Types, Clients
  <2>2. \A k \in 1 .. Len(backlog') : /\ backlog'[k] <= connected
                                      /\ owner'[backlog'[k]] = NoChild
    BY <1>1, <1>2, <1>3 DEF Unaccepted, Types
  <2>3. \A j, k \in 1 .. Len(backlog') : backlog'[j] = backlog'[k] => j = k
    BY <1>2 DEF Unaccepted
  <2>4. \A d \in Clients : d > connected => owner'[d] = NoChild
    BY <1>1, <1>3, <2>1 DEF Unaccepted, Types, Clients
  <2>. QED
    BY <2>1, <2>2, <2>3, <2>4 DEF Unaccepted
<1>6. OwnOpen' /\ OneAtATime'
  BY <1>1, <1>2, <1>3, Indices, SMTT(20) DEF Accept, Types, OwnOpen, Holds, OneAtATime
<1>7. DataSent' /\ Forking' /\ RoundRobin'
  BY <1>1 DEF Accept, Types, DataSent, Forking, RoundRobin
<1>. QED
  BY <1>4, <1>5, <1>6, <1>7

LEMMA ChildKeepsBase == ASSUME Base, NEW i \in Children, Child(i) PROVE Base'
<1> USE DEF Base
<1>1. CASE ChildStarts(i)
  <2>1. Types'
    BY <1>1 DEF ChildStarts, listener, clients, Types
  <2>2. OwnOpen' /\ Forking'
    BY <1>1 DEF ChildStarts, listener, clients, Types, OwnOpen, Holds, Forking
  <2>3. DataSent' /\ Unaccepted' /\ OneAtATime' /\ RoundRobin'
    BY <1>1 DEF ChildStarts, listener, clients, DataSent, Unaccepted, OneAtATime, RoundRobin
  <2>. QED
    BY <2>1, <2>2, <2>3
<1>2. CASE ChildWait(i)
  <2>1. PICK E \in SUBSET ReadyFor(i) :
          /\ events' = [events EXCEPT ![i] = E]
          /\ pipe_ready' = [pipe_ready EXCEPT ![i] = @ /\ Pipe \notin E]
          /\ conn_ready' = [c \in Clients |-> conn_ready[c] /\ c \notin E]
    BY <1>2 DEF ChildWait
  <2>2. /\ E \subseteq Clients \cup {Pipe}
        /\ Pipe \in E => pipe_ready[i]
        /\ \A c \in Clients \cap E : owner[c] = i /\ ~ closed[c]
    BY Indices DEF ReadyFor
  <2>3. Types'
    <3>1. conn_ready' \in [Clients -> BOOLEAN]
      BY <2>1, Zenon
    <3>3. pipe_ready' \in [Children -> BOOLEAN]
      <4>1. (pipe_ready[i] /\ Pipe \notin E) \in BOOLEAN /\ pipe_ready \in [Children -> BOOLEAN]
        BY Zenon DEF Types
      <4>. QED
        BY <2>1, <4>1
    <3>2. events' \in [Children -> SUBSET (Clients \cup {Pipe})]
      <4>1. events' = [events EXCEPT ![i] = E]
        BY <2>1
      <4>. QED
        BY <2>2, <4>1 DEF Types
    <3>. QED
      BY <1>2, <3>1, <3>2, <3>3 DEF ChildWait, listener, Types
  <2>4. OwnOpen' /\ OneAtATime' /\ Forking'
    <3>1. UNCHANGED <<process, serving, owner, closed, pipe, parent>> /\ serving[i] = NoClient
      BY <1>2 DEF ChildWait, listener
    <3>2. process[i] = "runs"
      BY <1>2 DEF ChildWait
    <3>6. events'[i] = E /\ \A k \in Children \ {i} : events'[k] = events[k]
      <4>1. events' = [events EXCEPT ![i] = E]
        BY <2>1
      <4>. QED
        BY <4>1 DEF Types
    <3>7. OneAtATime'
      BY <3>1, <3>6 DEF OneAtATime
    <3>3. OwnOpen'
      <4> SUFFICES ASSUME NEW k \in Children, NEW c \in Clients, Holds(k, c)'
                   PROVE  owner[c] = k /\ process[k] = "runs" /\ ~ closed[c]
        BY <3>1 DEF OwnOpen
      <4>1. CASE k = i
        BY <2>2, <3>1, <3>2, <3>6, <4>1, Indices DEF Holds
      <4>2. CASE k # i
        BY <3>1, <3>6, <4>2 DEF Holds, OwnOpen
      <4>. QED
        BY <4>1, <4>2
    <3>4. \A k \in Children : pipe_ready'[k] \/ Pipe \in events'[k]
                               => pipe_ready[k] \/ Pipe \in events[k]
      <4>1. \A k \in Children : pipe_ready'[k] => pipe_ready[k]
        <5>1. pipe_ready \in [Children -> BOOLEAN]
          BY DEF Types
        <5>2. pipe_ready' = [pipe_ready EXCEPT ![i] = @ /\ Pipe \notin E]
          BY <2>1, Zenon
        <5>. QED
          BY <5>1, <5>2, Zenon
      <4>. QED
        BY <2>2, <3>6, <4>1
    <3>5. Forking'
      BY <3>1, <3>4 DEF Forking
    <3>. QED
      BY <3>3, <3>5, <3>7
  <2>5. DataSent' /\ Unaccepted' /\ RoundRobin'
    BY <1>2 DEF ChildWait, listener, DataSent, Unaccepted, RoundRobin
  <2>. QED
    BY <2>3, <2>4, <2>5
<1>3. CASE Serve(i)
  <2>1. Types'
    BY <1>3 DEF Serve, listener, clients, Types
  <2>2. OwnOpen' /\ OneAtATime' /\ Forking'
    BY <1>3, Indices DEF Serve, listener, clients, Types, OwnOpen, Holds, OneAtATime, Forking
  <2>3. DataSent' /\ Unaccepted' /\ RoundRobin'
    BY <1>3 DEF Serve, listener, clients, DataSent, Unaccepted, RoundRobin
  <2>. QED
    BY <2>1, <2>2, <2>3
<1>4. ASSUME NEW c \in Clients, Echo(i, c) PROVE Base'
  <2>1. inbuf' \in [Clients -> 0 .. MaxData] /\ DataSent'
    BY <1>4, PoolAssumption DEF Echo, Types, DataSent
  <2>2. peer' \in [Clients -> {"open", "shut", "closed", "resetting", "reset", "broken"}]
    BY <1>4 DEF Echo, AfterSend, Types
  <2>3. Types'
    BY <1>4, <2>1, <2>2 DEF Echo, listener, children, Types
  <2>4. Unaccepted' /\ OwnOpen' /\ OneAtATime' /\ Forking' /\ RoundRobin'
    BY <1>4 DEF Echo, listener, children, Unaccepted, OwnOpen, Holds, OneAtATime, Forking,
                RoundRobin
  <2>. QED
    BY <2>1, <2>3, <2>4
<1>5. ASSUME NEW c \in Clients, Die(i, c) PROVE Base'
  <2>1. Types'
    BY <1>5 DEF Die, listener, Types
  <2>2. OwnOpen' /\ OneAtATime' /\ Forking'
    BY <1>5, Indices DEF Die, listener, Types, OwnOpen, Holds, OneAtATime, Forking
  <2>3. DataSent' /\ Unaccepted' /\ RoundRobin'
    BY <1>5 DEF Die, listener, DataSent, Unaccepted, RoundRobin
  <2>. QED
    BY <2>1, <2>2, <2>3
<1>6. ASSUME NEW c \in Clients, Return(i, c) PROVE Base'
  <2>1. Types'
    BY <1>6 DEF Return, listener, Types
  <2>2. OwnOpen' /\ OneAtATime' /\ Forking'
    BY <1>6, Indices DEF Return, listener, Types, OwnOpen, Holds, OneAtATime, Forking
  <2>3. DataSent' /\ Unaccepted' /\ RoundRobin'
    BY <1>6 DEF Return, listener, DataSent, Unaccepted, RoundRobin
  <2>. QED
    BY <2>1, <2>2, <2>3
<1>. QED
  BY <1>1, <1>2, <1>3, <1>4, <1>5, <1>6, AcceptKeepsBase DEF Child

LEMMA BaseStep == ASSUME Base, [Next]_vars PROVE Base'
<1>1. CASE UNCHANGED vars
  <2>1. Types' /\ DataSent' /\ RoundRobin'
    BY <1>1 DEF vars, listener, children, clients, Base, Types, DataSent, RoundRobin
  <2>2. Unaccepted' /\ OwnOpen' /\ OneAtATime' /\ Forking'
    BY <1>1 DEF vars, listener, children, clients, Base, Unaccepted, OwnOpen, Holds,
                OneAtATime, Forking
  <2>. QED
    BY <2>1, <2>2 DEF Base
<1>. QED
  BY <1>1, ConnectKeepsBase, ClientKeepsBase, ParentKeepsBase, ChildKeepsBase DEF Next
-----------------------------------------------------------------------------
(* The notifications under way at the children, and what a child adds.     *)
Reported == {i \in Children : pipe_ready[i]}
Unreported == {i \in Children : process[i] = "forked" /\ pipe[i] > 0}
Listed == {i \in Children : Pipe \in events[i]}

UnderWay == Cardinality(Reported) + Cardinality(Unreported) + Cardinality(Listed)

At(i) == One(pipe_ready[i]) + One(process[i] = "forked" /\ pipe[i] > 0) + One(Pipe \in events[i])

SameAt(i) ==
  pipe_ready'[i] = pipe_ready[i] /\ process'[i] = process[i] /\ pipe'[i] = pipe[i]
    /\ events'[i] = events[i]

LEMMA OneElement ==
  ASSUME NEW S, IsFiniteSet(S), NEW A \in SUBSET S, NEW B \in SUBSET S, NEW t \in S,
         \A k \in S \ {t} : k \in A <=> k \in B
  PROVE  /\ Cardinality(A) \in Nat /\ Cardinality(B) \in Nat
         /\ Cardinality(B) + One(t \in A) = Cardinality(A) + One(t \in B)
<1>1. A \ {t} = B \ {t}
  OBVIOUS
<1>2. IsFiniteSet(A) /\ IsFiniteSet(B)
  BY FS_Subset
<1>3. Cardinality(A) \in Nat /\ Cardinality(B) \in Nat
  BY <1>2, FS_CardinalityType
<1>4. /\ Cardinality(A \ {t}) = IF t \in A THEN Cardinality(A) - 1 ELSE Cardinality(A)
      /\ Cardinality(B \ {t}) = IF t \in B THEN Cardinality(B) - 1 ELSE Cardinality(B)
  BY <1>2, FS_RemoveElement
<1>. QED
  BY <1>1, <1>3, <1>4 DEF One

LEMMA OneChild ==
  ASSUME NEW i \in Children, \A k \in Children \ {i} : SameAt(k)
  PROVE  /\ UnderWay \in Nat /\ UnderWay' \in Nat /\ At(i) \in Nat /\ At(i)' \in Nat
         /\ UnderWay' + At(i) = UnderWay + At(i)'
<1>1. /\ Reported \in SUBSET Children /\ Reported' \in SUBSET Children
      /\ Unreported \in SUBSET Children /\ Unreported' \in SUBSET Children
      /\ Listed \in SUBSET Children /\ Listed' \in SUBSET Children
  BY DEF Reported, Unreported, Listed
<1>2. /\ \A k \in Children \ {i} : k \in Reported <=> k \in Reported'
      /\ \A k \in Children \ {i} : k \in Unreported <=> k \in Unreported'
      /\ \A k \in Children \ {i} : k \in Listed <=> k \in Listed'
  BY Zenon DEF SameAt, Reported, Unreported, Listed
<1>3. IsFiniteSet(Children)
  BY Indices
<1>4. /\ Cardinality(Reported) \in Nat /\ Cardinality(Reported') \in Nat
      /\ Cardinality(Reported') + One(i \in Reported)
           = Cardinality(Reported) + One(i \in Reported')
  BY <1>1, <1>2, <1>3, OneElement
<1>5. /\ Cardinality(Unreported) \in Nat /\ Cardinality(Unreported') \in Nat
      /\ Cardinality(Unreported') + One(i \in Unreported)
           = Cardinality(Unreported) + One(i \in Unreported')
  BY <1>1, <1>2, <1>3, OneElement
<1>6. /\ Cardinality(Listed) \in Nat /\ Cardinality(Listed') \in Nat
      /\ Cardinality(Listed') + One(i \in Listed) = Cardinality(Listed) + One(i \in Listed')
  BY <1>1, <1>2, <1>3, OneElement
<1>7. /\ At(i) = One(i \in Reported) + One(i \in Unreported) + One(i \in Listed)
      /\ At(i)' = One(i \in Reported') + One(i \in Unreported') + One(i \in Listed')
  <2>1. /\ One(pipe_ready[i]) = One(i \in Reported)
        /\ One(process[i] = "forked" /\ pipe[i] > 0) = One(i \in Unreported)
        /\ One(Pipe \in events[i]) = One(i \in Listed)
    BY Zenon DEF Reported, Unreported, Listed, One
  <2>2. /\ One(pipe_ready'[i]) = One(i \in Reported')
        /\ One(process'[i] = "forked" /\ pipe'[i] > 0) = One(i \in Unreported')
        /\ One(Pipe \in events'[i]) = One(i \in Listed')
    BY Zenon DEF Reported, Unreported, Listed, One
  <2>. QED
    BY <2>1, <2>2, Zenon DEF At, One
<1>8. /\ One(i \in Reported) \in {0, 1} /\ One(i \in Reported') \in {0, 1}
      /\ One(i \in Unreported) \in {0, 1} /\ One(i \in Unreported') \in {0, 1}
      /\ One(i \in Listed) \in {0, 1} /\ One(i \in Listed') \in {0, 1}
  BY DEF One
<1>9. UnderWay' = Cardinality(Reported') + Cardinality(Unreported') + Cardinality(Listed')
  BY DEF UnderWay
<1>10. At(i) \in Nat /\ At(i)' \in Nat
  BY <1>7, <1>8
<1>11. UnderWay \in Nat /\ UnderWay' \in Nat
  BY <1>4, <1>5, <1>6, <1>9 DEF UnderWay
<1>12. UnderWay' + At(i) = UnderWay + At(i)'
  BY <1>4, <1>5, <1>6, <1>7, <1>8, <1>9 DEF UnderWay
<1>. QED
  BY <1>10, <1>11, <1>12

LEMMA NoneChanges ==
  ASSUME \A i \in Children : SameAt(i) PROVE UnderWay \in Nat /\ UnderWay' = UnderWay
<1>1. 0 \in Children
  BY Indices
<1>2. At(0)' = At(0)
  BY <1>1, Zenon DEF SameAt, At, One
<1>. QED
  BY <1>1, <1>2, OneChild

LEMMA Backing ==
  /\ NotificationsBacked <=> One(listen_ready) + One(parent = "notify") + UnderWay <= Len(backlog)
  /\ NotificationsBacked'
       <=> One(listen_ready') + One(parent' = "notify") + UnderWay' <= Len(backlog')
  /\ UnderWay \in Nat
  /\ \A b : One(b) \in {0, 1}
<1>1. \A b : One(b) \in {0, 1}
  BY DEF One
<1>2. \A A \in SUBSET Children : Cardinality(A) \in Nat
  BY Indices, FS_Subset, FS_CardinalityType
<1>3. /\ Reported \in SUBSET Children /\ Reported' \in SUBSET Children
      /\ Unreported \in SUBSET Children /\ Unreported' \in SUBSET Children
      /\ Listed \in SUBSET Children /\ Listed' \in SUBSET Children
  BY DEF Reported, Unreported, Listed
<1>4. NotificationsBacked
        <=> One(listen_ready) + One(parent = "notify") + Cardinality(Reported)
              + Cardinality(Unreported) + Cardinality(Listed) <= Len(backlog)
  BY DEF NotificationsBacked, Reported, Unreported, Listed
<1>5. NotificationsBacked'
        <=> One(listen_ready') + One(parent' = "notify") + Cardinality(Reported')
              + Cardinality(Unreported') + Cardinality(Listed') <= Len(backlog')
  BY DEF NotificationsBacked, Reported, Unreported, Listed
<1>6. One(listen_ready) + One(parent = "notify") + Cardinality(Reported)
        + Cardinality(Unreported) + Cardinality(Listed)
        = One(listen_ready) + One(parent = "notify") + UnderWay
  BY <1>1, <1>2, <1>3 DEF UnderWay
<1>7. One(listen_ready') + One(parent' = "notify") + Cardinality(Reported')
        + Cardinality(Unreported') + Cardinality(Listed')
        = One(listen_ready') + One(parent' = "notify") + UnderWay'
  BY <1>1, <1>2, <1>3 DEF UnderWay
<1>8. UnderWay \in Nat
  BY <1>2, <1>3 DEF UnderWay
<1>. QED
  BY <1>1, <1>4, <1>5, <1>6, <1>7, <1>8

-----------------------------------------------------------------------------
(* NotificationsBacked is kept.                                            *)

LEMMA ArrivalsKeepBacked ==
  ASSUME Base, NotificationsBacked,
         \/ Connect
         \/ \E c \in Clients : SendData(c) \/ Hangup(c) \/ ResetArrives(c)
  PROVE  NotificationsBacked'
<1>1. UnderWay' = UnderWay
  BY NoneChanges DEF Connect, SendData, Hangup, ResetArrives, children, SameAt
<1>2. CASE Connect
  <2>1. Len(backlog') = Len(backlog) + 1 /\ Len(backlog) \in Nat /\ parent' = parent
    <3>1. backlog \in Seq(Clients) /\ connected + 1 \in Clients
      BY <1>2, PoolAssumption DEF Connect, Base, Types, Clients
    <3>. QED
      BY <1>2, <3>1 DEF Connect
  <2>2. parent = "fork" => One(listen_ready') = 0
    BY <1>2, Zenon DEF Connect, One
  <2>3. One(listen_ready) \in {0, 1} /\ One(listen_ready') \in {0, 1}
    BY DEF One
  <2>. QED
    BY <1>1, <2>1, <2>2, <2>3, Backing
<1>3. CASE \E c \in Clients : SendData(c) \/ Hangup(c) \/ ResetArrives(c)
  <2>1. UNCHANGED <<listen_ready, parent, backlog>>
    BY <1>3 DEF SendData, Hangup, ResetArrives, listener
  <2>. QED
    BY <1>1, <2>1, Backing
<1>. QED
  BY <1>2, <1>3

LEMMA ParentKeepsBacked ==
  ASSUME Base, NotificationsBacked, Parent PROVE NotificationsBacked'
<1>1. Len(backlog) \in Nat /\ backlog' = backlog
  BY DEF Base, Types, Parent, Fork, ParentStarts, ParentWait, Notify, NotifyDeadChild, listener
<1>2. CASE Fork
  <2>1. PICK i \in Children : process' = [process EXCEPT ![i] = "forked"]
    BY <1>2 DEF Fork
  <2>2. UNCHANGED <<listen_ready, parent, pipe, pipe_ready, events>> /\ parent = "fork"
    BY <1>2 DEF Fork, listener
  <2>3. \A k \in Children \ {i} : SameAt(k)
    BY <2>1, <2>2 DEF Base, Types, SameAt
  <2>4. At(i)' = At(i)
    <3>1. pipe[i] = 0
      BY <2>2 DEF Base, Forking
    <3>2. /\ One(process[i] = "forked" /\ pipe[i] > 0) = 0
          /\ One(process'[i] = "forked" /\ pipe'[i] > 0) = 0
      BY <2>2, <3>1 DEF One
    <3>. QED
      BY <2>2, <3>2, Zenon DEF At
  <2>. QED
    BY <2>2, <2>3, <2>4, <1>1, OneChild, Backing
<1>3. CASE ParentStarts
  <2>1. UNCHANGED <<process, pipe, pipe_ready, events>>
    BY <1>3 DEF ParentStarts, children
  <2>2. UnderWay' = UnderWay
    BY <2>1, NoneChanges DEF SameAt
  <2>3. Reported = {} /\ Unreported = {} /\ Listed = {}
    <3>1. \A i \in Children : pipe[i] = 0 /\ ~ pipe_ready[i] /\ Pipe \notin events[i]
      BY <1>3 DEF ParentStarts, Base, Forking
    <3>. QED
      BY <3>1 DEF Reported, Unreported, Listed
  <2>4. UnderWay = 0
    BY <2>3, FS_EmptySet DEF UnderWay
  <2>5. One(listen_ready') <= Len(backlog)
    <3>1. CASE backlog = <<>>
      <4>1. ~ listen_ready'
        BY <1>3, <3>1 DEF ParentStarts
      <4>. QED
        BY <1>1, <4>1 DEF One
    <3>2. CASE backlog # <<>>
      <4>1. Len(backlog) >= 1 /\ One(listen_ready') \in {0, 1}
        BY <3>2 DEF Base, Types, One
      <4>. QED
        BY <4>1
    <3>. QED
      BY <3>1, <3>2
  <2>6. One(parent' = "notify") = 0 /\ One(listen_ready') \in {0, 1}
    BY <1>3 DEF ParentStarts, One
  <2>. QED
    BY <1>1, <2>2, <2>4, <2>5, <2>6, Backing
<1>4. CASE ParentWait
  <2>1. UnderWay' = UnderWay
    BY <1>4, NoneChanges DEF ParentWait, children, SameAt
  <2>2. /\ One(listen_ready) = 1 /\ One(listen_ready') = 0
        /\ One(parent = "notify") = 0 /\ One(parent' = "notify") = 1
    BY <1>4 DEF ParentWait, One
  <2>. QED
    BY <1>1, <2>1, <2>2, Backing
<1>5. CASE NotifyDeadChild
  <2>1. UnderWay' = UnderWay
    BY <1>5, NoneChanges DEF NotifyDeadChild, children, SameAt
  <2>2. listen_ready' = listen_ready /\ One(parent = "notify") = 1 /\ One(parent' = "notify") = 0
    BY <1>5 DEF NotifyDeadChild, One
  <2>. QED
    BY <1>1, <2>1, <2>2, Backing
<1>6. CASE Notify
  <2>1. PICK n \in Children : n = pre_idx'
    BY <1>6, Following DEF Notify, Base, Types
  <2>2. UNCHANGED <<listen_ready, process, events>>
    BY <1>6 DEF Notify
  <2>3. \A k \in Children \ {n} : SameAt(k)
    <3>1. pipe' = [pipe EXCEPT ![n] = @ + 1]
      BY <1>6, <2>1 DEF Notify
    <3>2. pipe_ready' = [pipe_ready EXCEPT ![n] = process[n] = "runs"]
      BY <1>6, <2>1, Zenon DEF Notify
    <3>3. \A k \in Children \ {n} : pipe_ready'[k] = pipe_ready[k] /\ pipe'[k] = pipe[k]
      BY <3>1, <3>2, Zenon DEF Base, Types
    <3>. QED
      BY <2>2, <3>3 DEF SameAt
  <2>4. At(n)' <= At(n) + 1
    <3>1. pipe_ready'[n] => process'[n] = "runs"
      BY <1>6, <2>1, <2>2, Zenon DEF Notify, Base, Types
    <3>2. One(pipe_ready'[n]) + One(process'[n] = "forked" /\ pipe'[n] > 0) <= 1
      BY <3>1 DEF One
    <3>3. One(Pipe \in events'[n]) = One(Pipe \in events[n])
      BY <2>2
    <3>4. /\ One(pipe_ready[n]) \in {0, 1} /\ One(process[n] = "forked" /\ pipe[n] > 0) \in {0, 1}
          /\ One(pipe_ready'[n]) \in {0, 1} /\ One(process'[n] = "forked" /\ pipe'[n] > 0) \in {0, 1}
          /\ One(Pipe \in events[n]) \in {0, 1}
      BY DEF One
    <3>. QED
      BY <3>2, <3>3, <3>4 DEF At
  <2>5. One(parent = "notify") = 1 /\ One(parent' = "notify") = 0
    BY <1>6 DEF Notify, One
  <2>. QED
    BY <1>1, <2>1, <2>2, <2>3, <2>4, <2>5, OneChild, Backing
<1>. QED
  BY <1>2, <1>3, <1>4, <1>5, <1>6 DEF Parent

LEMMA ChildKeepsBacked ==
  ASSUME Base, NotificationsBacked, NEW i \in Children, Child(i) PROVE NotificationsBacked'
<1>1. Len(backlog) \in Nat
  BY DEF Base, Types
<1>2. ASSUME UNCHANGED <<listen_ready, parent, backlog>>, \A k \in Children \ {i} : SameAt(k),
             At(i)' <= At(i)
      PROVE  NotificationsBacked'
  BY <1>1, <1>2, OneChild, Backing
<1>3. ASSUME UNCHANGED listener, UNCHANGED <<process, pipe, pipe_ready, events>>
      PROVE  NotificationsBacked'
  <2>1. UnderWay' = UnderWay
    BY <1>3, NoneChanges DEF SameAt
  <2>. QED
    BY <1>3, <2>1, Backing DEF listener
<1>4. CASE ChildStarts(i)
  <2>1. \A k \in Children \ {i} : SameAt(k)
    BY <1>4, Zenon DEF ChildStarts, Base, Types, SameAt
  <2>2. /\ process[i] = "forked" /\ process'[i] = "runs" /\ pipe'[i] = pipe[i]
        /\ events'[i] = events[i]
    BY <1>4 DEF ChildStarts, Base, Types
  <2>3. pipe_ready'[i] = (pipe[i] > 0)
    BY <1>4, Zenon DEF ChildStarts, Base, Types
  <2>4. One(pipe_ready'[i]) = One(process[i] = "forked" /\ pipe[i] > 0)
    BY <2>2, <2>3 DEF One
  <2>5. One(process'[i] = "forked" /\ pipe'[i] > 0) = 0
    BY <2>2 DEF One
  <2>6. At(i)' <= At(i)
    BY <2>2, <2>4, <2>5, Backing DEF At
  <2>. QED
    BY <1>2, <1>4, <2>1, <2>6 DEF ChildStarts, listener
<1>5. CASE ChildWait(i)
  <2>1. PICK E \in SUBSET ReadyFor(i) :
          /\ events' = [events EXCEPT ![i] = E]
          /\ pipe_ready' = [pipe_ready EXCEPT ![i] = @ /\ Pipe \notin E]
    BY <1>5, Zenon DEF ChildWait
  <2>2. UNCHANGED <<listener, process, pipe>> /\ events[i] = {}
    BY <1>5 DEF ChildWait
  <2>3. \A k \in Children \ {i} : SameAt(k)
    BY <2>1, <2>2, Zenon DEF Base, Types, SameAt
  <2>4. /\ events'[i] = E
        /\ pipe_ready'[i] => Pipe \notin E
        /\ pipe_ready'[i] => pipe_ready[i]
    BY <2>1, Zenon DEF Base, Types
  <2>5. Pipe \in E => pipe_ready[i]
    BY Indices DEF ReadyFor
  <2>6. One(pipe_ready'[i]) + One(Pipe \in events'[i]) <= One(pipe_ready[i])
    BY <2>4, <2>5 DEF One
  <2>7. At(i)' <= At(i)
    BY <2>2, <2>6, Backing DEF At
  <2>. QED
    BY <1>2, <2>2, <2>3, <2>7 DEF listener
<1>6. CASE Accept(i)
  <2>1. \A k \in Children \ {i} : SameAt(k)
    BY <1>6, Zenon DEF Accept, Base, Types, SameAt
  <2>2. /\ UNCHANGED <<listen_ready, parent, process, pipe, pipe_ready>>
        /\ Pipe \in events[i] /\ Pipe \notin events'[i]
    BY <1>6 DEF Accept, Base, Types
  <2>3. One(Pipe \in events[i]) = 1 /\ One(Pipe \in events'[i]) = 0
    BY <2>2 DEF One
  <2>4. At(i) = At(i)' + 1
    BY <2>2, <2>3, Backing DEF At
  <2>5. Len(backlog') = Len(backlog) - 1
    BY <1>6 DEF Accept, Base, Types
  <2>. QED
    BY <1>1, <2>1, <2>2, <2>4, <2>5, OneChild, Backing
<1>7. CASE Serve(i)
  <2>1. \A k \in Children \ {i} : SameAt(k)
    BY <1>7 DEF Serve, Base, Types, SameAt
  <2>2. UNCHANGED <<listener, process, pipe, pipe_ready>>
    BY <1>7 DEF Serve
  <2>3. Pipe \in events'[i] <=> Pipe \in events[i]
    BY <1>7 DEF Serve, Base, Types
  <2>4. One(Pipe \in events'[i]) = One(Pipe \in events[i])
    BY <2>3 DEF One
  <2>5. At(i)' <= At(i)
    BY <2>2, <2>4, Backing DEF At
  <2>. QED
    BY <1>2, <2>1, <2>2, <2>5 DEF listener
<1>8. ASSUME NEW c \in Clients, Die(i, c) PROVE NotificationsBacked'
  <2>1. \A k \in Children \ {i} : SameAt(k)
    BY <1>8, Zenon DEF Die, Base, Types, SameAt
  <2>2. /\ One(pipe_ready'[i]) = 0 /\ One(process'[i] = "forked" /\ pipe'[i] > 0) = 0
        /\ One(Pipe \in events'[i]) = 0
    BY <1>8 DEF Die, Base, Types, One
  <2>3. At(i)' <= At(i)
    BY <2>2, Backing DEF At
  <2>. QED
    BY <1>2, <1>8, <2>1, <2>3 DEF Die, listener
<1>9. ASSUME NEW c \in Clients, Echo(i, c) \/ Return(i, c) PROVE NotificationsBacked'
  BY <1>3, <1>9 DEF Echo, Return, children
<1>. QED
  BY <1>4, <1>5, <1>6, <1>7, <1>8, <1>9 DEF Child

-----------------------------------------------------------------------------
LEMMA InvHolds == Spec => []PoolInv
<1>1. Init => PoolInv
  <2> SUFFICES ASSUME Init PROVE PoolInv
    OBVIOUS
  <2>1. Types
    <3>1. /\ connected \in 0 .. MaxClients /\ backlog \in Seq(Clients) /\ pre_idx \in Children
          /\ pipe \in [Children -> 0 .. PipeCapacity] /\ sent \in 0 .. MaxData
          /\ inbuf \in [Clients -> 0 .. MaxData]
      BY PoolAssumption, Indices DEF Init
    <3>2. pipe_ready \in [Children -> BOOLEAN] /\ conn_ready \in [Clients -> BOOLEAN]
      BY DEF Init
    <3>3. closed \in [Clients -> BOOLEAN]
      BY DEF Init
    <3>. QED
      BY <3>1, <3>2, <3>3 DEF Init, Types
  <2>2. DataSent /\ Unaccepted /\ OwnOpen /\ OneAtATime
    BY Indices DEF Init, DataSent, Unaccepted, OwnOpen, Holds, OneAtATime
  <2>3. Forking /\ RoundRobin
    BY Indices DEF Init, Forking, RoundRobin
  <2>4. NotificationsBacked
    <3>1. Reported = {} /\ Unreported = {} /\ Listed = {}
      BY DEF Init, Reported, Unreported, Listed
    <3>2. UnderWay = 0
      BY <3>1, FS_EmptySet DEF UnderWay
    <3>3. One(listen_ready) = 0 /\ One(parent = "notify") = 0 /\ Len(backlog) = 0
      BY DEF Init, One
    <3>. QED
      BY <3>2, <3>3, Backing
  <2>. QED
    BY <2>1, <2>2, <2>3, <2>4 DEF PoolInv, Base
<1>2. PoolInv /\ [Next]_vars => PoolInv'
  <2> SUFFICES ASSUME PoolInv, [Next]_vars PROVE PoolInv'
    OBVIOUS
  <2>1. CASE UNCHANGED vars
    <3>1. UnderWay' = UnderWay
      BY <2>1, NoneChanges DEF vars, children, SameAt
    <3>2. NotificationsBacked'
      BY <2>1, <3>1, Backing DEF vars, listener, PoolInv
    <3>. QED
      BY <3>2, BaseStep DEF PoolInv
  <2>2. CASE Next
    BY <2>2, BaseStep, ArrivalsKeepBacked, ParentKeepsBacked, ChildKeepsBacked DEF Next, PoolInv
  <2>. QED
    BY <2>1, <2>2
<1>. QED
  BY <1>1, <1>2, PTL DEF Spec

(* A child uses only connections of its own that are open: what stands on  *)
(* its list of events, or is in process(), was accepted by it and not      *)
(* closed since, although each arrival may put the connection on the list  *)
(* again (process_pool.h:164-183); and all variables keep their types.     *)
THEOREM ChildrenUseOwnConnections == Spec => []TypeOK
<1>1. PoolInv => TypeOK
  BY Indices DEF PoolInv, Base, Types, OwnOpen, Holds, TypeOK
<1>. QED
  BY <1>1, InvHolds, PTL

(* Every notification under way has a client of its own waiting in the     *)
(* backlog, for every number of children and whatever the order in which   *)
(* the parent forks, notifies and the children start, wait and accept: no  *)
(* child takes what a failed accept returns for a client                   *)
(* (process_pool.h:129-146 and 167-178).                                   *)
THEOREM NotificationsAlwaysBacked == Spec => []NotificationsBacked
<1>1. PoolInv => NotificationsBacked
  BY DEF PoolInv
<1>. QED
  BY <1>1, InvHolds, PTL

(* The parent blocks on a pipe only when those of all children are full:   *)
(* the pipes fill up evenly, one ahead of the others at most               *)
(* (process_pool.h:138-146).                                               *)
THEOREM PipesFillTogether == Spec => []BlocksOnlyWhenAllFull
<1>1. PoolInv => BlocksOnlyWhenAllFull
  <2> SUFFICES ASSUME PoolInv, parent = "notify", pipe[NextChild] = PipeCapacity,
                      NEW i \in Children
               PROVE  pipe[i] = PipeCapacity
    BY DEF BlocksOnlyWhenAllFull
  <2>1. /\ pre_idx \in Children /\ PipeCapacity \in Nat
        /\ \A k \in Children : pipe[k] \in 0 .. PipeCapacity
        /\ \A k \in Children : pipe[k] = pipe[0] + (IF k \in 1 .. pre_idx THEN 1 ELSE 0)
    BY PoolAssumption DEF PoolInv, Base, Types, RoundRobin
  <2>2. /\ NextChild \in Children /\ NextChild \notin 1 .. pre_idx
    BY <2>1, Following, Indices
  <2>3. pipe[0] = PipeCapacity
    BY <2>1, <2>2, Indices
  <2>. QED
    BY <2>1, <2>3, Indices
<1>. QED
  BY <1>1, InvHolds, PTL
=============================================================================
