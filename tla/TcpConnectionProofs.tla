------------------------ MODULE TcpConnectionProofs ------------------------
(***************************************************************************)
(* Theorems about TcpConnection for every send buffer, every length of     *)
(* message and any number of requests: when the channel waits to write,    *)
(* when the FIN is sent, and that no message is torn.                      *)
(***************************************************************************)
EXTENDS TcpConnection, SequenceTheorems, TLAPS

(* After HandleClose nothing is watched any more and nothing is read, so   *)
(* no message is sent on the closed connection.                            *)
ClosedForGood == state_ = "kDisconnected" => events_ = {} /\ call # "read"

SendInv == TypeOK /\ WritingIffPending /\ FinIsLast /\ ClosedForGood

-----------------------------------------------------------------------------
LEMMA Parts ==
  ASSUME NEW S, NEW s \in Seq(S), NEW k \in 0 .. Len(s)
  PROVE  /\ SubSeq(s, 1, k) \in Seq(S) /\ Len(SubSeq(s, 1, k)) = k
         /\ Rest(s, k) \in Seq(S) /\ Len(Rest(s, k)) = Len(s) - k
<1>1. Len(s) \in Nat /\ k \in Nat
  OBVIOUS
<1>2. SubSeq(s, 1, k) \in Seq(S) /\ Len(SubSeq(s, 1, k)) = k
  BY <1>1
<1>3. Rest(s, k) \in Seq(S) /\ Len(Rest(s, k)) = Len(s) - k
  BY <1>1 DEF Rest
<1>. QED
  BY <1>2, <1>3

LEMMA Message ==
  ASSUME NEW len \in 1 .. MaxLen, NEW m \in Nat
  PROVE  /\ [k \in 1 .. len |-> <<m, k>>] \in Seq(Byte)
         /\ Len([k \in 1 .. len |-> <<m, k>>]) = len
<1>1. len \in Nat /\ \A k \in 1 .. len : <<m, k>> \in Byte
  BY ConnectionAssumption DEF Byte
<1>. QED
  BY <1>1

(* A write takes at most what there is and what there is room for; it      *)
(* leaves the peer alone unless it fails.                                  *)
LEMMA WriteTakes ==
  ASSUME TypeOK, NEW bytes \in Seq(Byte), bytes # <<>>,
         NEW send_size \in WriteResults(Len(bytes)), Write(bytes, send_size)
  PROVE  /\ send_size = -1 \/ send_size \in 1 .. Len(bytes)
         /\ sndbuf' \in Seq(Byte) /\ Len(sndbuf') <= SndBuf
         /\ peer' \in {"open", "closed", "reset", "broken"}
<1>1. /\ Len(bytes) \in Nat /\ SndBuf \in Nat
      /\ sndbuf \in Seq(Byte) /\ Len(sndbuf) \in Nat /\ Len(sndbuf) <= SndBuf
      /\ peer \in {"open", "closed", "reset", "broken"}
  BY ConnectionAssumption DEF TypeOK
<1>2. send_size = -1 \/ (send_size \in 1 .. Len(bytes) /\ send_size <= SndBuf - Len(sndbuf))
  BY <1>1 DEF WriteResults, Room
<1>3. CASE send_size = -1
  BY <1>1, <1>3 DEF Write
<1>4. CASE send_size \in 1 .. Len(bytes) /\ send_size <= SndBuf - Len(sndbuf)
  <2>1. sndbuf' = sndbuf \o SubSeq(bytes, 1, send_size) /\ peer' = peer
    BY <1>1, <1>4 DEF Write
  <2>2. SubSeq(bytes, 1, send_size) \in Seq(Byte) /\ Len(SubSeq(bytes, 1, send_size)) = send_size
    BY <1>1, <1>4, Parts
  <2>3. sndbuf' \in Seq(Byte) /\ Len(sndbuf') = Len(sndbuf) + send_size
    BY <1>1, <2>1, <2>2
  <2>. QED
    BY <1>1, <1>4, <2>1, <2>3
<1>. QED
  BY <1>2, <1>3, <1>4

(* Whatever the socket takes, Send leaves the channel waiting to write iff *)
(* it leaves something to be written.                                      *)
LEMMA SendArms ==
  ASSUME SendInv, state_ = "kConnected", NEW len \in 1 .. MaxLen, Send(len)
  PROVE  /\ lens' \in Seq(1 .. MaxLen)
         /\ output_buffer_' \in Seq(Byte)
         /\ events_' \in SUBSET {"IN", "OUT"} /\ "IN" \in events_'
         /\ "OUT" \in events_' <=> output_buffer_' # <<>>
         /\ sndbuf' \in Seq(Byte) /\ Len(sndbuf') <= SndBuf
         /\ peer' \in {"open", "closed", "reset", "broken"}
<1> DEFINE msg == [k \in 1 .. len |-> <<Len(lens) + 1, k>>]
<1>1. /\ lens \in Seq(1 .. MaxLen) /\ output_buffer_ \in Seq(Byte)
      /\ events_ \in SUBSET {"IN", "OUT"} /\ "IN" \in events_
      /\ sndbuf \in Seq(Byte) /\ Len(sndbuf) <= SndBuf
      /\ peer \in {"open", "closed", "reset", "broken"}
      /\ "OUT" \in events_ <=> output_buffer_ # <<>>
  BY DEF SendInv, TypeOK, WritingIffPending, IsWriting
<1>2. lens' \in Seq(1 .. MaxLen) /\ SendMsg(msg)
  BY <1>1 DEF Send
<1>3. msg \in Seq(Byte) /\ Len(msg) = len /\ msg # <<>>
  <2>1. Len(lens) + 1 \in Nat
    BY <1>1
  <2>2. msg \in Seq(Byte) /\ Len(msg) = len
    BY <2>1, Message
  <2>. QED
    BY <2>2
<1>. HIDE DEF msg
<1>4. CASE WritesDirectly
  <2>1. output_buffer_ = <<>> /\ "OUT" \notin events_
    BY <1>4 DEF WritesDirectly, IsWriting
  <2>2. PICK send_size \in WriteResults(Len(msg)) :
          /\ Write(msg, send_size)
          /\ IF send_size \in 0 .. Len(msg) - 1
             THEN /\ output_buffer_' = output_buffer_ \o Rest(msg, send_size)
                  /\ events_' = EnableWriting
             ELSE UNCHANGED <<output_buffer_, events_>>
    BY <1>2, <1>4 DEF SendMsg
  <2>3. /\ send_size = -1 \/ send_size \in 1 .. Len(msg)
        /\ sndbuf' \in Seq(Byte) /\ Len(sndbuf') <= SndBuf
        /\ peer' \in {"open", "closed", "reset", "broken"}
    BY <1>3, <2>2, WriteTakes DEF SendInv
  <2>4. CASE send_size \in 0 .. Len(msg) - 1
    <3>1. Rest(msg, send_size) \in Seq(Byte) /\ Len(Rest(msg, send_size)) = Len(msg) - send_size
      BY <1>3, <2>4, Parts
    <3>2. output_buffer_' = Rest(msg, send_size)
      BY <2>1, <2>2, <2>4, <3>1
    <3>3. output_buffer_' # <<>>
      BY <1>3, <2>4, <3>1, <3>2
    <3>. QED
      BY <1>1, <1>2, <2>2, <2>3, <2>4, <3>1, <3>2, <3>3 DEF EnableWriting
  <2>5. CASE send_size \notin 0 .. Len(msg) - 1
    BY <1>1, <1>2, <2>2, <2>3, <2>5
  <2>. QED
    BY <2>4, <2>5
<1>5. CASE ~ WritesDirectly
  <2>1. /\ output_buffer_' = output_buffer_ \o msg
        /\ events_' = EnableWriting
        /\ UNCHANGED <<sndbuf, peer>>
    BY <1>2, <1>5 DEF SendMsg
  <2>2. output_buffer_' \in Seq(Byte) /\ output_buffer_' # <<>>
    BY <1>1, <1>3, <2>1
  <2>. QED
    BY <1>1, <1>2, <2>1, <2>2 DEF EnableWriting
<1>. QED
  BY <1>4, <1>5

-----------------------------------------------------------------------------
(* A callback may send only before Shutdown, hence before the FIN; and     *)
(* Shutdown sends the FIN only when nothing is left to be written.         *)
LEMMA HandleMessageKeepsInv == ASSUME SendInv, HandleMessage PROVE SendInv'
<1>1. /\ call = "read" /\ state_ = "kConnected"
      /\ call' \in {"poll", "write"} /\ inbox' = 0
      /\ UNCHANGED <<recv_events_, state_, requests, received>>
  BY DEF HandleMessage, AfterRead, SendInv, TypeOK, ClosedForGood
<1>2. CASE UNCHANGED <<events_, output_buffer_, shutdown_state_, lens, sndbuf, fin, peer>>
  BY <1>1, <1>2 DEF SendInv, TypeOK, WritingIffPending, IsWriting, FinIsLast, ClosedForGood
<1>3. ASSUME ~ shutdown_state_,
             NEW len \in 1 .. MaxLen, Send(len),
             Shutdown \/ UNCHANGED <<shutdown_state_, fin>>
      PROVE  SendInv'
  <2>1. /\ lens' \in Seq(1 .. MaxLen)
        /\ output_buffer_' \in Seq(Byte)
        /\ events_' \in SUBSET {"IN", "OUT"} /\ "IN" \in events_'
        /\ "OUT" \in events_' <=> output_buffer_' # <<>>
        /\ sndbuf' \in Seq(Byte) /\ Len(sndbuf') <= SndBuf
        /\ peer' \in {"open", "closed", "reset", "broken"}
    BY <1>1, <1>3, SendArms
  <2>2. ~ fin
    BY <1>3 DEF SendInv, FinIsLast
  <2>3. /\ fin' \in BOOLEAN /\ shutdown_state_' \in BOOLEAN
        /\ fin' => "OUT" \notin events_' /\ shutdown_state_'
    <3>1. fin = FALSE /\ shutdown_state_ = FALSE
      BY <1>3, <2>2 DEF SendInv, TypeOK
    <3>2. CASE Shutdown
      <4>1. shutdown_state_' = TRUE
        BY <3>2 DEF Shutdown
      <4>2. fin' = ("OUT" \notin events_' /\ peer' \in {"open", "closed"})
        BY <3>1, <3>2 DEF Shutdown
      <4>. QED
        BY <4>1, <4>2
    <3>3. CASE UNCHANGED <<shutdown_state_, fin>>
      BY <3>1, <3>3
    <3>. QED
      BY <1>3, <3>2, <3>3
  <2>4. TypeOK'
    BY <1>1, <2>1, <2>3 DEF SendInv, TypeOK
  <2>5. WritingIffPending' /\ FinIsLast' /\ ClosedForGood'
    BY <1>1, <2>1, <2>3 DEF WritingIffPending, IsWriting, FinIsLast, ClosedForGood
  <2>. QED
    BY <2>4, <2>5 DEF SendInv
<1>. QED
  BY <1>2, <1>3 DEF HandleMessage, MessageCallback

LEMMA HandleWriteKeepsInv == ASSUME SendInv, HandleWrite PROVE SendInv'
<1>1. /\ call' = "poll"
      /\ UNCHANGED <<recv_events_, state_, shutdown_state_, lens, requests, received,
                     inbox, fin>>
  BY DEF HandleWrite
<1>2. CASE ~ IsWriting
  <2>1. UNCHANGED <<events_, output_buffer_, sndbuf, peer>>
    BY <1>2 DEF HandleWrite
  <2>. QED
    BY <1>1, <2>1 DEF SendInv, TypeOK, WritingIffPending, IsWriting, FinIsLast, ClosedForGood
<1>3. CASE IsWriting
  <2>1. /\ state_ = "kConnected" /\ ~ fin
        /\ output_buffer_ \in Seq(Byte) /\ output_buffer_ # <<>>
        /\ events_ \in SUBSET {"IN", "OUT"} /\ "IN" \in events_ /\ "OUT" \in events_
    BY <1>3 DEF SendInv, TypeOK, WritingIffPending, IsWriting, FinIsLast, ClosedForGood
  <2>2. PICK send_size \in WriteResults(Len(output_buffer_)) :
          /\ Write(output_buffer_, send_size)
          /\ output_buffer_' =
               IF send_size < 0 THEN output_buffer_ ELSE Rest(output_buffer_, send_size)
          /\ events_' = AfterDraining(output_buffer_')
    BY <1>3 DEF HandleWrite
  <2>3. /\ send_size = -1 \/ send_size \in 1 .. Len(output_buffer_)
        /\ sndbuf' \in Seq(Byte) /\ Len(sndbuf') <= SndBuf
        /\ peer' \in {"open", "closed", "reset", "broken"}
    BY <2>1, <2>2, WriteTakes DEF SendInv
  <2>4. output_buffer_' \in Seq(Byte)
    <3>1. CASE send_size = -1
      BY <2>1, <2>2, <3>1
    <3>2. CASE send_size \in 1 .. Len(output_buffer_)
      BY <2>1, <2>2, <3>2, Parts
    <3>. QED
      BY <2>3, <3>1, <3>2
  <2>5. /\ events_' \in SUBSET {"IN", "OUT"} /\ "IN" \in events_'
        /\ "OUT" \in events_' <=> output_buffer_' # <<>>
    BY <2>1, <2>2 DEF AfterDraining
  <2>6. TypeOK'
    BY <1>1, <2>1, <2>3, <2>4, <2>5 DEF SendInv, TypeOK
  <2>7. WritingIffPending' /\ FinIsLast' /\ ClosedForGood'
    BY <1>1, <2>1, <2>5 DEF WritingIffPending, IsWriting, FinIsLast, ClosedForGood
  <2>. QED
    BY <2>6, <2>7 DEF SendInv
<1>. QED
  BY <1>2, <1>3

(* The rest of the callbacks, and Poll: none adds to what is to be sent.   *)
LEMMA OtherLoopStepsKeepInv ==
  ASSUME SendInv, Poll \/ ReadError \/ HandleClose PROVE SendInv'
<1>1. CASE Poll
  <2>1. /\ call' \in {"read", "write"} /\ recv_events_' \in SUBSET {"IN", "OUT"}
        /\ events_ # {}
        /\ UNCHANGED <<conn, socket, requests, received>>
    BY <1>1 DEF Poll, Ready, SendInv, TypeOK
  <2>. QED
    BY <2>1 DEF conn, socket, SendInv, TypeOK, WritingIffPending, IsWriting, FinIsLast,
                ClosedForGood
<1>2. CASE ReadError
  <2>1. /\ call' \in {"poll", "write"} /\ peer' = "broken"
        /\ UNCHANGED <<recv_events_, conn, requests, received, inbox, sndbuf, fin>>
    BY <1>2 DEF ReadError, AfterRead
  <2>. QED
    BY <2>1 DEF conn, SendInv, TypeOK, WritingIffPending, IsWriting, FinIsLast, ClosedForGood
<1>3. CASE HandleClose
  <2>1. /\ call' \in {"poll", "write"} /\ state_' = "kDisconnected" /\ events_' = {}
        /\ UNCHANGED <<recv_events_, output_buffer_, shutdown_state_, lens, socket,
                       requests, received>>
    BY <1>3 DEF HandleClose, AfterRead
  <2>. QED
    BY <2>1 DEF socket, SendInv, TypeOK, WritingIffPending, IsWriting, FinIsLast, ClosedForGood
<1>. QED
  BY <1>1, <1>2, <1>3

LEMMA PeerKeepsInv == ASSUME SendInv, Peer PROVE SendInv'
<1>1. UNCHANGED <<call, recv_events_, conn, fin>>
  BY DEF Peer, SendRequest, Receive, Close, Reset
<1>2. WritingIffPending' /\ FinIsLast' /\ ClosedForGood'
  BY <1>1 DEF conn, SendInv, WritingIffPending, IsWriting, FinIsLast, ClosedForGood
<1>3. TypeOK'
  <2>1. CASE SendRequest
    BY <1>1, <2>1, ConnectionAssumption DEF SendRequest, conn, SendInv, TypeOK
  <2>2. CASE Receive
    <3>1. /\ sndbuf \in Seq(Byte) /\ sndbuf # <<>> /\ Len(sndbuf) <= SndBuf
          /\ received \in Seq(Byte) /\ SndBuf \in Nat
          /\ received' = Append(received, Head(sndbuf)) /\ sndbuf' = Tail(sndbuf)
          /\ UNCHANGED <<requests, inbox, peer>>
      BY <2>2, ConnectionAssumption DEF Receive, SendInv, TypeOK
    <3>2. Head(sndbuf) \in Byte /\ Tail(sndbuf) \in Seq(Byte) /\ Len(Tail(sndbuf)) <= SndBuf
      BY <3>1
    <3>3. received' \in Seq(Byte)
      BY <3>1, <3>2
    <3>. QED
      BY <1>1, <3>1, <3>2, <3>3 DEF conn, SendInv, TypeOK
  <2>3. CASE Close
    BY <1>1, <2>3 DEF Close, conn, SendInv, TypeOK
  <2>4. CASE Reset
    <3>1. /\ sndbuf' \in Seq(Byte) /\ Len(sndbuf') <= SndBuf
          /\ peer' = "reset" /\ UNCHANGED <<requests, received, inbox>>
      BY <2>4, ConnectionAssumption DEF Reset
    <3>. QED
      BY <1>1, <3>1 DEF conn, SendInv, TypeOK
  <2>. QED
    BY <2>1, <2>2, <2>3, <2>4 DEF Peer
<1>. QED
  BY <1>2, <1>3 DEF SendInv

LEMMA SendInvariance == Spec => []SendInv
<1>1. Init => SendInv
  <2> SUFFICES ASSUME Init PROVE SendInv
    OBVIOUS
  <2>1. TypeOK
    <3>1. output_buffer_ \in Seq(Byte) /\ received \in Seq(Byte)
      BY DEF Init
    <3>2. sndbuf \in Seq(Byte) /\ Len(sndbuf) <= SndBuf
      BY ConnectionAssumption DEF Init
    <3>3. lens \in Seq(1 .. MaxLen)
      BY DEF Init
    <3>4. requests \in 0 .. MaxRequests /\ inbox \in 0 .. requests
      BY ConnectionAssumption DEF Init
    <3>. QED
      BY <3>1, <3>2, <3>3, <3>4 DEF Init, TypeOK
  <2>2. WritingIffPending /\ FinIsLast /\ ClosedForGood
    BY DEF Init, WritingIffPending, IsWriting, FinIsLast, ClosedForGood
  <2>. QED
    BY <2>1, <2>2 DEF SendInv
<1>2. SendInv /\ [Next]_vars => SendInv'
  <2> SUFFICES ASSUME SendInv, [Next]_vars PROVE SendInv'
    OBVIOUS
  <2>1. CASE UNCHANGED vars
    BY <2>1 DEF vars, conn, socket, SendInv, TypeOK, WritingIffPending, IsWriting,
                FinIsLast, ClosedForGood
  <2>2. CASE LoopStep
    BY <2>2, HandleMessageKeepsInv, HandleWriteKeepsInv, OtherLoopStepsKeepInv DEF LoopStep
  <2>3. CASE Peer
    BY <2>3, PeerKeepsInv
  <2>. QED
    BY <2>1, <2>2, <2>3 DEF Next
<1>. QED
  BY <1>1, <1>2, PTL DEF Spec

-----------------------------------------------------------------------------
(* The types; a connection that is up always waits to read, whatever its   *)
(* waiting to write does (channel.h:60-78).                                *)
THEOREM ConnectionTypeCorrect == Spec => []TypeOK
BY SendInvariance, PTL DEF SendInv

(* The channel of a live connection waits to write exactly while bytes     *)
(* wait to be written (tcpconnection.cc:75-77 and 99-104).                 *)
THEOREM WritesWhilePending == Spec => []WritingIffPending
BY SendInvariance, PTL DEF SendInv

(* The FIN comes after the last byte, and no message comes after it        *)
(* (tcpconnection.cc:107-115, httpserver.cc:25).                           *)
THEOREM NothingAfterFin == Spec => []FinIsLast
BY SendInvariance, PTL DEF SendInv
-----------------------------------------------------------------------------
(* No message is torn.  Runs with the lengths as a parameter: of messages  *)
(* whose lengths are ls, and s[i] a byte of one of them.                   *)
FollowsIn(a, b, ls) ==
  \/ a[2] < ls[a[1]] /\ b = <<a[1], a[2] + 1>>
  \/ a[2] = ls[a[1]] /\ b[1] > a[1] /\ b[2] = 1

RunsIn(s, ls) ==
  /\ s # <<>> => s[1][2] = 1
  /\ \A i \in 1 .. Len(s) - 1 : FollowsIn(s[i], s[i + 1], ls)
  /\ \A i \in 1 .. Len(s) : s[i][1] \in 1 .. Len(ls)

WholeIn(s, ls) == RunsIn(s, ls) /\ (s # <<>> => s[Len(s)][2] = ls[s[Len(s)][1]])

Stream == (received \o sndbuf) \o output_buffer_

StreamInv == RunsIn(received, lens) /\ (Intact => WholeIn(Stream, lens))

LEMMA PrefixRuns ==
  ASSUME NEW s \in Seq(Byte), NEW t \in Seq(Byte), NEW ls, RunsIn(s \o t, ls)
  PROVE  RunsIn(s, ls)
<1>1. /\ Len(s) \in Nat /\ Len(t) \in Nat /\ Len(s \o t) = Len(s) + Len(t)
      /\ \A i \in 1 .. Len(s) : (s \o t)[i] = s[i]
  BY ConcatProperties
<1>2. s # <<>> => Len(s) >= 1 /\ s \o t # <<>>
  BY <1>1
<1>3. \A i \in 1 .. Len(s) : i \in 1 .. Len(s \o t)
  BY <1>1
<1>4. \A i \in 1 .. Len(s) - 1 : i \in 1 .. Len(s \o t) - 1 /\ i \in 1 .. Len(s) /\ i + 1 \in 1 .. Len(s)
  BY <1>1
<1>5. s # <<>> => s[1][2] = 1
  BY <1>1, <1>2 DEF RunsIn
<1>6. \A i \in 1 .. Len(s) - 1 : FollowsIn(s[i], s[i + 1], ls)
  BY <1>1, <1>4 DEF RunsIn
<1>7. \A i \in 1 .. Len(s) : s[i][1] \in 1 .. Len(ls)
  BY <1>1, <1>3 DEF RunsIn
<1>. QED
  BY <1>5, <1>6, <1>7 DEF RunsIn

(* What a later message is changes nothing. *)
LEMMA LongerLens ==
  ASSUME NEW s \in Seq(Byte), NEW ls \in Seq(1 .. MaxLen), NEW len \in 1 .. MaxLen
  PROVE  /\ RunsIn(s, ls) => RunsIn(s, Append(ls, len))
         /\ WholeIn(s, ls) => WholeIn(s, Append(ls, len))
<1>1. /\ Len(ls) \in Nat /\ Len(Append(ls, len)) = Len(ls) + 1 /\ Len(s) \in Nat
      /\ \A m \in 1 .. Len(ls) : Append(ls, len)[m] = ls[m]
  OBVIOUS
<1>2. ASSUME RunsIn(s, ls) PROVE RunsIn(s, Append(ls, len))
  <2>1. \A i \in 1 .. Len(s) : s[i][1] \in 1 .. Len(ls) /\ Append(ls, len)[s[i][1]] = ls[s[i][1]]
    BY <1>1, <1>2 DEF RunsIn
  <2>2. \A i \in 1 .. Len(s) : s[i][1] \in 1 .. Len(Append(ls, len))
    BY <1>1, <2>1
  <2>3. \A i \in 1 .. Len(s) - 1 : FollowsIn(s[i], s[i + 1], Append(ls, len))
    BY <1>1, <1>2, <2>1 DEF RunsIn, FollowsIn
  <2>. QED
    BY <1>2, <2>2, <2>3 DEF RunsIn
<1>3. ASSUME WholeIn(s, ls), s # <<>>
      PROVE  s[Len(s)][2] = Append(ls, len)[s[Len(s)][1]]
  <2>1. Len(s) \in 1 .. Len(s)
    BY <1>1, <1>3
  <2>2. s[Len(s)][1] \in 1 .. Len(ls)
    BY <1>3, <2>1 DEF WholeIn, RunsIn
  <2>. QED
    BY <1>1, <1>3, <2>2 DEF WholeIn
<1>. QED
  BY <1>2, <1>3 DEF WholeIn

(* A message put behind whole ones. *)
LEMMA OneMore ==
  ASSUME NEW s \in Seq(Byte), NEW ls \in Seq(1 .. MaxLen), NEW len \in 1 .. MaxLen,
         WholeIn(s, ls)
  PROVE  WholeIn(s \o [k \in 1 .. len |-> <<Len(ls) + 1, k>>], Append(ls, len))
<1> DEFINE new == Append(ls, len)
           m == Len(ls) + 1
           msg == [k \in 1 .. len |-> <<m, k>>]
           t == s \o msg
<1>1. /\ Len(ls) \in Nat /\ m \in Nat /\ m = Len(ls) + 1 /\ Len(new) = m /\ new[m] = len
      /\ len \in Nat /\ len >= 1 /\ Len(s) \in Nat
  BY ConnectionAssumption
<1>2. msg \in Seq(Byte) /\ Len(msg) = len /\ \A k \in 1 .. len : msg[k] = <<m, k>>
  BY <1>1, Message
<1>3. WholeIn(s, new)
  BY LongerLens
<1>. HIDE DEF new, msg, m
<1>4. /\ t \in Seq(Byte) /\ Len(t) = Len(s) + len
      /\ \A i \in 1 .. Len(s) : t[i] = s[i]
      /\ \A i \in 1 .. len : t[Len(s) + i] = <<m, i>>
  <2>1. /\ t \in Seq(Byte) /\ Len(t) = Len(s) + len
        /\ \A i \in 1 .. Len(s) + len : t[i] = IF i <= Len(s) THEN s[i] ELSE msg[i - Len(s)]
    BY <1>2, ConcatProperties
  <2>2. \A i \in 1 .. len : /\ Len(s) + i \in 1 .. Len(s) + len /\ ~ Len(s) + i <= Len(s)
                            /\ (Len(s) + i) - Len(s) = i
    BY <1>1
  <2>3. \A i \in 1 .. Len(s) : i \in 1 .. Len(s) + len /\ i <= Len(s)
    BY <1>1
  <2>. QED
    BY <1>2, <2>1, <2>2, <2>3
<1>. HIDE DEF t
<1>5. \A i \in 1 .. Len(t) : i \in 1 .. Len(s) \/ \E k \in 1 .. len : i = Len(s) + k
  <2> SUFFICES ASSUME NEW i \in 1 .. Len(t), i \notin 1 .. Len(s)
               PROVE  \E k \in 1 .. len : i = Len(s) + k
    OBVIOUS
  <2>1. i - Len(s) \in 1 .. len /\ i = Len(s) + (i - Len(s))
    BY <1>1, <1>4
  <2>. QED
    BY <2>1
<1>6. \A i \in 1 .. Len(t) : t[i][1] \in 1 .. Len(new)
  <2>1. \A i \in 1 .. Len(s) : t[i][1] \in 1 .. Len(new)
    BY <1>3, <1>4 DEF WholeIn, RunsIn
  <2>2. \A k \in 1 .. len : t[Len(s) + k][1] \in 1 .. Len(new)
    <3>1. ASSUME NEW k \in 1 .. len PROVE t[Len(s) + k][1] = m
      <4>1. t[Len(s) + k] = <<m, k>>
        BY <1>4
      <4>. QED
        BY <4>1
    <3>2. m \in 1 .. Len(new)
      BY <1>1
    <3>. QED
      BY <3>1, <3>2
  <2>. QED
    BY <1>5, <2>1, <2>2
<1>7. t[1][2] = 1
  <2>1. CASE s = <<>>
    <3>1. Len(s) = 0
      BY <2>1
    <3>2. t[0 + 1] = <<m, 1>>
      BY <1>1, <1>4, <3>1
    <3>. QED
      BY <3>2
  <2>2. CASE s # <<>>
    <3>1. 1 \in 1 .. Len(s)
      BY <1>1, <2>2
    <3>. QED
      BY <1>3, <1>4, <2>2, <3>1 DEF WholeIn, RunsIn
  <2>. QED
    BY <2>1, <2>2
<1>8. \A i \in 1 .. Len(t) - 1 : FollowsIn(t[i], t[i + 1], new)
  <2> SUFFICES ASSUME NEW i \in 1 .. Len(t) - 1 PROVE FollowsIn(t[i], t[i + 1], new)
    OBVIOUS
  <2>1. CASE i < Len(s)
    <3>1. i \in 1 .. Len(s) - 1 /\ i \in 1 .. Len(s) /\ i + 1 \in 1 .. Len(s)
      BY <1>1, <2>1
    <3>. QED
      BY <1>3, <1>4, <3>1 DEF WholeIn, RunsIn
  <2>2. CASE i = Len(s)
    <3>1. i \in 1 .. Len(s) /\ s # <<>> /\ 1 \in 1 .. len
      BY <1>1, <2>2
    <3>2. t[i] = s[Len(s)] /\ t[i + 1] = <<m, 1>>
      BY <1>4, <2>2, <3>1
    <3>3. s[Len(s)][1] \in 1 .. Len(ls) /\ s[Len(s)][2] = new[s[Len(s)][1]]
      BY <1>3, <2>2, <3>1 DEF WholeIn, RunsIn
    <3>4. t[i + 1][1] = m /\ t[i + 1][2] = 1
      <4>1. \A z : z = <<m, 1>> => z[1] = m /\ z[2] = 1
        OBVIOUS
      <4>. QED
        BY <3>2, <4>1, Zenon
    <3>5. m > s[Len(s)][1]
      BY <1>1, <3>3
    <3>6. t[i][2] = new[t[i][1]] /\ t[i + 1][1] > t[i][1] /\ t[i + 1][2] = 1
      <4>1. t[i] = s[Len(s)]
        BY <3>2
      <4>. QED
        BY <3>3, <3>4, <3>5, <4>1
    <3>. QED
      BY <3>6 DEF FollowsIn
  <2>3. CASE i > Len(s)
    <3>1. PICK k \in 1 .. len : i = Len(s) + k
      <4>1. i \in 1 .. Len(t) /\ i \notin 1 .. Len(s)
        BY <1>1, <1>4, <2>3
      <4>. QED
        BY <1>5, <4>1, Zenon
    <3>2. k \in 1 .. len - 1 /\ k + 1 \in 1 .. len /\ i + 1 = Len(s) + (k + 1)
      BY <1>1, <1>4, <3>1
    <3>3. t[i] = <<m, k>> /\ t[i + 1] = <<m, k + 1>>
      BY <1>4, <3>1, <3>2
    <3>. QED
      BY <1>1, <3>2, <3>3 DEF FollowsIn
  <2>. QED
    BY <1>1, <2>1, <2>2, <2>3
<1>9. t[Len(t)][2] = new[t[Len(t)][1]]
  <2>1. len \in 1 .. len /\ t[Len(t)] = <<m, len>>
    BY <1>1, <1>4
  <2>. QED
    BY <1>1, <2>1
<1>10. WholeIn(t, new)
  BY <1>6, <1>7, <1>8, <1>9 DEF WholeIn, RunsIn
<1>. QED
  BY <1>10 DEF t, msg, new, m

-----------------------------------------------------------------------------
(* The stream, and what each step does to it *)

LEMMA StreamTypes ==
  ASSUME TypeOK
  PROVE  /\ received \in Seq(Byte) /\ sndbuf \in Seq(Byte) /\ output_buffer_ \in Seq(Byte)
         /\ received \o sndbuf \in Seq(Byte) /\ Stream \in Seq(Byte)
         /\ lens \in Seq(1 .. MaxLen)
<1>1. /\ received \in Seq(Byte) /\ sndbuf \in Seq(Byte) /\ output_buffer_ \in Seq(Byte)
      /\ lens \in Seq(1 .. MaxLen)
  BY DEF TypeOK
<1>2. received \o sndbuf \in Seq(Byte)
  BY <1>1, ConcatProperties
<1>3. Stream \in Seq(Byte)
  BY <1>1, <1>2, ConcatProperties DEF Stream
<1>. QED
  BY <1>1, <1>2, <1>3

SameJoined(s, t, u) == (s \o t) \o u = s \o (t \o u)

LEMMA Associative ==
  ASSUME NEW s \in Seq(Byte), NEW t \in Seq(Byte), NEW u \in Seq(Byte)
  PROVE  SameJoined(s, t, u)
BY ConcatAssociative DEF SameJoined

(* What is written moves from the front of bytes into the kernel's buffer. *)
SameMoved(a, b, bytes, n) ==
  (a \o (b \o SubSeq(bytes, 1, n))) \o Rest(bytes, n) = (a \o b) \o bytes

LEMMA Moved ==
  ASSUME NEW a \in Seq(Byte), NEW b \in Seq(Byte), NEW bytes \in Seq(Byte),
         NEW n \in 1 .. Len(bytes)
  PROVE  SameMoved(a, b, bytes, n)
<1> DEFINE p == SubSeq(bytes, 1, n)
           q == Rest(bytes, n)
<1>1. p \o q = bytes
  <2>1. Len(bytes) \in Nat /\ n \in Nat
    OBVIOUS
  <2>2. SubSeq(bytes, 1, Len(bytes)) = bytes
    BY SubSeqFull
  <2>3. SubSeq(bytes, 1, n) \o SubSeq(bytes, n + 1, Len(bytes)) = SubSeq(bytes, 1, Len(bytes))
    BY <2>1, ConcatAdjacentSubSeq
  <2>. QED
    BY <2>2, <2>3 DEF Rest
<1>2. p \in Seq(Byte) /\ q \in Seq(Byte)
  <2>1. n \in 0 .. Len(bytes)
    OBVIOUS
  <2>. QED
    BY <2>1, Parts
<1>. HIDE DEF p, q
<1>3. a \o b \in Seq(Byte)
  BY ConcatProperties
<1>4. SameJoined(a, b, p) /\ SameJoined(a \o b, p, q)
  BY <1>2, <1>3, Associative
<1>5. (a \o (b \o p)) \o q = (a \o b) \o bytes
  BY <1>1, <1>4, Zenon DEF SameJoined
<1>. QED
  BY <1>5 DEF p, q, SameMoved

LEMMA ReceiveKeepsStream ==
  ASSUME TypeOK, TypeOK', StreamInv, Receive PROVE StreamInv'
<1>1. /\ received' = Append(received, Head(sndbuf)) /\ sndbuf' = Tail(sndbuf)
      /\ sndbuf # <<>> /\ Intact /\ peer' = peer /\ lens' = lens
      /\ output_buffer_' = output_buffer_
  BY DEF Receive, conn
<1> DEFINE h == <<Head(sndbuf)>>
<1>2. /\ received \in Seq(Byte) /\ sndbuf \in Seq(Byte) /\ Head(sndbuf) \in Byte
      /\ h \in Seq(Byte) /\ Tail(sndbuf) \in Seq(Byte)
  BY <1>1, StreamTypes
<1>3. h \o Tail(sndbuf) = sndbuf
  BY <1>1, <1>2
<1>4. received' = received \o h
  BY <1>1, <1>2, AppendIsConcat
<1>. HIDE DEF h
<1>5. received' \o sndbuf' = received \o sndbuf
  <2>1. SameJoined(received, h, Tail(sndbuf))
    BY <1>2, Associative
  <2>. QED
    BY <1>1, <1>3, <1>4, <2>1, Zenon DEF SameJoined
<1>6. Stream' = Stream
  BY <1>1, <1>5 DEF Stream
<1>7. WholeIn(Stream', lens')
  BY <1>1, <1>6 DEF StreamInv
<1>8. RunsIn(received', lens')
  <2>1. /\ received' \in Seq(Byte) /\ sndbuf' \in Seq(Byte) /\ output_buffer_' \in Seq(Byte)
        /\ received' \o sndbuf' \in Seq(Byte)
    <3>1. /\ received' \in Seq(Byte) /\ sndbuf' \in Seq(Byte) /\ output_buffer_' \in Seq(Byte)
      BY DEF TypeOK
    <3>. QED
      BY <3>1, ConcatProperties
  <2>2. RunsIn((received' \o sndbuf') \o output_buffer_', lens')
    BY <1>7 DEF WholeIn, Stream
  <2>3. RunsIn(received' \o sndbuf', lens')
    BY <2>1, <2>2, PrefixRuns
  <2>. QED
    BY <2>1, <2>3, PrefixRuns
<1>. QED
  BY <1>7, <1>8 DEF StreamInv

(* A write that fails on an intact connection takes nothing, and then the  *)
(* connection was shut down or the kernel's buffer full.                   *)
LEMMA WriteOnIntact ==
  ASSUME TypeOK, Intact', NEW bytes \in Seq(Byte), bytes # <<>>,
         NEW send_size \in WriteResults(Len(bytes)), Write(bytes, send_size)
  PROVE  /\ Intact
         /\ \/ send_size = -1 /\ sndbuf' = sndbuf
            \/ /\ send_size \in 1 .. Len(bytes)
               /\ sndbuf' = sndbuf \o SubSeq(bytes, 1, send_size)
<1>1. send_size = -1 \/ send_size \in 1 .. Len(bytes)
  BY WriteTakes
<1>2. CASE send_size = -1
  BY <1>2 DEF Write, Intact
<1>3. CASE send_size \in 1 .. Len(bytes)
  <2>1. ~ send_size < 0
    BY <1>3
  <2>. QED
    BY <1>3, <2>1 DEF Write, Intact
<1>. QED
  BY <1>1, <1>2, <1>3

LEMMA HandleWriteKeepsStream ==
  ASSUME SendInv, StreamInv, HandleWrite PROVE StreamInv'
<1>1. lens' = lens /\ received' = received
  BY DEF HandleWrite
<1>2. CASE ~ IsWriting
  BY <1>1, <1>2 DEF HandleWrite, StreamInv, Stream, Intact
<1>3. CASE IsWriting
  <2>1. PICK send_size \in WriteResults(Len(output_buffer_)) :
          /\ Write(output_buffer_, send_size)
          /\ output_buffer_' =
               IF send_size < 0 THEN output_buffer_ ELSE Rest(output_buffer_, send_size)
    BY <1>3 DEF HandleWrite
  <2>2. /\ output_buffer_ # <<>> /\ TypeOK
        /\ received \in Seq(Byte) /\ sndbuf \in Seq(Byte) /\ output_buffer_ \in Seq(Byte)
    BY <1>3, StreamTypes DEF SendInv, WritingIffPending, IsWriting, ClosedForGood, TypeOK
  <2> SUFFICES ASSUME Intact' PROVE WholeIn(Stream', lens')
    BY <1>1 DEF StreamInv
  <2>3. /\ Intact
        /\ \/ send_size = -1 /\ sndbuf' = sndbuf
           \/ /\ send_size \in 1 .. Len(output_buffer_)
              /\ sndbuf' = sndbuf \o SubSeq(output_buffer_, 1, send_size)
    BY <2>1, <2>2, WriteOnIntact
  <2>4. CASE send_size = -1
    <3>1. output_buffer_' = output_buffer_ /\ sndbuf' = sndbuf
      BY <2>1, <2>3, <2>4
    <3>. QED
      BY <1>1, <2>3, <3>1 DEF StreamInv, Stream
  <2>5. CASE send_size \in 1 .. Len(output_buffer_)
    <3>1. /\ output_buffer_' = Rest(output_buffer_, send_size)
          /\ sndbuf' = sndbuf \o SubSeq(output_buffer_, 1, send_size)
      BY <2>1, <2>3, <2>5
    <3>2. Stream' = Stream
      <4>1. SameMoved(received, sndbuf, output_buffer_, send_size)
        BY <2>2, <2>5, Moved
      <4>. QED
        BY <1>1, <3>1, <4>1, Zenon DEF Stream, SameMoved
    <3>. QED
      BY <1>1, <2>3, <3>2 DEF StreamInv
  <2>. QED
    BY <2>3, <2>4, <2>5
<1>. QED
  BY <1>2, <1>3

LEMMA SendKeepsStream ==
  ASSUME SendInv, StreamInv, state_ = "kConnected", NEW len \in 1 .. MaxLen, Send(len),
         received' = received
  PROVE  StreamInv'
<1> DEFINE msg == [k \in 1 .. len |-> <<Len(lens) + 1, k>>]
<1>1. /\ lens' = Append(lens, len) /\ SendMsg(msg) /\ TypeOK
  BY DEF Send, SendInv
<1>2. /\ received \in Seq(Byte) /\ sndbuf \in Seq(Byte) /\ output_buffer_ \in Seq(Byte)
      /\ received \o sndbuf \in Seq(Byte) /\ Stream \in Seq(Byte)
      /\ lens \in Seq(1 .. MaxLen)
  BY <1>1, StreamTypes
<1>3. msg \in Seq(Byte) /\ Len(msg) = len /\ msg # <<>>
  <2>1. Len(lens) + 1 \in Nat
    BY <1>2
  <2>2. msg \in Seq(Byte) /\ Len(msg) = len
    BY <2>1, Message
  <2>. QED
    BY <2>2
<1>4. RunsIn(received', lens')
  BY <1>1, <1>2, LongerLens DEF StreamInv
<1>5. WholeIn(Stream, lens) => WholeIn(Stream, lens') /\ WholeIn(Stream \o msg, lens')
  BY <1>1, <1>2, LongerLens, OneMore
<1>. HIDE DEF msg
<1> SUFFICES ASSUME Intact' PROVE WholeIn(Stream', lens')
  BY <1>4 DEF StreamInv
<1>6. CASE ~ WritesDirectly
  <2>1. output_buffer_' = output_buffer_ \o msg /\ UNCHANGED <<sndbuf, peer>>
    BY <1>1, <1>6 DEF SendMsg
  <2>2. Stream' = Stream \o msg
    <3>1. SameJoined(received \o sndbuf, output_buffer_, msg)
      BY <1>2, <1>3, Associative
    <3>2. received' \o sndbuf' = received \o sndbuf
      BY <2>1
    <3>. QED
      BY <2>1, <3>1, <3>2, Zenon DEF Stream, SameJoined
  <2>. QED
    BY <1>5, <2>1, <2>2 DEF StreamInv, Intact
<1>7. CASE WritesDirectly
  <2>1. PICK send_size \in WriteResults(Len(msg)) :
          /\ Write(msg, send_size)
          /\ IF send_size \in 0 .. Len(msg) - 1
             THEN /\ output_buffer_' = output_buffer_ \o Rest(msg, send_size)
                  /\ events_' = EnableWriting
             ELSE UNCHANGED <<output_buffer_, events_>>
    BY <1>1, <1>7 DEF SendMsg
  <2>2. /\ Intact
        /\ \/ send_size = -1 /\ sndbuf' = sndbuf
           \/ /\ send_size \in 1 .. Len(msg)
              /\ sndbuf' = sndbuf \o SubSeq(msg, 1, send_size)
    BY <1>1, <1>3, <2>1, WriteOnIntact
  <2>3. output_buffer_ = <<>> /\ Stream = received \o sndbuf
    <3>1. output_buffer_ = <<>>
      BY <1>7 DEF WritesDirectly
    <3>. QED
      BY <1>2, <3>1, ConcatEmptySeq DEF Stream
  <2>4. CASE send_size = -1
    <3>1. output_buffer_' = output_buffer_ /\ sndbuf' = sndbuf
      BY <2>1, <2>2, <2>4
    <3>2. Stream' = Stream
      BY <3>1 DEF Stream
    <3>. QED
      BY <1>5, <2>2, <3>2 DEF StreamInv
  <2>5. CASE send_size \in 1 .. Len(msg)
    <3>1. sndbuf' = sndbuf \o SubSeq(msg, 1, send_size)
      BY <2>2, <2>5
    <3>2. output_buffer_' = Rest(msg, send_size)
      <4>1. Rest(msg, send_size) \in Seq(Byte) /\ Len(Rest(msg, send_size)) = Len(msg) - send_size
        <5>1. send_size \in 0 .. Len(msg)
          BY <2>5
        <5>. QED
          BY <1>3, <5>1, Parts
      <4>2. CASE send_size = Len(msg)
        <5>1. send_size \notin 0 .. Len(msg) - 1 /\ Len(msg) - send_size = 0
          BY <1>3, <4>2
        <5>2. Rest(msg, send_size) = <<>>
          BY <4>1, <5>1
        <5>. QED
          BY <2>1, <2>3, <5>1, <5>2
      <4>3. CASE send_size # Len(msg)
        <5>1. send_size \in 0 .. Len(msg) - 1
          BY <1>3, <2>5, <4>3
        <5>. QED
          BY <2>1, <2>3, <4>1, <5>1, ConcatEmptySeq
      <4>. QED
        BY <4>2, <4>3
    <3>3. Stream' = Stream \o msg
      <4>1. SameMoved(received, sndbuf, msg, send_size)
        BY <1>2, <1>3, <2>5, Moved
      <4>. QED
        BY <2>3, <3>1, <3>2, <4>1, Zenon DEF Stream, SameMoved
    <3>. QED
      BY <1>5, <2>2, <3>3 DEF StreamInv
  <2>. QED
    BY <2>2, <2>4, <2>5
<1>. QED
  BY <1>6, <1>7

LEMMA StreamStep == ASSUME SendInv, SendInv', StreamInv, [Next]_vars PROVE StreamInv'
<1>1. ASSUME UNCHANGED <<received, sndbuf, output_buffer_, lens>>, Intact' => Intact
      PROVE  StreamInv'
  BY <1>1 DEF StreamInv, Stream
<1>2. CASE HandleMessage
  <2>1. received' = received /\ state_ = "kConnected"
    BY <1>2 DEF HandleMessage, SendInv, ClosedForGood, TypeOK
  <2>2. CASE UNCHANGED <<events_, output_buffer_, shutdown_state_, lens, sndbuf, fin, peer>>
    BY <1>1, <2>1, <2>2 DEF Intact
  <2>3. CASE \E len \in 1 .. MaxLen : Send(len)
    BY <2>1, <2>3, SendKeepsStream
  <2>. QED
    BY <1>2, <2>2, <2>3 DEF HandleMessage, MessageCallback
<1>3. CASE Reset
  <2>1. UNCHANGED <<received, lens>> /\ peer' = "reset"
    BY <1>3 DEF Reset, conn
  <2>. QED
    BY <2>1 DEF StreamInv, Intact
<1>4. CASE Receive
  BY <1>4, ReceiveKeepsStream DEF SendInv
<1>5. CASE HandleWrite
  BY <1>5, HandleWriteKeepsStream
<1>6. CASE Poll \/ ReadError \/ HandleClose \/ SendRequest \/ Close \/ UNCHANGED vars
  BY <1>1, <1>6 DEF Poll, ReadError, HandleClose, SendRequest, Close, vars, conn, socket, Intact
<1>. QED
  BY <1>2, <1>3, <1>4, <1>5, <1>6 DEF Next, LoopStep, Peer

(* What the peer has, what the kernel has and what output_buffer_ has left *)
(* make whole messages in the order they were sent, for every length and   *)
(* every way the socket splits the writes; and after a reset the peer has  *)
(* got a beginning of them (tcpconnection.cc:53-104).                      *)
THEOREM NoMessageTorn == Spec => []WholeMessages
<1>1. Init => StreamInv
  BY DEF Init, StreamInv, Stream, RunsIn, WholeIn
<1>2. SendInv /\ SendInv' /\ StreamInv /\ [Next]_vars => StreamInv'
  BY StreamStep
<1>3. StreamInv => WholeMessages
  BY DEF StreamInv, Stream, RunsIn, FollowsIn, WholeIn, WholeMessages, Runs, Follows
<1>. QED
  BY <1>1, <1>2, <1>3, SendInvariance, PTL DEF Spec
=============================================================================
