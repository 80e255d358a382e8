--------------------------- MODULE TcpConnection ---------------------------
(***************************************************************************)
(* The sending half of one established connection (tcpconnection.cc), as   *)
(* its loop's thread drives it: Channel::HandleEvent calls HandleMessage,  *)
(* whose message callback may Send and Shutdown, and HandleWrite.          *)
(*                                                                         *)
(* Around it, the socket: the kernel's send buffer with its limit, and a   *)
(* peer that sends requests, receives at its own pace, closes or resets.   *)
(* The k-th byte of the m-th message handed to Send is <<m, k>>.           *)
(***************************************************************************)
EXTENDS Integers, Sequences

CONSTANTS
  SndBuf,       (* what the kernel's send buffer holds                      *)
  MaxLen,       (* bound of the model: length of a message                  *)
  MaxRequests   (* bound of the model: chunks the peer sends                *)

ASSUME ConnectionAssumption ==
  /\ SndBuf \in Nat \ {0}
  /\ MaxLen \in Nat \ {0}
  /\ MaxRequests \in Nat

VARIABLES
  call,            (* in epoll_wait, or in which callback of HandleEvent    *)
  recv_events_,
  state_,
  events_,         (* the channel's: what epoll is asked to report          *)
  output_buffer_,  (* its readable bytes (see Buffer)                       *)
  shutdown_state_,
  lens,            (* the lengths of the messages handed to Send so far     *)
  requests,        (* chunks the peer has sent                              *)
  inbox,           (* chunks of those that have not been read               *)
  sndbuf,          (* bytes the kernel has taken and the peer has not       *)
  received,        (* bytes the peer has                                    *)
  fin,             (* TRUE iff shutdown(fd_, SHUT_WR) has been done         *)
  peer             (* open, closed (its FIN has come), reset, or broken:    *)
                   (* reset and the error reported                          *)

conn == <<state_, events_, output_buffer_, shutdown_state_, lens>>
socket == <<inbox, sndbuf, fin, peer>>
vars == <<call, recv_events_, conn, socket, requests, received>>

(* After ConnectionEstablished. *)
Init ==
  /\ call = "poll"
  /\ recv_events_ = {}
  /\ state_ = "kConnected"
  /\ events_ = {"IN"}
  /\ output_buffer_ = <<>>
  /\ shutdown_state_ = FALSE
  /\ lens = <<>>
  /\ requests = 0
  /\ inbox = 0
  /\ sndbuf = <<>>
  /\ received = <<>>
  /\ fin = FALSE
  /\ peer = "open"

-----------------------------------------------------------------------------
(* The socket, and the peer at its other end *)

Intact == peer \in {"open", "closed"}
Room == SndBuf - Len(sndbuf)

(* What ::write of n > 0 bytes may return: it fails with EWOULDBLOCK when  *)
(* there is no room, with EPIPE or ECONNRESET when the connection is gone. *)
WriteResults(n) ==
  IF fin \/ ~ Intact \/ Room = 0 THEN {-1}
  ELSE 1 .. (IF n < Room THEN n ELSE Room)

(* The kernel takes the first send_size of bytes; an error is reported     *)
(* once.                                                                   *)
Write(bytes, send_size) ==
  IF send_size < 0
  THEN /\ peer' = IF peer = "reset" THEN "broken" ELSE peer
       /\ UNCHANGED sndbuf
  ELSE /\ sndbuf' = sndbuf \o SubSeq(bytes, 1, send_size)
       /\ UNCHANGED peer

SendRequest ==
  /\ peer = "open" /\ requests < MaxRequests
  /\ requests' = requests + 1
  /\ inbox' = inbox + 1
  /\ UNCHANGED <<call, recv_events_, conn, sndbuf, received, fin, peer>>

Receive ==
  /\ Intact /\ sndbuf # <<>>
  /\ received' = Append(received, Head(sndbuf))
  /\ sndbuf' = Tail(sndbuf)
  /\ UNCHANGED <<call, recv_events_, conn, requests, inbox, fin, peer>>

Close ==
  /\ peer = "open"
  /\ peer' = "closed"
  /\ UNCHANGED <<call, recv_events_, conn, requests, received, inbox, sndbuf, fin>>

(* What the kernel had left to send is gone. *)
Reset ==
  /\ Intact
  /\ peer' = "reset"
  /\ sndbuf' = <<>>
  /\ UNCHANGED <<call, recv_events_, conn, requests, received, inbox, fin>>

-----------------------------------------------------------------------------
(* TcpConnection *)

IsWriting == "OUT" \in events_

(* Mistake: nobody waits for the socket to become writable.                *)
EnableWriting_Not == events_

(* Channel::EnableWriting: what events_ becomes. *)
EnableWriting == events_ \cup {"OUT"}

(* Mistake: the channel goes on waiting to write.                          *)
AfterDraining_KeepsWriting(left) == events_

(* Mistake: DisableAll for DisableWriting.                                 *)
AfterDraining_DisableAll(left) == IF left = <<>> THEN {} ELSE events_

(* Channel::DisableWriting, once nothing is left in the output buffer. *)
AfterDraining(left) == IF left = <<>> THEN events_ \ {"OUT"} ELSE events_

(* Mistake: the socket is tried first even if older bytes are waiting.     *)
WritesDirectly_Always == TRUE

(* Send tries the socket only if nothing is waiting to be written. *)
WritesDirectly == ~ IsWriting /\ output_buffer_ = <<>>

Rest(msg, send_size) == SubSeq(msg, send_size + 1, Len(msg))

(* Send(const char*, int): what the socket did not take is appended to     *)
(* output_buffer_ and EPOLLOUT asked for.  If the write fails, Send        *)
(* returns.                                                                *)
SendMsg(msg) ==
  \/ /\ WritesDirectly
     /\ \E send_size \in WriteResults(Len(msg)) :
          /\ Write(msg, send_size)
          /\ IF send_size \in 0 .. Len(msg) - 1
             THEN /\ output_buffer_' = output_buffer_ \o Rest(msg, send_size)
                  /\ events_' = EnableWriting
             ELSE UNCHANGED <<output_buffer_, events_>>
  \/ /\ ~ WritesDirectly
     /\ output_buffer_' = output_buffer_ \o msg
     /\ events_' = EnableWriting
     /\ UNCHANGED <<sndbuf, peer>>

Send(len) ==
  /\ lens' = Append(lens, len)
  /\ SendMsg([k \in 1 .. len |-> <<Len(lens) + 1, k>>])

(* Mistake: the sending side is shut down at once.                         *)
Shutdown_AtOnce ==
  /\ shutdown_state_' = TRUE
  /\ fin' = (fin \/ peer' \in {"open", "closed"})

(* Shutdown, called after Send in the same callback: the FIN is sent only  *)
(* if nothing waits to be written, and shutdown fails on a dead socket.    *)
Shutdown ==
  /\ shutdown_state_' = TRUE
  /\ fin' = (fin \/ ("OUT" \notin events_' /\ peer' \in {"open", "closed"}))

(* HttpServer::MessageCallback as the connection sees it: nothing once it  *)
(* is shut down or while a request is incomplete; otherwise one response,  *)
(* and Shutdown if it closes the connection.                               *)
MessageCallback ==
  \/ UNCHANGED <<events_, output_buffer_, shutdown_state_, lens, sndbuf, fin, peer>>
  \/ /\ ~ shutdown_state_
     /\ \E len \in 1 .. MaxLen : Send(len)
     /\ Shutdown \/ UNCHANGED <<shutdown_state_, fin>>

(* HandleEvent calls the write callback after the read callback. *)
AfterRead == call' = IF "OUT" \in recv_events_ THEN "write" ELSE "poll"

HandleMessage ==
  /\ call = "read"
  /\ inbox > 0
  /\ inbox' = 0
  /\ MessageCallback
  /\ AfterRead
  /\ UNCHANGED <<recv_events_, state_, requests, received>>

ReadError ==
  /\ call = "read"
  /\ inbox = 0 /\ peer = "reset"
  /\ peer' = "broken"
  /\ AfterRead
  /\ UNCHANGED <<recv_events_, conn, requests, received, inbox, sndbuf, fin>>

(* A read of 0 bytes.  The close callback queues the connection's end,     *)
(* which TcpServer models.                                                 *)
HandleClose ==
  /\ call = "read"
  /\ inbox = 0 /\ peer \in {"closed", "broken"}
  /\ state_' = "kDisconnected"
  /\ events_' = {}
  /\ AfterRead
  /\ UNCHANGED <<recv_events_, output_buffer_, shutdown_state_, lens, socket,
                 requests, received>>

(* HandleWrite.  Its assertion that the write succeeds is compiled out, so *)
(* a failure leaves everything as it is.                                   *)
HandleWrite ==
  /\ call = "write"
  /\ call' = "poll"
  /\ IF IsWriting
     THEN \E send_size \in WriteResults(Len(output_buffer_)) :
            /\ Write(output_buffer_, send_size)
            /\ output_buffer_' =
                 IF send_size < 0 THEN output_buffer_
                 ELSE Rest(output_buffer_, send_size)
            /\ events_' = AfterDraining(output_buffer_')
     ELSE UNCHANGED <<events_, output_buffer_, sndbuf, peer>>
  /\ UNCHANGED <<recv_events_, state_, shutdown_state_, lens, requests, received,
                 inbox, fin>>

-----------------------------------------------------------------------------
(* The events epoll reports, level-triggered. *)
Ready ==
  events_ \cap ((IF inbox > 0 \/ peer # "open" THEN {"IN"} ELSE {})
                  \cup (IF Room > 0 \/ ~ Intact THEN {"OUT"} ELSE {}))

Poll ==
  /\ call = "poll"
  /\ Ready # {}
  /\ recv_events_' = Ready
  /\ call' = IF "IN" \in Ready THEN "read" ELSE "write"
  /\ UNCHANGED <<conn, socket, requests, received>>

LoopStep == Poll \/ HandleMessage \/ ReadError \/ HandleClose \/ HandleWrite

Peer == SendRequest \/ Receive \/ Close \/ Reset

Next == LoopStep \/ Peer

Spec == Init /\ [][Next]_vars

(* The loop's thread is scheduled and its epoll_wait returns when the      *)
(* channel is ready; of the peer nothing is assumed.                       *)
FairSpec == Spec /\ WF_vars(LoopStep)

-----------------------------------------------------------------------------
Byte == Nat \X Nat

(* The types; and a connection that is up always waits to read, whatever   *)
(* happens to its waiting to write, so that it notices the peer's going    *)
(* (channel.h:60-78).                                                      *)
TypeOK ==
  /\ call \in {"poll", "read", "write"}
  /\ recv_events_ \in SUBSET {"IN", "OUT"}
  /\ state_ \in {"kConnected", "kDisconnected"}
  /\ events_ \in SUBSET {"IN", "OUT"}
  /\ output_buffer_ \in Seq(Byte)
  /\ shutdown_state_ \in BOOLEAN
  /\ lens \in Seq(1 .. MaxLen)
  /\ requests \in 0 .. MaxRequests /\ inbox \in 0 .. requests
  /\ sndbuf \in Seq(Byte) /\ Len(sndbuf) <= SndBuf
  /\ received \in Seq(Byte)
  /\ fin \in BOOLEAN
  /\ peer \in {"open", "closed", "reset", "broken"}
  /\ state_ = "kConnected" <=> "IN" \in events_

(* The channel of a live connection waits to write exactly when there are  *)
(* bytes to write: more would spin the loop on a writable socket, less     *)
(* would leave the bytes where they are.  Two functions keep this up by    *)
(* tests of their own (tcpconnection.cc:75-77 and 99-104).                 *)
WritingIffPending ==
  state_ = "kConnected" => (IsWriting <=> output_buffer_ # <<>>)

(* The FIN is the last thing sent: Shutdown does not cut off bytes that    *)
(* still wait in output_buffer_, and no message comes after it             *)
(* (tcpconnection.cc:107-115, httpserver.cc:25).                           *)
FinIsLast == fin => /\ output_buffer_ = <<>>
                    /\ "OUT" \notin events_
                    /\ shutdown_state_

(* No message is torn: the peer's bytes, the kernel's and the output       *)
(* buffer's make a sequence of whole messages, each from its first byte to *)
(* its last, in the order they were sent, however the socket splits the    *)
(* writes.  A reset cuts it off at some point.                             *)
Follows(a, b) ==
  \/ a[2] < lens[a[1]] /\ b = <<a[1], a[2] + 1>>
  \/ a[2] = lens[a[1]] /\ b[1] > a[1] /\ b[2] = 1

Runs(s) ==
  /\ s # <<>> => s[1][2] = 1
  /\ \A i \in 1 .. Len(s) - 1 : Follows(s[i], s[i + 1])

WholeMessages ==
  LET stream == received \o sndbuf \o output_buffer_
      last == stream[Len(stream)]
  IN /\ Runs(received)
     /\ Intact => /\ Runs(stream)
                  /\ stream # <<>> => last[2] = lens[last[1]]

(* A peer that goes on receiving gets everything out of the output buffer, *)
(* unless the connection ends before: HandleWrite is called again until    *)
(* the buffer is empty.                                                    *)
OutputDrains ==
  WF_vars(Receive)
    => (output_buffer_ # <<>> ~> output_buffer_ = <<>> \/ state_ = "kDisconnected")

(* "httpserver calls Send to send data.  Send makes the channel writable"  *)
(* (tcpconnection.cc:81-82): if the kernel has not taken a message as a    *)
(* whole, the channel waits to write the rest, as long as the connection   *)
(* is there.                                                               *)
SendArmsWriting ==
  [][Len(lens') > Len(lens) /\ Intact'
       => \/ "OUT" \in events_'
          \/ \E i \in DOMAIN sndbuf' : sndbuf'[i] = <<Len(lens'), lens'[Len(lens')]>>
    ]_vars
=============================================================================
