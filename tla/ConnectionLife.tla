-------------------------- MODULE ConnectionLife ---------------------------
(***************************************************************************)
(* What TCPServer promises about its connections, without threads, queues  *)
(* or reference counts: a client that connects is refused or given a file  *)
(* descriptor that no live connection has; the connection comes up once,   *)
(* closes once, and gives its descriptor back after that, never before.    *)
(***************************************************************************)
CONSTANTS Conns, Fds, NoConn

VARIABLES
  phase,   (* of each connection: absent, accepted, up, closing, gone *)
  holder   (* the connection that has each descriptor open, or NoConn *)

vars == <<phase, holder>>

Init ==
  /\ phase = [c \in Conns |-> "absent"]
  /\ holder = [f \in Fds |-> NoConn]

(* The connection may be up at once: without worker threads the base loop  *)
(* serves it itself.                                                       *)
Accept(c, f) ==
  /\ phase[c] = "absent"
  /\ holder[f] = NoConn
  /\ \E p \in {"accepted", "up"} : phase' = [phase EXCEPT ![c] = p]
  /\ holder' = [holder EXCEPT ![f] = c]

Refuse(c) ==
  /\ phase[c] = "absent"
  /\ phase' = [phase EXCEPT ![c] = "gone"]
  /\ UNCHANGED holder

Establish(c) ==
  /\ phase[c] = "accepted"
  /\ phase' = [phase EXCEPT ![c] = "up"]
  /\ UNCHANGED holder

Close(c) ==
  /\ phase[c] = "up"
  /\ phase' = [phase EXCEPT ![c] = "closing"]
  /\ UNCHANGED holder

(* A loop may drop its last references to several connections at once. *)
Free(C) ==
  /\ \A c \in C : phase[c] = "closing"
  /\ phase' = [c \in Conns |-> IF c \in C THEN "gone" ELSE phase[c]]
  /\ holder' = [f \in Fds |-> IF holder[f] \in C THEN NoConn ELSE holder[f]]

Next ==
  \/ \E c \in Conns : \/ \E f \in Fds : Accept(c, f)
                      \/ Refuse(c)
                      \/ Establish(c)
                      \/ Close(c)
  \/ \E C \in SUBSET Conns : Free(C)

Spec == Init /\ [][Next]_vars
=============================================================================
