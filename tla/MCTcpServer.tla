---------------------------- MODULE MCTcpServer ----------------------------
(* A server with two workers. *)
EXTENDS TcpServer

CONSTANTS base, w1, w2

TwoWorkers == <<w1, w2>>
=============================================================================
