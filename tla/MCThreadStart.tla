--------------------------- MODULE MCThreadStart ---------------------------
(* The base loop and one worker, which queue functors on themselves and on *)
(* each other.                                                             *)
EXTENDS ThreadStart

CONSTANTS base, w1, f1, f2, listen, conn

BaseAndWorker == {base, w1}
OneWorker == <<w1>>
TwoFuncs == {f1, f2}
TwoChannels == {listen, conn}
=============================================================================
