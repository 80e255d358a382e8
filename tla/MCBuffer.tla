------------------------------ MODULE MCBuffer ------------------------------
(* A buffer of a few bytes, so that it is full, moved and resized often. *)
EXTENDS Buffer

TwoBytes == {0, 1}
=============================================================================
