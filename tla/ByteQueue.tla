----------------------------- MODULE ByteQueue -----------------------------
(***************************************************************************)
(* What Buffer promises to its users, without indices, moves and resizing: *)
(* a queue of bytes.  Writers add at the end, readers take from the front. *)
(***************************************************************************)
EXTENDS Naturals, Sequences

CONSTANT Bytes

VARIABLE content

Init == content = <<>>

Put ==
  /\ content' \in Seq(Bytes)
  /\ Len(content) <= Len(content')
  /\ SubSeq(content', 1, Len(content)) = content

Take ==
  \E n \in 0 .. Len(content) :
    content' = SubSeq(content, n + 1, Len(content))

Next == Put \/ Take

Spec == Init /\ [][Next]_content
=============================================================================
