------------------------------- MODULE Buffer -------------------------------
(***************************************************************************)
(* The byte buffer of a connection (buffer.h, buffer.cc): a vector with    *)
(* readable bytes from read_index_ up to write_index_, free space behind   *)
(* them and, once bytes have been read, before them.                       *)
(*                                                                         *)
(*    0 .. kPrePendIndex .. read_index_ .. write_index_ .. buffer_.size()  *)
(*                                                                         *)
(* Append moves the readable bytes to the front when that makes room, and  *)
(* makes the vector longer otherwise; nothing ever makes it shorter.       *)
(***************************************************************************)
EXTENDS Naturals, Sequences

CONSTANTS
  Bytes,
  Zero,           (* the byte a new element of the vector holds             *)
  kPrePendIndex,
  kInitialSize,   (* buffer_(1024)                                          *)
  ExtraSize,      (* sizeof(extrabuff) in ReadFd                            *)
  MaxBytes        (* bound of the model: writers leave a buffer with this   *)
                  (* many readable bytes alone                              *)

ASSUME BufferAssumption ==
  /\ Zero \in Bytes
  /\ kPrePendIndex \in Nat
  /\ kInitialSize \in Nat
  /\ kPrePendIndex <= kInitialSize
  /\ ExtraSize \in Nat
  /\ MaxBytes \in Nat

VARIABLES
  buffer_,       (* the vector, element k of it being buffer_[k + 1]        *)
  read_index_,
  write_index_

vars == <<buffer_, read_index_, write_index_>>

readablebytes == write_index_ - read_index_
writablebytes == Len(buffer_) - write_index_
prependablebytes == read_index_

Init ==
  /\ buffer_ = [i \in 1 .. kInitialSize |-> Zero]
  /\ read_index_ = kPrePendIndex
  /\ write_index_ = kPrePendIndex

-----------------------------------------------------------------------------
(* b with s copied over it from index k on (std::copy). *)
Overwrite(b, k, s) ==
  [i \in 1 .. Len(b) |-> IF i \in k + 1 .. k + Len(s) THEN s[i - k] ELSE b[i]]

(* vector::resize to a length not less than the present one. *)
Resize(b, n) == [i \in 1 .. n |-> IF i <= Len(b) THEN b[i] ELSE Zero]

(* The readable bytes of vector b between two indices. *)
Content(b, r, w) == [i \in 1 .. w - r |-> b[r + i]]

Readable == Content(buffer_, read_index_, write_index_)

(* Mistake: the bytes before read_index_ are not counted as free. *)
CanMoveToFront_NoPrepend(b, r, w, len) == Len(b) - w >= kPrePendIndex + len

(* Moved to kPrePendIndex, the readable bytes leave room for len more. *)
CanMoveToFront(b, r, w, len) == (Len(b) - w) + r >= kPrePendIndex + len

(* Mistake: the readable bytes are not moved along with the indices. *)
MoveToFront_NoCopy(b, r, w) == b

MoveToFront(b, r, w) == Overwrite(b, kPrePendIndex, Content(b, r, w))

(* MakeSureEnoughStorage(len) in a buffer with vector b and indices r, w,  *)
(* then the copy of s, of that length, and the move of write_index_.       *)
AppendTo(b, r, w, s) ==
  LET len == Len(s)
      moved == kPrePendIndex + (w - r)
  IN \/ /\ Len(b) - w >= len
        /\ buffer_' = Overwrite(b, w, s)
        /\ read_index_' = r
        /\ write_index_' = w + len
     \/ /\ Len(b) - w < len
        /\ CanMoveToFront(b, r, w, len)
        /\ buffer_' = Overwrite(MoveToFront(b, r, w), moved, s)
        /\ read_index_' = kPrePendIndex
        /\ write_index_' = moved + len
     \/ /\ Len(b) - w < len
        /\ ~ CanMoveToFront(b, r, w, len)
        /\ buffer_' = Overwrite(Resize(b, w + len), w, s)
        /\ read_index_' = r
        /\ write_index_' = w + len

AppendBytes(s) == AppendTo(buffer_, read_index_, write_index_, s)

(* Mistake: write_index_ is not moved over the part readv put in place.    *)
ReadFd_Misplaced(s) ==
  \/ /\ Len(s) <= writablebytes
     /\ buffer_' = Overwrite(buffer_, write_index_, s)
     /\ write_index_' = write_index_ + Len(s)
     /\ UNCHANGED read_index_
  \/ /\ Len(s) > writablebytes
     /\ writablebytes < ExtraSize
     /\ Len(s) <= writablebytes + ExtraSize
     /\ AppendTo(buffer_, read_index_, write_index_,
                 SubSeq(s, writablebytes + 1, Len(s)))

(* ReadFd, readv having read s: what does not fit behind write_index_ has  *)
(* come into extrabuff, which is offered only when that room is short.     *)
ReadFd(s) ==
  \/ /\ Len(s) <= writablebytes
     /\ buffer_' = Overwrite(buffer_, write_index_, s)
     /\ write_index_' = write_index_ + Len(s)
     /\ UNCHANGED read_index_
  \/ /\ Len(s) > writablebytes
     /\ writablebytes < ExtraSize
     /\ Len(s) <= writablebytes + ExtraSize
     /\ LET first == SubSeq(s, 1, writablebytes)
            rest == SubSeq(s, writablebytes + 1, Len(s))
        IN AppendTo(Overwrite(buffer_, write_index_, first),
                    read_index_, Len(buffer_), rest)

(* Mistake: one byte too many is taken.                                   *)
Retrieve_OneMore(len) ==
  /\ readablebytes >= len
  /\ read_index_' = read_index_ + len + 1
  /\ UNCHANGED <<buffer_, write_index_>>

(* Retrieve(len), the caller having respected its assertion. *)
Retrieve(len) ==
  /\ readablebytes >= len
  /\ IF len + read_index_ < write_index_
     THEN read_index_' = read_index_ + len /\ UNCHANGED write_index_
     ELSE read_index_' = kPrePendIndex /\ write_index_' = kPrePendIndex
  /\ UNCHANGED buffer_

(* RetrieveUntilIndex, of a position in the readable bytes: the indices    *)
(* are not reset when it is their end.                                     *)
RetrieveUntilIndex(index) ==
  /\ index \in read_index_ .. write_index_
  /\ read_index_' = index
  /\ UNCHANGED <<buffer_, write_index_>>

RetrieveAll ==
  /\ read_index_' = kPrePendIndex
  /\ write_index_' = kPrePendIndex
  /\ UNCHANGED buffer_

Next ==
  \/ \E n \in 0 .. MaxBytes : \E s \in [1 .. n -> Bytes] :
       readablebytes + n <= MaxBytes /\ (AppendBytes(s) \/ ReadFd(s))
  \/ \E len \in 0 .. readablebytes : Retrieve(len)
  \/ \E index \in read_index_ .. write_index_ : RetrieveUntilIndex(index)
  \/ RetrieveAll

Spec == Init /\ [][Next]_vars

-----------------------------------------------------------------------------
(* The indices stay in order and inside the vector, whatever mix of        *)
(* operations moves them: beginread and beginwrite point into it and no    *)
(* length computed from them is negative (buffer.h:35-40 and 105-108).     *)
TypeOK ==
  /\ buffer_ \in Seq(Bytes)
  /\ read_index_ \in Nat
  /\ write_index_ \in Nat
  /\ kPrePendIndex <= read_index_
  /\ read_index_ <= write_index_
  /\ write_index_ <= Len(buffer_)

(* The vector grows only for bytes that would not fit if the readable ones *)
(* started at kPrePendIndex: a peer that sends as fast as the server reads *)
(* does not make the buffer longer than the backlog (buffer.h:110-123).    *)
GrowsOnlyWhenFull ==
  [][Len(buffer_') > Len(buffer_)
       => kPrePendIndex + readablebytes' > Len(buffer_)]_vars

(* What an operation does to the readable bytes is what its name says,     *)
(* wherever the indices stand and whether bytes are moved or not: Append   *)
(* and ReadFd add exactly their bytes, Retrieve takes exactly len.         *)
Without(n) == [i \in 1 .. readablebytes - n |-> Readable[n + i]]

BytesInOrder ==
  [][/\ \A n \in 0 .. MaxBytes : \A s \in [1 .. n -> Bytes] :
          AppendBytes(s) \/ ReadFd(s) => Readable' = Readable \o s
     /\ \A len \in 0 .. readablebytes :
          Retrieve(len) => Readable' = Without(len)
     /\ \A index \in read_index_ .. write_index_ :
          RetrieveUntilIndex(index) => Readable' = Without(index - read_index_)
    ]_vars

(* Through every move, reset and resize the buffer is one queue of bytes:  *)
(* none is lost, repeated or overwritten before it is read.                *)
BQ == INSTANCE ByteQueue WITH content <- Readable
ImplementsByteQueue == BQ!Spec
=============================================================================
