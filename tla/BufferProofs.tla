--------------------------- MODULE BufferProofs ---------------------------
(***************************************************************************)
(* Theorems about Buffer for any initial size, any kPrePendIndex, any size *)
(* of extrabuff and any lengths appended and retrieved.                    *)
(***************************************************************************)
EXTENDS Buffer, SequenceTheorems, TLAPS

(* The operators on vectors, by length and element. *)

LEMMA FunctionIsSeq ==
  ASSUME NEW n \in Nat, NEW f \in [1 .. n -> Bytes]
  PROVE f \in Seq(Bytes) /\ Len(f) = n
OBVIOUS

LEMMA OverwriteElements ==
  ASSUME NEW b \in Seq(Bytes), NEW k \in Nat, NEW s \in Seq(Bytes)
  PROVE /\ Overwrite(b, k, s) \in Seq(Bytes)
        /\ Len(Overwrite(b, k, s)) = Len(b)
        /\ \A i \in 1 .. Len(b) :
             Overwrite(b, k, s)[i] = IF i \in k + 1 .. k + Len(s) THEN s[i - k] ELSE b[i]
<1>1. \A i \in 1 .. Len(b) : i \in k + 1 .. k + Len(s) => s[i - k] \in Bytes
  <2> SUFFICES ASSUME NEW i \in 1 .. Len(b), i \in k + 1 .. k + Len(s)
               PROVE s[i - k] \in Bytes
    OBVIOUS
  <2>1. i - k \in 1 .. Len(s)
    OBVIOUS
  <2>. QED
    BY <2>1, ElementOfSeq
<1>2. Overwrite(b, k, s) \in [1 .. Len(b) -> Bytes]
  BY <1>1, ElementOfSeq DEF Overwrite
<1>. QED
  BY <1>2, FunctionIsSeq, LenProperties DEF Overwrite

LEMMA ResizeElements ==
  ASSUME NEW b \in Seq(Bytes), NEW n \in Nat, Len(b) <= n
  PROVE /\ Resize(b, n) \in Seq(Bytes)
        /\ Len(Resize(b, n)) = n
        /\ \A i \in 1 .. Len(b) : Resize(b, n)[i] = b[i]
<1>1. Resize(b, n) \in [1 .. n -> Bytes]
  BY ElementOfSeq, LenProperties, BufferAssumption DEF Resize
<1>. QED
  BY <1>1, FunctionIsSeq, LenProperties DEF Resize

LEMMA ContentElements ==
  ASSUME NEW b \in Seq(Bytes), NEW r \in Nat, NEW w \in Nat,
         r <= w, w <= Len(b)
  PROVE /\ Content(b, r, w) \in Seq(Bytes)
        /\ Len(Content(b, r, w)) = w - r
        /\ \A i \in 1 .. w - r : Content(b, r, w)[i] = b[r + i]
<1>1. \A i \in 1 .. w - r : r + i \in 1 .. Len(b)
  BY LenProperties
<1>2. Content(b, r, w) \in [1 .. w - r -> Bytes]
  BY <1>1, ElementOfSeq DEF Content
<1>3. w - r \in Nat
  OBVIOUS
<1>. QED
  BY <1>2, <1>3, FunctionIsSeq DEF Content

(* The same in one word, for citing it of a given vector.                  *)
IsContent(c, b, r, w) ==
  /\ c \in Seq(Bytes) /\ Len(c) = w - r
  /\ \A i \in 1 .. w - r : c[i] = b[r + i]

LEMMA ContentIs ==
  ASSUME NEW b \in Seq(Bytes), NEW r \in Nat, NEW w \in Nat,
         r <= w, w <= Len(b)
  PROVE  IsContent(Content(b, r, w), b, r, w)
BY ContentElements DEF IsContent

-----------------------------------------------------------------------------
(* The three ways Append finds room, seen from the readable bytes. *)

LEMMA WriteBehind ==
  ASSUME NEW b \in Seq(Bytes), NEW r \in Nat, NEW w \in Nat, r <= w,
         NEW s \in Seq(Bytes), w + Len(s) <= Len(b)
  PROVE Content(Overwrite(b, w, s), r, w + Len(s)) = Content(b, r, w) \o s
<1> DEFINE o == Overwrite(b, w, s)
           v == w + Len(s)
           new == Content(o, r, v)
           old == Content(b, r, w)
<1>1. /\ Len(s) \in Nat /\ Len(b) \in Nat /\ w <= Len(b)
      /\ v \in Nat /\ r <= v /\ v <= Len(b) /\ v = w + Len(s)
  BY LenProperties
<1> HIDE DEF o, v, new, old
<1>2. /\ o \in Seq(Bytes) /\ Len(o) = Len(b)
      /\ \A i \in 1 .. Len(b) : o[i] = IF i \in w + 1 .. w + Len(s) THEN s[i - w] ELSE b[i]
  BY OverwriteElements DEF o
<1>3. /\ new \in Seq(Bytes) /\ Len(new) = v - r
      /\ \A i \in 1 .. v - r : new[i] = o[r + i]
  <2>1. o \in Seq(Bytes) /\ v <= Len(o)
    BY <1>1, <1>2
  <2>. QED
    <3>1. IsContent(Content(o, r, v), o, r, v)
      BY <1>1, <2>1, ContentIs
    <3>. QED
      BY <3>1 DEF IsContent, new
<1>4. /\ old \in Seq(Bytes) /\ Len(old) = w - r
      /\ \A i \in 1 .. w - r : old[i] = b[r + i]
  <2>1. IsContent(Content(b, r, w), b, r, w)
    BY <1>1, ContentIs
  <2>. QED
    BY <2>1 DEF IsContent, old
<1>5. /\ old \o s \in Seq(Bytes) /\ Len(old \o s) = Len(old) + Len(s)
      /\ \A i \in 1 .. Len(old) + Len(s) :
           (old \o s)[i] = IF i <= Len(old) THEN old[i] ELSE s[i - Len(old)]
  <2>1. old \in Seq(Bytes)
    BY <1>4
  <2>. QED
    BY <2>1, ConcatProperties
<1>6. ASSUME NEW i \in 1 .. v - r PROVE new[i] = (old \o s)[i]
  <2>1. /\ r + i \in 1 .. Len(b)
        /\ i \in 1 .. Len(old) + Len(s)
        /\ new[i] = o[r + i]
    <3>1. Len(old) = w - r
      BY <1>4
    <3>2. r + i \in 1 .. Len(b) /\ i \in 1 .. Len(old) + Len(s)
      BY <1>1, <3>1
    <3>. QED
      BY <1>3, <3>2
  <2>2. CASE i <= w - r
    <3>1. r + i \notin w + 1 .. w + Len(s) /\ i \in 1 .. w - r
      BY <2>2, <1>1
    <3>2. o[r + i] = b[r + i]
      BY <2>1, <3>1, <1>2
    <3>3. (old \o s)[i] = old[i]
      BY <2>1, <2>2, <1>4, <1>5
    <3>. QED
      BY <2>1, <3>1, <3>2, <3>3, <1>4
  <2>3. CASE ~ (i <= w - r)
    <3>1. r + i \in w + 1 .. w + Len(s) /\ (r + i) - w = i - Len(old)
      <4>1. Len(old) = w - r
        BY <1>4
      <4>. QED
        BY <2>3, <1>1, <4>1
    <3>2. (old \o s)[i] = s[i - Len(old)]
      BY <2>1, <2>3, <1>4, <1>5
    <3>3. o[r + i] = s[(r + i) - w]
      BY <2>1, <3>1, <1>2
    <3>. QED
      BY <2>1, <3>1, <3>2, <3>3
  <2>. QED
    BY <2>2, <2>3
<1>7. Len(new) = Len(old \o s)
  BY <1>1, <1>3, <1>4, <1>5
<1>8. new = old \o s
  BY <1>3, <1>5, <1>6, <1>7, SeqEqual
<1>. QED
  BY <1>8 DEF new, old, o, v

LEMMA MoveKeepsContent ==
  ASSUME NEW b \in Seq(Bytes), NEW r \in Nat, NEW w \in Nat,
         r <= w, w <= Len(b), kPrePendIndex + (w - r) <= Len(b)
  PROVE Content(MoveToFront(b, r, w), kPrePendIndex, kPrePendIndex + (w - r))
          = Content(b, r, w)
<1> DEFINE old == Content(b, r, w)
           o == Overwrite(b, kPrePendIndex, old)
           e == kPrePendIndex + (w - r)
           new == Content(o, kPrePendIndex, e)
<1>1. /\ kPrePendIndex \in Nat /\ e \in Nat /\ e - kPrePendIndex = w - r
      /\ kPrePendIndex <= e /\ e <= Len(b) /\ Len(b) \in Nat
  BY BufferAssumption, LenProperties
<1> HIDE DEF old, o, e, new
<1>2. old \in Seq(Bytes) /\ Len(old) = w - r
  BY ContentElements DEF old
<1>3. /\ o \in Seq(Bytes) /\ Len(o) = Len(b)
      /\ \A i \in 1 .. Len(b) :
           o[i] = IF i \in kPrePendIndex + 1 .. kPrePendIndex + Len(old)
                  THEN old[i - kPrePendIndex] ELSE b[i]
  <2>1. kPrePendIndex \in Nat /\ old \in Seq(Bytes)
    BY <1>1, <1>2
  <2>. QED
    BY <2>1, OverwriteElements DEF o
<1>4. /\ new \in Seq(Bytes) /\ Len(new) = e - kPrePendIndex
      /\ \A i \in 1 .. e - kPrePendIndex : new[i] = o[kPrePendIndex + i]
  <2>1. IsContent(Content(o, kPrePendIndex, e), o, kPrePendIndex, e)
    BY <1>1, <1>3, ContentIs
  <2>. QED
    BY <1>1, <2>1 DEF IsContent, new
<1>5. Len(new) = Len(old)
  BY <1>1, <1>2, <1>4
<1>6. ASSUME NEW i \in 1 .. Len(new) PROVE new[i] = old[i]
  <2>1. /\ kPrePendIndex + i \in 1 .. Len(b)
        /\ kPrePendIndex + i \in kPrePendIndex + 1 .. kPrePendIndex + Len(old)
        /\ (kPrePendIndex + i) - kPrePendIndex = i
        /\ i \in 1 .. e - kPrePendIndex
    BY <1>1, <1>2, <1>4
  <2>. QED
    BY <2>1, <1>3, <1>4
<1>7. new = old
  BY <1>2, <1>4, <1>5, <1>6, SeqEqual
<1>. QED
  BY <1>7 DEF new, o, old, e, MoveToFront

LEMMA ResizeKeepsContent ==
  ASSUME NEW b \in Seq(Bytes), NEW r \in Nat, NEW w \in Nat,
         r <= w, w <= Len(b), NEW n \in Nat, Len(b) <= n
  PROVE Content(Resize(b, n), r, w) = Content(b, r, w)
<1>1. \A i \in 1 .. w - r : r + i \in 1 .. Len(b)
  BY LenProperties
<1>. QED
  BY <1>1, ResizeElements DEF Content

-----------------------------------------------------------------------------
(* AppendTo, for a vector and indices in order. *)
LEMMA AppendToAppends ==
  ASSUME NEW b \in Seq(Bytes), NEW r \in Nat, NEW w \in Nat,
         kPrePendIndex <= r, r <= w, w <= Len(b),
         NEW s \in Seq(Bytes), AppendTo(b, r, w, s)
  PROVE /\ TypeOK'
        /\ Readable' = Content(b, r, w) \o s
        /\ Len(buffer_') > Len(b) => kPrePendIndex + (w - r) + Len(s) > Len(b)
<1>1. Len(b) \in Nat /\ Len(s) \in Nat /\ kPrePendIndex \in Nat
  BY LenProperties, BufferAssumption
<1>2. CASE /\ Len(b) - w >= Len(s)
           /\ buffer_' = Overwrite(b, w, s)
           /\ read_index_' = r
           /\ write_index_' = w + Len(s)
  <2>1. Readable' = Content(b, r, w) \o s
    <3>1. w + Len(s) <= Len(b)
      BY <1>1, <1>2
    <3>2. Content(Overwrite(b, w, s), r, w + Len(s)) = Content(b, r, w) \o s
      BY <3>1, WriteBehind
    <3>. QED
      BY <1>2, <3>2 DEF Readable
  <2>2. buffer_' \in Seq(Bytes) /\ Len(buffer_') = Len(b)
    BY <1>2, OverwriteElements
  <2>. QED
    BY <1>1, <1>2, <2>1, <2>2 DEF TypeOK
<1>3. CASE /\ CanMoveToFront(b, r, w, Len(s))
           /\ buffer_' = Overwrite(MoveToFront(b, r, w), kPrePendIndex + (w - r), s)
           /\ read_index_' = kPrePendIndex
           /\ write_index_' = kPrePendIndex + (w - r) + Len(s)
  <2> DEFINE m == MoveToFront(b, r, w)
             e == kPrePendIndex + (w - r)
  <2>1. e \in Nat /\ e + Len(s) <= Len(b) /\ e <= Len(b) /\ kPrePendIndex <= e
    BY <1>1, <1>3 DEF CanMoveToFront
  <2>2. m \in Seq(Bytes) /\ Len(m) = Len(b)
    BY <1>1, ContentElements, OverwriteElements DEF MoveToFront
  <2>3. Content(m, kPrePendIndex, e) = Content(b, r, w)
    BY <2>1, MoveKeepsContent
  <2>4. buffer_' = Overwrite(m, e, s) /\ write_index_' = e + Len(s)
    BY <1>3
  <2> HIDE DEF m, e
  <2>5. Content(Overwrite(m, e, s), kPrePendIndex, e + Len(s))
          = Content(m, kPrePendIndex, e) \o s
    BY <1>1, <2>1, <2>2, WriteBehind
  <2>6. Readable' = Content(b, r, w) \o s
    BY <1>3, <2>3, <2>4, <2>5 DEF Readable
  <2>7. buffer_' \in Seq(Bytes) /\ Len(buffer_') = Len(b)
    BY <2>1, <2>2, <2>4, OverwriteElements
  <2>. QED
    BY <1>1, <1>3, <2>1, <2>4, <2>6, <2>7 DEF TypeOK
<1>4. CASE /\ Len(b) - w < Len(s)
           /\ ~ CanMoveToFront(b, r, w, Len(s))
           /\ buffer_' = Overwrite(Resize(b, w + Len(s)), w, s)
           /\ read_index_' = r
           /\ write_index_' = w + Len(s)
  <2> DEFINE z == Resize(b, w + Len(s))
  <2>1. w + Len(s) \in Nat /\ Len(b) <= w + Len(s)
    BY <1>1, <1>4
  <2>2. z \in Seq(Bytes) /\ Len(z) = w + Len(s)
    BY <2>1, ResizeElements
  <2>3. Content(z, r, w) = Content(b, r, w)
    BY <2>1, ResizeKeepsContent
  <2>4. buffer_' = Overwrite(z, w, s)
    BY <1>4
  <2> HIDE DEF z
  <2>5. Content(Overwrite(z, w, s), r, w + Len(s)) = Content(z, r, w) \o s
    <3>1. z \in Seq(Bytes) /\ w + Len(s) <= Len(z)
      BY <2>1, <2>2
    <3>. QED
      BY <3>1, WriteBehind
  <2>6. Readable' = Content(b, r, w) \o s
    BY <1>4, <2>3, <2>4, <2>5 DEF Readable
  <2>7. buffer_' \in Seq(Bytes) /\ Len(buffer_') = w + Len(s)
    BY <2>2, <2>4, OverwriteElements
  <2>. QED
    BY <1>1, <1>4, <2>6, <2>7 DEF TypeOK, CanMoveToFront
<1>. QED
  BY <1>2, <1>3, <1>4 DEF AppendTo

LEMMA ReadableLength ==
  ASSUME TypeOK
  PROVE /\ Readable \in Seq(Bytes) /\ Len(Readable) = readablebytes
        /\ readablebytes \in Nat
        /\ \A i \in 1 .. readablebytes : Readable[i] = buffer_[read_index_ + i]
BY ContentElements DEF TypeOK, Readable, readablebytes

(* What AppendBytes and ReadFd have in common: they add s, and the vector  *)
(* grows only if s would not fit otherwise.                                *)
Adds(s) ==
  /\ TypeOK'
  /\ Readable' = Readable \o s
  /\ Len(buffer_') > Len(buffer_)
       => kPrePendIndex + readablebytes + Len(s) > Len(buffer_)

LEMMA AppendBytesAdds ==
  ASSUME TypeOK, NEW s \in Seq(Bytes), AppendBytes(s) PROVE Adds(s)
BY AppendToAppends DEF TypeOK, AppendBytes, Adds, Readable, readablebytes

LEMMA ConcatAssoc ==
  ASSUME NEW x \in Seq(Bytes), NEW y \in Seq(Bytes), NEW z \in Seq(Bytes)
  PROVE (x \o y) \o z = x \o (y \o z)
BY ConcatAssociative, SMT

LEMMA ReadFdAdds ==
  ASSUME TypeOK, NEW s \in Seq(Bytes), ReadFd(s) PROVE Adds(s)
<1> DEFINE k == Len(buffer_) - write_index_
           first == SubSeq(s, 1, k)
           rest == SubSeq(s, k + 1, Len(s))
           o == Overwrite(buffer_, write_index_, first)
<1>1. /\ Len(s) \in Nat /\ Len(buffer_) \in Nat /\ k \in Nat
      /\ k = Len(buffer_) - write_index_
  BY LenProperties DEF TypeOK
<1>2. CASE Len(s) <= k
  <2>1. AppendBytes(s)
    BY <1>1, <1>2 DEF ReadFd, AppendBytes, AppendTo, writablebytes
  <2>. QED
    BY <2>1, AppendBytesAdds
<1>3. CASE Len(s) > k
  <2>1. AppendTo(o, read_index_, Len(buffer_), rest)
    BY <1>1, <1>3 DEF ReadFd, writablebytes
  <2> HIDE DEF k
  <2>2. /\ first \in Seq(Bytes) /\ Len(first) = k
        /\ rest \in Seq(Bytes) /\ Len(rest) = Len(s) - k
    <3>1. /\ \A i \in 1 .. k : s[i] \in Bytes
          /\ \A i \in k + 1 .. Len(s) : s[i] \in Bytes
      BY <1>1, <1>3, ElementOfSeq
    <3>2. k + 1 \in Int /\ k \in Int /\ Len(s) \in Int /\ 1 \in Int
      BY <1>1
    <3>3. first \in Seq(Bytes) /\ Len(first) = IF 1 <= k THEN k - 1 + 1 ELSE 0
      BY <3>1, <3>2, SubSeqProperties
    <3>4. /\ rest \in Seq(Bytes)
          /\ Len(rest) = IF k + 1 <= Len(s) THEN Len(s) - (k + 1) + 1 ELSE 0
      BY <3>1, <3>2, SubSeqProperties
    <3>. QED
      BY <3>3, <3>4, <1>1, <1>3
  <2>3. first \o rest = s
    <3>1. 1 \in 1 .. Len(s) + 1 /\ k \in 1 - 1 .. Len(s) /\ Len(s) \in k .. Len(s)
      BY <1>1, <1>3
    <3>2. first \o rest = SubSeq(s, 1, Len(s))
      BY <3>1, ConcatAdjacentSubSeq
    <3>. QED
      BY <3>2, SubSeqFull
  <2> HIDE DEF first, rest
  <2>4. /\ o \in Seq(Bytes) /\ Len(o) = Len(buffer_)
        /\ Content(o, read_index_, Len(buffer_)) = Readable \o first
    <3>1. o \in Seq(Bytes) /\ Len(o) = Len(buffer_)
      BY <2>2, OverwriteElements DEF TypeOK
    <3>2. write_index_ + Len(first) = Len(buffer_)
      BY <1>1, <2>2 DEF TypeOK
    <3>3. /\ buffer_ \in Seq(Bytes) /\ read_index_ \in Nat /\ write_index_ \in Nat
          /\ read_index_ <= write_index_ /\ write_index_ + Len(first) <= Len(buffer_)
      BY <1>1, <3>2 DEF TypeOK
    <3>4. Content(o, read_index_, write_index_ + Len(first))
            = Content(buffer_, read_index_, write_index_) \o first
      BY <2>2, <3>3, WriteBehind
    <3>. QED
      BY <3>1, <3>2, <3>4 DEF Readable
  <2> HIDE DEF o
  <2>5. /\ read_index_ \in Nat /\ kPrePendIndex <= read_index_
        /\ read_index_ <= Len(buffer_) /\ Len(buffer_) <= Len(o)
    BY <1>1, <2>4, BufferAssumption DEF TypeOK
  <2>6. /\ TypeOK'
        /\ Readable' = (Readable \o first) \o rest
        /\ Len(buffer_') > Len(buffer_)
             => kPrePendIndex + (Len(buffer_) - read_index_) + Len(rest) > Len(buffer_)
    <3>1. o \in Seq(Bytes) /\ rest \in Seq(Bytes) /\ Len(buffer_) \in Nat
      BY <1>1, <2>2, <2>4
    <3>2. /\ TypeOK'
          /\ Readable' = Content(o, read_index_, Len(buffer_)) \o rest
          /\ Len(buffer_') > Len(o)
               => kPrePendIndex + (Len(buffer_) - read_index_) + Len(rest) > Len(o)
      BY <2>1, <2>5, <3>1, AppendToAppends
    <3>. QED
      BY <2>4, <3>2
  <2>7. (Readable \o first) \o rest = Readable \o s
    <3>1. Readable \in Seq(Bytes)
      BY ReadableLength
    <3>2. (Readable \o first) \o rest = Readable \o (first \o rest)
      BY <2>2, <3>1, ConcatAssoc
    <3>. QED
      BY <2>3, <3>2
  <2>8. (Len(buffer_) - read_index_) + Len(rest) = readablebytes + Len(s)
    BY <1>1, <2>2 DEF TypeOK, readablebytes
  <2>9. kPrePendIndex \in Nat
    BY BufferAssumption
  <2>10. Len(buffer_') > Len(buffer_)
           => kPrePendIndex + readablebytes + Len(s) > Len(buffer_)
    BY <1>1, <2>2, <2>6, <2>8, <2>9 DEF TypeOK, readablebytes
  <2>. QED
    BY <2>6, <2>7, <2>10 DEF Adds
<1>. QED
  BY <1>1, <1>2, <1>3

LEMMA ChunkIsSeq ==
  ASSUME NEW n \in 0 .. MaxBytes, NEW s \in [1 .. n -> Bytes]
  PROVE s \in Seq(Bytes) /\ Len(s) = n
BY BufferAssumption, FunctionIsSeq

(* Reading moves read_index_ or resets both indices, and leaves the vector.*)
Takes(n) ==
  /\ TypeOK'
  /\ Readable' = Without(n)
  /\ buffer_' = buffer_

LEMMA IndexTakes ==
  ASSUME TypeOK, NEW index \in read_index_ .. write_index_,
         read_index_' = index, UNCHANGED <<buffer_, write_index_>>
  PROVE Takes(index - read_index_)
<1> DEFINE n == index - read_index_
<1>1. n \in Nat /\ n <= readablebytes /\ index = read_index_ + n /\ index \in Nat
  BY DEF TypeOK, readablebytes
<1>2. TypeOK'
  BY <1>1, BufferAssumption DEF TypeOK
<1>3. Readable' = [i \in 1 .. write_index_ - index |-> buffer_[index + i]]
  BY DEF Readable, Content
<1>4. write_index_ - index = readablebytes - n
  BY <1>1 DEF TypeOK, readablebytes
<1>5. ASSUME NEW i \in 1 .. readablebytes - n
      PROVE buffer_[index + i] = Readable[n + i]
  <2>1. n + i \in 1 .. readablebytes /\ read_index_ + (n + i) = index + i
    BY <1>1 DEF TypeOK, readablebytes
  <2>. QED
    BY <2>1, ReadableLength
<1> HIDE DEF n
<1>6. Readable' = Without(n)
  BY <1>3, <1>4, <1>5 DEF Without
<1>. QED
  BY <1>2, <1>6 DEF Takes, n

LEMMA ResetTakesAll ==
  ASSUME TypeOK, read_index_' = kPrePendIndex, write_index_' = kPrePendIndex,
         UNCHANGED buffer_
  PROVE Takes(readablebytes)
<1>1. TypeOK'
  BY BufferAssumption DEF TypeOK
<1>2. Readable' = [i \in 1 .. 0 |-> buffer_[kPrePendIndex + i]]
  BY BufferAssumption DEF Readable, Content
<1>3. Without(readablebytes) = [i \in 1 .. 0 |-> Readable[readablebytes + i]]
  BY ReadableLength DEF Without
<1>4. Readable' = Without(readablebytes)
  BY <1>2, <1>3
<1>. QED
  BY <1>1, <1>4 DEF Takes

LEMMA RetrieveTakes ==
  ASSUME TypeOK, NEW len \in 0 .. readablebytes, Retrieve(len)
  PROVE Takes(len)
<1>1. len \in Nat /\ len <= readablebytes
  BY ReadableLength
<1>2. CASE len + read_index_ < write_index_
  <2>1. /\ read_index_ + len \in read_index_ .. write_index_
        /\ (read_index_ + len) - read_index_ = len
    BY <1>1, <1>2 DEF TypeOK, readablebytes
  <2>. QED
    BY <1>2, <2>1, IndexTakes DEF Retrieve
<1>3. CASE ~ (len + read_index_ < write_index_)
  <2>1. len = readablebytes
    BY <1>1, <1>3 DEF TypeOK, readablebytes
  <2>. QED
    BY <1>3, <2>1, ResetTakesAll DEF Retrieve
<1>. QED
  BY <1>2, <1>3

LEMMA UntilIndexTakes ==
  ASSUME TypeOK, NEW index \in read_index_ .. write_index_, RetrieveUntilIndex(index)
  PROVE Takes(index - read_index_)
BY IndexTakes DEF RetrieveUntilIndex

(* Every step adds bytes, takes bytes or changes nothing. *)
LEMMA StepCases ==
  ASSUME TypeOK, [Next]_vars
  PROVE \/ \E s \in Seq(Bytes) : Adds(s)
        \/ \E n \in 0 .. readablebytes : Takes(n)
        \/ UNCHANGED vars
<1>1. ASSUME NEW n \in 0 .. MaxBytes, NEW s \in [1 .. n -> Bytes],
             AppendBytes(s) \/ ReadFd(s)
      PROVE s \in Seq(Bytes) /\ Adds(s)
  BY <1>1, ChunkIsSeq, AppendBytesAdds, ReadFdAdds
<1>2. ASSUME NEW len \in 0 .. readablebytes, Retrieve(len)
      PROVE Takes(len)
  BY <1>2, RetrieveTakes
<1>3. ASSUME NEW index \in read_index_ .. write_index_, RetrieveUntilIndex(index)
      PROVE index - read_index_ \in 0 .. readablebytes /\ Takes(index - read_index_)
  <2>1. index - read_index_ \in 0 .. readablebytes
    BY DEF TypeOK, readablebytes
  <2>. QED
    BY <1>3, <2>1, UntilIndexTakes
<1>4. ASSUME RetrieveAll
      PROVE readablebytes \in 0 .. readablebytes /\ Takes(readablebytes)
  BY <1>4, ReadableLength, ResetTakesAll DEF RetrieveAll
<1>. QED
  BY <1>1, <1>2, <1>3, <1>4 DEF Next

-----------------------------------------------------------------------------
(* No operation lets an index run out of the vector or past the other one, *)
(* for any sizes (buffer.h:42-123, buffer.cc).                             *)
THEOREM TypeCorrect == Spec => []TypeOK
<1>1. Init => TypeOK
  BY BufferAssumption, FunctionIsSeq DEF Init, TypeOK
<1>2. TypeOK /\ [Next]_vars => TypeOK'
  <2> SUFFICES ASSUME TypeOK, [Next]_vars PROVE TypeOK'
    OBVIOUS
  <2>1. CASE UNCHANGED vars
    BY <2>1 DEF vars, TypeOK
  <2>. QED
    BY <2>1, StepCases DEF Adds, Takes
<1>. QED
  BY <1>1, <1>2, PTL DEF Spec

(* The vector grows only for bytes that moving the readable ones to the    *)
(* front would not make room for (buffer.h:110-123).                       *)
THEOREM NoNeedlessGrowth == Spec => GrowsOnlyWhenFull
<1>1. TypeOK /\ TypeOK' /\ [Next]_vars
        => [Len(buffer_') > Len(buffer_)
              => kPrePendIndex + readablebytes' > Len(buffer_)]_vars
  <2> SUFFICES ASSUME TypeOK, TypeOK', [Next]_vars, Len(buffer_') > Len(buffer_)
               PROVE kPrePendIndex + readablebytes' > Len(buffer_)
    OBVIOUS
  <2>1. ASSUME NEW s \in Seq(Bytes), Adds(s)
        PROVE kPrePendIndex + readablebytes' > Len(buffer_)
    <3>1. Len(Readable') = Len(Readable) + Len(s)
      BY <2>1, ReadableLength, ConcatProperties DEF Adds
    <3>2. Len(Readable') = readablebytes'
      BY ContentElements DEF TypeOK, Readable, readablebytes
    <3>3. readablebytes' = readablebytes + Len(s)
      BY <3>1, <3>2, ReadableLength
    <3>4. Len(s) \in Nat /\ Len(buffer_) \in Nat /\ readablebytes \in Nat
      BY ReadableLength, LenProperties DEF TypeOK
    <3>. QED
      BY <2>1, <3>3, <3>4, BufferAssumption DEF Adds
  <2>2. Len(buffer_) \in Nat
    BY LenProperties DEF TypeOK
  <2>3. ASSUME buffer_' = buffer_ PROVE FALSE
    BY <2>2, <2>3
  <2>. QED
    BY <2>1, <2>3, StepCases DEF Takes, vars
<1>. QED
  BY <1>1, TypeCorrect, PTL DEF Spec, GrowsOnlyWhenFull

(* Append and ReadFd add exactly their bytes to the readable ones, and the *)
(* Retrieve functions take exactly theirs from the front.                  *)
THEOREM OperationsKeepOrder == Spec => BytesInOrder
<1>1. TypeOK /\ [Next]_vars
        => [/\ \A n \in 0 .. MaxBytes : \A s \in [1 .. n -> Bytes] :
                 AppendBytes(s) \/ ReadFd(s) => Readable' = Readable \o s
            /\ \A len \in 0 .. readablebytes :
                 Retrieve(len) => Readable' = Without(len)
            /\ \A index \in read_index_ .. write_index_ :
                 RetrieveUntilIndex(index) => Readable' = Without(index - read_index_)
           ]_vars
  BY ChunkIsSeq, AppendBytesAdds, ReadFdAdds, RetrieveTakes, UntilIndexTakes
     DEF Adds, Takes
<1>. QED
  BY <1>1, TypeCorrect, PTL DEF Spec, BytesInOrder

-----------------------------------------------------------------------------
LEMMA AddsIsPut ==
  ASSUME TypeOK, NEW s \in Seq(Bytes), Adds(s) PROVE BQ!Put
<1> DEFINE old == Readable
           new == old \o s
<1>1. Readable' = new /\ old \in Seq(Bytes)
  BY ReadableLength DEF Adds
<1> HIDE DEF old
<1>2. /\ new \in Seq(Bytes) /\ Len(new) = Len(old) + Len(s)
      /\ \A i \in 1 .. Len(old) + Len(s) :
           new[i] = IF i <= Len(old) THEN old[i] ELSE s[i - Len(old)]
  BY <1>1, ConcatProperties
<1>3. Len(old) \in Nat /\ Len(s) \in Nat
  BY <1>1, LenProperties
<1> HIDE DEF new
<1>4. SubSeq(new, 1, Len(old)) = old
  <2> DEFINE sub == SubSeq(new, 1, Len(old))
  <2>1. \A i \in 1 .. Len(old) : new[i] = old[i] /\ new[i] \in Bytes
    BY <1>1, <1>2, <1>3, ElementOfSeq
  <2>2. /\ sub \in Seq(Bytes)
        /\ Len(sub) = IF 1 <= Len(old) THEN Len(old) - 1 + 1 ELSE 0
        /\ \A i \in 1 .. Len(old) - 1 + 1 : sub[i] = new[1 + i - 1]
    BY <1>3, <2>1, SubSeqProperties
  <2> HIDE DEF sub
  <2>3. Len(sub) = Len(old)
    BY <1>3, <2>2
  <2>4. ASSUME NEW i \in 1 .. Len(sub) PROVE sub[i] = old[i]
    <3>1. i \in 1 .. Len(old) - 1 + 1 /\ 1 + i - 1 = i /\ i \in 1 .. Len(old)
      BY <1>3, <2>3
    <3>. QED
      BY <2>1, <2>2, <3>1
  <2>5. sub = old
    BY <1>1, <2>2, <2>3, <2>4, SeqEqual
  <2>. QED
    BY <2>5 DEF sub
<1>5. Len(old) <= Len(new)
  BY <1>2, <1>3
<1>. QED
  BY <1>1, <1>2, <1>4, <1>5 DEF BQ!Put, old

LEMMA TakesIsTake ==
  ASSUME TypeOK, NEW n \in 0 .. readablebytes, Takes(n) PROVE BQ!Take
<1>1. /\ Readable \in Seq(Bytes) /\ Len(Readable) = readablebytes
      /\ readablebytes \in Nat /\ n \in Nat /\ n <= readablebytes
  BY ReadableLength
<1>2. Readable' = Without(n)
  BY DEF Takes
<1> DEFINE old == Readable
           sub == SubSeq(old, n + 1, Len(old))
           out == [i \in 1 .. readablebytes - n |-> old[n + i]]
<1>3. Without(n) = out
  BY DEF Without
<1> HIDE DEF old
<1>4. /\ old \in Seq(Bytes) /\ Len(old) = readablebytes
  BY <1>1 DEF old
<1>5. \A i \in n + 1 .. Len(old) : old[i] \in Bytes
  BY <1>1, <1>4, ElementOfSeq
<1>6. /\ sub \in Seq(Bytes)
      /\ Len(sub) = IF n + 1 <= Len(old) THEN Len(old) - (n + 1) + 1 ELSE 0
      /\ \A i \in 1 .. Len(old) - (n + 1) + 1 : sub[i] = old[(n + 1) + i - 1]
  BY <1>1, <1>4, <1>5, SubSeqProperties
<1>7. out \in Seq(Bytes) /\ Len(out) = readablebytes - n
  <2>1. \A i \in 1 .. readablebytes - n : n + i \in n + 1 .. Len(old)
    BY <1>1, <1>4
  <2>2. out \in [1 .. readablebytes - n -> Bytes]
    BY <1>5, <2>1
  <2>3. readablebytes - n \in Nat
    BY <1>1
  <2>. QED
    BY <2>2, <2>3, FunctionIsSeq
<1>8. \A i \in 1 .. readablebytes - n : out[i] = old[n + i]
  OBVIOUS
<1> HIDE DEF sub, out
<1>9. Len(sub) = Len(out)
  BY <1>1, <1>4, <1>6, <1>7
<1>10. ASSUME NEW i \in 1 .. Len(sub) PROVE sub[i] = out[i]
  <2>1. /\ i \in 1 .. Len(old) - (n + 1) + 1 /\ (n + 1) + i - 1 = n + i
        /\ i \in 1 .. readablebytes - n
    BY <1>1, <1>4, <1>7, <1>9
  <2>. QED
    BY <2>1, <1>6, <1>8
<1>11. sub = out
  BY <1>6, <1>7, <1>9, <1>10, SeqEqual
<1>12. Readable' = SubSeq(Readable, n + 1, Len(Readable))
  BY <1>2, <1>3, <1>11 DEF sub, old
<1>. QED
  BY <1>1, <1>12 DEF BQ!Take

(* The buffer is a queue of bytes. *)
THEOREM BufferIsByteQueue == Spec => ImplementsByteQueue
<1>1. Init => BQ!Init
  BY BufferAssumption DEF Init, BQ!Init, Readable, Content
<1>2. TypeOK /\ [Next]_vars => [BQ!Next]_Readable
  <2> SUFFICES ASSUME TypeOK, [Next]_vars PROVE [BQ!Next]_Readable
    OBVIOUS
  <2>1. ASSUME UNCHANGED vars PROVE UNCHANGED Readable
    BY <2>1 DEF vars, Readable
  <2>. QED
    BY <2>1, StepCases, AddsIsPut, TakesIsTake DEF BQ!Next
<1>. QED
  BY <1>1, <1>2, TypeCorrect, PTL DEF Spec, ImplementsByteQueue, BQ!Spec
=============================================================================
