-------------------------- MODULE ByteStreamProofs --------------------------
(****************************************************************************)
(* How bytes travel: Buffer is a queue of them, and TinyPBCoder brings the  *)
(* packets and their ids from one side of a stream to the other.            *)
(*                                                                          *)
(* Buffer.  The argument goes through values: Holds says that a state of    *)
(* the buffer has bytes lo + 1 to hi of the stream between its indices, and *)
(* each helper of the methods is shown to keep that or to add to it.        *)
(*                                                                          *)
(* TinyPBCoder.  The inductive invariant is about the bytes that have not   *)
(* been decoded, those in the buffer and those under way as one sequence:   *)
(* Laid says that they hold the packets not yet delivered, each whole, in   *)
(* order and without overlap, and that no start byte is outside of them.    *)
(* Then the scan of decode can only stop at the first packet, and what it   *)
(* parses there is what was encoded.                                        *)
(*                                                                          *)
(* MsgIdUtil.  What needs induction over the digits is shown for the        *)
(* smallest number that would be an exception (LeastNat).                   *)
(****************************************************************************)
EXTENDS Buffer, Outbound, SequenceTheorems, WellFoundedInduction, TLAPS

-----------------------------------------------------------------------------
(* Buffer *)

\* The buffer with these components is well formed and holds the bytes of the
\* stream after number lo, up to number hi.
Holds(s, c, r, w, lo, hi) ==
    /\ s \in Nat /\ c \in [0..(s - 1) -> Nat]
    /\ w \in 0..s /\ r \in 0..w
    /\ lo \in Nat /\ hi \in Nat
    /\ w - r = hi - lo
    /\ \A i \in 0..(s - 1) : r <= i /\ i < w => c[i] = lo + 1 + (i - r)

HoldsB(b, lo, hi) == Holds(b.size, b.cells, b.r, b.w, lo, hi)

\* The cells after Put, makeSpace's resize and its copy to the front.
PutCells(s, c, w, hi, len) ==
    [i \in 0..(s - 1) |-> IF i >= w /\ i < w + len THEN hi + 1 + (i - w) ELSE c[i]]

ResizeCells(s, c, n) == [i \in 0..(n - 1) |-> IF i < s THEN c[i] ELSE 0]

FrontCells(s, c, r, w) == [i \in 0..(s - 1) |-> IF i < w - r THEN c[r + i] ELSE c[i]]

\* Bytes put behind the write index extend the contents.
LEMMA PutCellsHold ==
    ASSUME NEW s, NEW c, NEW r, NEW w, NEW lo, NEW hi, Holds(s, c, r, w, lo, hi),
           NEW len \in Nat, w + len <= s
    PROVE  Holds(s, PutCells(s, c, w, hi, len), r, w + len, lo, hi + len)
<1> USE DEF Holds
<1>1. ASSUME NEW i \in 0..(s - 1)
      PROVE  /\ PutCells(s, c, w, hi, len)[i] =
                    IF i >= w /\ i < w + len THEN hi + 1 + (i - w) ELSE c[i]
             /\ PutCells(s, c, w, hi, len)[i] \in Nat
  BY DEF PutCells
<1>2. PutCells(s, c, w, hi, len) \in [0..(s - 1) -> Nat]
  BY <1>1 DEF PutCells
<1>3. ASSUME NEW i \in 0..(s - 1), r <= i, i < w + len
      PROVE  PutCells(s, c, w, hi, len)[i] = lo + 1 + (i - r)
  <2>1. CASE i < w
    BY <1>1, <1>3, <2>1
  <2>2. CASE ~(i < w)
    <3>1. i >= w /\ i < w + len
      BY <1>3, <2>2
    <3>2. hi + 1 + (i - w) = lo + 1 + (i - r)
      OBVIOUS
    <3>3. PutCells(s, c, w, hi, len)[i] = hi + 1 + (i - w)
      BY <1>1, <3>1
    <3> HIDE DEF Holds
    <3> QED
      BY <3>2, <3>3
  <2> QED
    BY <2>1, <2>2
<1>4. w + len \in 0..s /\ r \in 0..(w + len) /\ hi + len \in Nat /\ (w + len) - r = (hi + len) - lo
  OBVIOUS
<1> QED
  BY <1>2, <1>3, <1>4

\* A longer vector has the same contents.
LEMMA ResizeCellsHold ==
    ASSUME NEW s, NEW c, NEW r, NEW w, NEW lo, NEW hi, Holds(s, c, r, w, lo, hi),
           NEW n \in Nat, w <= n
    PROVE  Holds(n, ResizeCells(s, c, n), r, w, lo, hi)
<1> USE DEF Holds
<1>1. ASSUME NEW i \in 0..(n - 1)
      PROVE  /\ ResizeCells(s, c, n)[i] = IF i < s THEN c[i] ELSE 0
             /\ ResizeCells(s, c, n)[i] \in Nat
  BY DEF ResizeCells
<1>2. ResizeCells(s, c, n) \in [0..(n - 1) -> Nat]
  BY <1>1 DEF ResizeCells
<1>3. ASSUME NEW i \in 0..(n - 1), r <= i, i < w
      PROVE  ResizeCells(s, c, n)[i] = lo + 1 + (i - r)
  BY <1>1, <1>3
<1> QED
  BY <1>2, <1>3

\* The contents can be copied to the front.
LEMMA FrontCellsHold ==
    ASSUME NEW s, NEW c, NEW r, NEW w, NEW lo, NEW hi, Holds(s, c, r, w, lo, hi)
    PROVE  Holds(s, FrontCells(s, c, r, w), 0, w - r, lo, hi)
<1> USE DEF Holds
<1>1. ASSUME NEW i \in 0..(s - 1)
      PROVE  /\ FrontCells(s, c, r, w)[i] = IF i < w - r THEN c[r + i] ELSE c[i]
             /\ FrontCells(s, c, r, w)[i] \in Nat
  BY DEF FrontCells
<1>2. FrontCells(s, c, r, w) \in [0..(s - 1) -> Nat]
  BY <1>1 DEF FrontCells
<1>3. ASSUME NEW i \in 0..(s - 1), 0 <= i, i < w - r
      PROVE  FrontCells(s, c, r, w)[i] = lo + 1 + (i - 0)
  <2>1. r + i \in 0..(s - 1) /\ r <= r + i /\ r + i < w
    BY <1>3
  <2> QED
    BY <1>1, <1>3, <2>1
<1>4. w - r \in 0..s /\ 0 \in 0..(w - r) /\ (w - r) - 0 = hi - lo
  OBVIOUS
<1> QED
  BY <1>2, <1>3, <1>4

\* Bytes put behind the write index, where there is room for them.
LEMMA PutHolds ==
    ASSUME NEW b, NEW lo, NEW hi, HoldsB(b, lo, hi),
           NEW len \in Nat, b.w + len <= b.size
    PROVE  HoldsB(Put(b, hi + 1, len), lo, hi + len)
<1>1. Holds(b.size, PutCells(b.size, b.cells, b.w, hi, len), b.r, b.w + len, lo, hi + len)
  BY PutCellsHold DEF HoldsB
<1> QED
  BY <1>1 DEF HoldsB, Put, PutCells

\* makeSpace keeps the contents and makes enough room.
LEMMA MakeSpaceHolds ==
    ASSUME NEW b, NEW lo, NEW hi, HoldsB(b, lo, hi), NEW len \in Nat
    PROVE  /\ HoldsB(MakeSpace(b, len), lo, hi)
           /\ MakeSpace(b, len).w + len <= MakeSpace(b, len).size
<1>1. CASE Grows(b, len)
  <2>1. b.w + len \in Nat /\ b.w <= b.w + len
    BY DEF HoldsB, Holds
  <2>2. Holds(b.w + len, ResizeCells(b.size, b.cells, b.w + len), b.r, b.w, lo, hi)
    BY <2>1, ResizeCellsHold DEF HoldsB
  <2> QED
    BY <1>1, <2>1, <2>2 DEF HoldsB, MakeSpace, Resize, ResizeCells
<1>2. CASE ~Grows(b, len)
  <2>1. (b.w - b.r) + len <= b.size
    BY <1>2 DEF HoldsB, Holds, Grows
  <2>2. Holds(b.size, FrontCells(b.size, b.cells, b.r, b.w), 0, b.w - b.r, lo, hi)
    BY FrontCellsHold DEF HoldsB
  <2> QED
    BY <1>2, <2>1, <2>2 DEF HoldsB, MakeSpace, MoveToFront, FrontCells
<1> QED
  BY <1>1, <1>2

\* writeToBuffer adds the bytes to the contents.
LEMMA WrittenHolds ==
    ASSUME NEW b, NEW lo, NEW hi, HoldsB(b, lo, hi), NEW len \in Nat
    PROVE  HoldsB(Written(b, hi + 1, len), lo, hi + len)
<1>1. CASE b.size - b.w < len
  BY <1>1, MakeSpaceHolds, PutHolds DEF Written
<1>2. CASE ~(b.size - b.w < len)
  <2>1. b.w + len <= b.size
    BY <1>2 DEF HoldsB, Holds
  <2> QED
    BY <1>2, <2>1, PutHolds DEF Written
<1> QED
  BY <1>1, <1>2

\* The two invariants say that the variables hold the stream.
LEMMA InvIsHolds == TypeOK /\ StreamKept <=> HoldsB(This, taken, written)
  BY DEF TypeOK, StreamKept, readableBytes, HoldsB, Holds, This

\* A step that turns the buffer into a value that holds the stream.
LEMMA BecomesHolds ==
    ASSUME NEW b, HoldsB(b, taken', written'), Becomes(b)
    PROVE  (TypeOK /\ StreamKept)'
<1>1. Holds(size', buffer_', readIndex_', writeIndex_', taken', written')
  BY DEF Becomes, HoldsB
<1>2. TypeOK'
  BY <1>1 DEF TypeOK, Holds
<1>3. StreamKept'
  <2>1. readableBytes' = written' - taken' /\ taken' <= written'
    <3>1. /\ writeIndex_' \in Int /\ readIndex_' \in Int /\ readIndex_' <= writeIndex_'
          /\ written' \in Int /\ taken' \in Int
          /\ writeIndex_' - readIndex_' = written' - taken'
      BY <1>1 DEF Holds
    <3> QED
      BY <3>1 DEF readableBytes
  <2>2. \A i \in 0..(size' - 1) :
            readIndex_' <= i /\ i < writeIndex_' => buffer_'[i] = taken' + 1 + (i - readIndex_')
    BY <1>1 DEF Holds
  <2> QED
    BY <2>1, <2>2 DEF StreamKept
<1> QED
  BY <1>2, <1>3

\* Every step of Buffer keeps the two invariants.
LEMMA StepHolds == TypeOK /\ StreamKept /\ [Next]_vars => (TypeOK /\ StreamKept)'
<1> SUFFICES ASSUME TypeOK /\ StreamKept, [Next]_vars
             PROVE  (TypeOK /\ StreamKept)'
  OBVIOUS
<1>0. HoldsB(This, taken, written)
  BY InvIsHolds
<1>1. ASSUME NEW len \in 0..MaxLen, WriteToBuffer(len)
      PROVE  (TypeOK /\ StreamKept)'
  <2>1. len \in Nat
    BY BoundAssumption
  <2>2. HoldsB(Written(This, written + 1, len), taken, written + len)
    BY <1>0, <2>1, WrittenHolds
  <2> QED
    BY <1>1, <2>2, BecomesHolds DEF WriteToBuffer
<1>2. ASSUME NEW len \in 0..MaxLen, ReadFd(len)
      PROVE  (TypeOK /\ StreamKept)'
  <2> DEFINE room == writeableBytes
  <2>1. len \in Nat /\ room \in Nat /\ This.size = size /\ This.w = writeIndex_
    BY BoundAssumption DEF TypeOK, writeableBytes, This
  <2>2. This.w + room <= This.size /\ (len <= room => This.w + len <= This.size)
    BY <2>1 DEF TypeOK, writeableBytes
  <2> HIDE DEF room
  <2>3. CASE len <= room
    <3>1. HoldsB(Put(This, written + 1, len), taken, written + len)
      BY <1>0, <2>1, <2>2, <2>3, PutHolds
    <3> QED
      BY <1>2, <2>3, <3>1, BecomesHolds DEF ReadFd, room
  <2>4. CASE ~(len <= room)
    <3> DEFINE b == Put(This, written + 1, room)
    <3>1. HoldsB(b, taken, written + room)
      BY <1>0, <2>1, <2>2, PutHolds
    <3>2. len - room \in Nat
      BY <2>1, <2>4
    <3>3. HoldsB(Written(b, (written + room) + 1, len - room), taken, (written + room) + (len - room))
      BY <3>1, <3>2, WrittenHolds
    <3>4. SpilledFrom(len) = (written + room) + 1 /\ (written + room) + (len - room) = written + len
      BY <2>1 DEF SpilledFrom, TypeOK, room
    <3>5. Becomes(Written(b, (written + room) + 1, len - room)) /\ written' = (written + room) + (len - room)
          /\ taken' = taken
      BY <1>2, <2>4, <3>4 DEF ReadFd, room
    <3> QED
      BY <3>3, <3>5, BecomesHolds
  <2> QED
    BY <2>3, <2>4
<1>3. ASSUME NEW len \in 0..readableBytes, Retrieve(len)
      PROVE  (TypeOK /\ StreamKept)'
  <2>1. CASE Emptied(len)
    BY <1>3, <2>1 DEF Retrieve, Emptied, readableBytes, TypeOK, StreamKept
  <2>2. CASE ~Emptied(len)
    BY <1>3, <2>2 DEF Retrieve, Emptied, readableBytes, TypeOK, StreamKept
  <2> QED
    BY <2>1, <2>2
<1>4. CASE UNCHANGED vars
  BY <1>4 DEF vars, TypeOK, StreamKept, readableBytes
<1> QED
  BY <1>1, <1>2, <1>3, <1>4 DEF Next

\* Buffer::Buffer makes an empty buffer.
LEMMA InitHolds == Init => TypeOK /\ StreamKept
  BY SizeAssumption DEF Init, TypeOK, StreamKept, readableBytes

\* The indices of a Buffer stay in order and inside its vector, whatever is
\* written, read and retrieved.
THEOREM TypeCorrect == Spec => []TypeOK
<1>1. Spec => [](TypeOK /\ StreamKept)
  BY InitHolds, StepHolds, PTL DEF Spec
<1> QED
  BY <1>1, PTL

\* A Buffer is a queue of bytes: what can be read is what was written and not
\* yet taken, in that order, through every move and growth of the vector.
THEOREM QueueOfBytes == Spec => []StreamKept
<1>1. Spec => [](TypeOK /\ StreamKept)
  BY InitHolds, StepHolds, PTL DEF Spec
<1> QED
  BY <1>1, PTL

\* The arithmetic of makeSpace: too little room, counted from the write index,
\* means that the contents and the new bytes do not fit, and the read index is
\* small.
LEMMA GrowthArithmetic ==
    ASSUME NEW s \in Nat, NEW w \in Nat, NEW r \in Nat, NEW len \in Nat,
           w <= s, r <= w, (s - w) + r < len
    PROVE  s < (w + len) - r /\ w + len < 2 * ((w + len) - r)
  OBVIOUS

\* writeToBuffer enlarges the vector only when the contents need it, and by
\* less than as much again.
LEMMA WrittenSize ==
    ASSUME NEW b, NEW lo, NEW hi, HoldsB(b, lo, hi), NEW first, NEW len \in Nat,
           Written(b, first, len).size # b.size
    PROVE  LET v == Written(b, first, len)
           IN b.size < v.w - v.r /\ v.size < 2 * (v.w - v.r)
<1>1. b.size - b.w < len
  BY DEF Written, Put
<1>2. Grows(b, len)
  BY <1>1 DEF Written, Put, MakeSpace, MoveToFront
<1>3. /\ Written(b, first, len).size = b.w + len
      /\ Written(b, first, len).w = b.w + len
      /\ Written(b, first, len).r = b.r
  BY <1>1, <1>2 DEF Written, Put, MakeSpace, Resize
<1>4. /\ b.size \in Nat /\ b.w \in Nat /\ b.r \in Nat
      /\ b.w <= b.size /\ b.r <= b.w /\ (b.size - b.w) + b.r < len
  BY <1>2 DEF HoldsB, Holds, Grows
<1>5. b.size < (b.w + len) - b.r /\ b.w + len < 2 * ((b.w + len) - b.r)
  BY <1>4, GrowthArithmetic
<1> QED
  BY <1>3, <1>5

\* The vector grows only when its contents would not fit into all of it, and
\* then to less than twice what they need.
THEOREM GrowsForNeed == Spec => NoWaste
<1> DEFINE Grow == size' # size => size < readableBytes' /\ size' < 2 * readableBytes'
<1>1. ASSUME TypeOK /\ StreamKept, [Next]_vars PROVE [Grow]_vars
  <2>0. HoldsB(This, taken, written) /\ This.size = size
    BY <1>1, InvIsHolds DEF This
  <2>1. ASSUME NEW len \in 0..MaxLen, WriteToBuffer(len), size' # size PROVE Grow
    <3>1. len \in Nat
      BY BoundAssumption
    <3> DEFINE v == Written(This, written + 1, len)
    <3>2. size' = v.size /\ readableBytes' = v.w - v.r
      BY <2>1 DEF WriteToBuffer, Becomes, readableBytes
    <3>3. size < v.w - v.r /\ v.size < 2 * (v.w - v.r)
      BY <2>0, <2>1, <3>1, <3>2, WrittenSize
    <3> QED
      BY <3>2, <3>3
  <2>2. ASSUME NEW len \in 0..MaxLen, ReadFd(len), size' # size PROVE Grow
    <3> DEFINE room == writeableBytes
               b == Put(This, written + 1, room)
               v == Written(b, SpilledFrom(len), len - room)
    <3>1. len \in Nat /\ room \in Nat /\ This.size = size /\ This.w = writeIndex_
      BY <1>1, BoundAssumption DEF TypeOK, writeableBytes, This
    <3>2. ~(len <= room)
      BY <2>2 DEF ReadFd, Becomes, Put, This
    <3>3. HoldsB(b, taken, written + room) /\ b.size = size
      <4>0. This.w + room <= This.size
        BY <1>1, <3>1 DEF writeableBytes, TypeOK
      <4>1. HoldsB(b, taken, written + room)
        BY <2>0, <3>1, <4>0, PutHolds
      <4> QED
        BY <4>1 DEF Put, This
    <3>4. size' = v.size /\ readableBytes' = v.w - v.r
      BY <2>2, <3>2 DEF ReadFd, Becomes, readableBytes
    <3>5. len - room \in Nat
      BY <3>1, <3>2
    <3>6. size < v.w - v.r /\ v.size < 2 * (v.w - v.r)
      BY <2>2, <3>3, <3>4, <3>5, WrittenSize
    <3> QED
      BY <3>4, <3>6
  <2>3. ASSUME NEW len \in 0..readableBytes, Retrieve(len) PROVE size' = size
    BY <2>3 DEF Retrieve
  <2> QED
    BY <1>1, <2>1, <2>2, <2>3 DEF Next, vars
<1>2. Spec => [](TypeOK /\ StreamKept)
  BY InitHolds, StepHolds, PTL DEF Spec
<1> QED
  BY <1>1, <1>2, PTL DEF Spec, NoWaste

-----------------------------------------------------------------------------
(* Bytes of a 32-bit field *)

\* Four bytes make a sequence of bytes.
LEMMA FourBytes ==
    ASSUME NEW a \in Byte, NEW b \in Byte, NEW c \in Byte, NEW d \in Byte
    PROVE  /\ <<a, b, c, d>> \in Seq(Byte) /\ Len(<<a, b, c, d>>) = 4
           /\ <<a, b, c, d>>[1] = a /\ <<a, b, c, d>>[2] = b
           /\ <<a, b, c, d>>[3] = c /\ <<a, b, c, d>>[4] = d
  BY SMT DEF Byte

\* The bound stays a name below.
LEMMA IntMax == INT32_MAX \in Nat
  BY SMT DEF INT32_MAX

\* The digits to the base 256 make up the number again; the first is below 128,
\* so that it is not taken for the sign.
LEMMA Digits ==
    ASSUME NEW x \in Nat, x <= INT32_MAX
    PROVE  /\ x \div 16777216 \in 0..127 /\ (x \div 65536) % 256 \in Byte
           /\ (x \div 256) % 256 \in Byte /\ x % 256 \in Byte
           /\ (((x \div 16777216) * 256 + ((x \div 65536) % 256)) * 256
                + ((x \div 256) % 256)) * 256 + (x % 256) = x
<1>1. x \in Nat /\ x <= 2147483647
  BY SMT DEF INT32_MAX
<1>2. x = 256 * (x \div 256) + (x % 256)
  BY <1>1, SMT
<1>3. x \div 256 = 256 * (x \div 65536) + ((x \div 256) % 256)
  BY <1>1, SMT
<1>4. x \div 65536 = 256 * (x \div 16777216) + ((x \div 65536) % 256)
  BY <1>1, SMT
<1>5. /\ x \div 16777216 \in 0..127 /\ (x \div 65536) % 256 \in Byte
      /\ (x \div 256) % 256 \in Byte /\ x % 256 \in Byte
      /\ x \div 65536 \in Nat /\ x \div 256 \in Nat
  BY <1>1, SMT DEF Byte
<1> QED
  BY <1>1, <1>2, <1>3, <1>4, <1>5, SMT DEF Byte

\* appendInt32 writes four bytes that make up the number.
LEMMA Int32Bytes ==
    ASSUME NEW x \in 0..INT32_MAX
    PROVE  /\ Int32(x) \in Seq(Byte) /\ Len(Int32(x)) = 4
           /\ Int32(x)[1] < 128
           /\ ((Int32(x)[1] * 256 + Int32(x)[2]) * 256 + Int32(x)[3]) * 256 + Int32(x)[4] = x
<1> DEFINE a == x \div 16777216
           b == (x \div 65536) % 256
           c == (x \div 256) % 256
           d == x % 256
<1>1. /\ a \in 0..127 /\ b \in Byte /\ c \in Byte /\ d \in Byte
      /\ ((a * 256 + b) * 256 + c) * 256 + d = x
  <2>1. x \in Nat /\ x <= INT32_MAX
    BY IntMax
  <2> QED
    BY <2>1, Digits, SMT
<1>2. Int32(x) = <<a, b, c, d>>
  BY SMT DEF Int32
<1> HIDE DEF a, b, c, d
<1>3. a \in Byte /\ a < 128
  BY <1>1, SMT DEF Byte
<1>4. /\ Int32(x) \in Seq(Byte) /\ Len(Int32(x)) = 4
      /\ Int32(x)[1] = a /\ Int32(x)[2] = b /\ Int32(x)[3] = c /\ Int32(x)[4] = d
  BY <1>1, <1>2, <1>3, FourBytes, SMT
<1> QED
  BY <1>1, <1>3, <1>4, SMT

\* be32toh reads back what appendInt32 wrote.
LEMMA Int32Read ==
    ASSUME NEW i \in Nat, NEW x \in 0..INT32_MAX,
           \A j \in 1..4 : inputbuffer_[i + j] = Int32(x)[j]
    PROVE  Int32At(i) = x
<1>1. /\ At(i) = Int32(x)[1] /\ At(i + 1) = Int32(x)[2]
      /\ At(i + 2) = Int32(x)[3] /\ At(i + 3) = Int32(x)[4]
  <2>1. /\ inputbuffer_[i + 1] = Int32(x)[1] /\ inputbuffer_[i + 2] = Int32(x)[2]
        /\ inputbuffer_[i + 3] = Int32(x)[3] /\ inputbuffer_[i + 4] = Int32(x)[4]
    OBVIOUS
  <2>2. (i + 1) + 1 = i + 2 /\ (i + 2) + 1 = i + 3 /\ (i + 3) + 1 = i + 4
    OBVIOUS
  <2> QED
    BY <2>1, <2>2, Zenon DEF At
<1> QED
  BY <1>1, Int32Bytes, SMT DEF Int32At

-----------------------------------------------------------------------------
(* The bytes of a packet *)

\* A packet whose length pk_len can hold.
Sendable == {p \in PacketType : PkLen(p) <= INT32_MAX}

\* Lengths and elements of a concatenation.
LEMMA CatBytes ==
    ASSUME NEW s \in Seq(Byte), NEW t \in Seq(Byte)
    PROVE  /\ s \o t \in Seq(Byte)
           /\ Len(s \o t) = Len(s) + Len(t)
           /\ Len(s) \in Nat /\ Len(t) \in Nat
           /\ \A i \in 1..Len(s) : (s \o t)[i] = s[i]
           /\ \A i \in 1..Len(t) : (s \o t)[Len(s) + i] = t[i]
<1>1. Len(s) \in Nat /\ Len(t) \in Nat
  BY LenProperties
<1>2. s \o t \in Seq(Byte) /\ Len(s \o t) = Len(s) + Len(t)
  BY ConcatProperties
<1>3. \A i \in 1..(Len(s) + Len(t)) :
        (s \o t)[i] = IF i <= Len(s) THEN s[i] ELSE t[i - Len(s)]
  BY ConcatProperties, <1>2
<1>4. ASSUME NEW i \in 1..Len(s) PROVE (s \o t)[i] = s[i]
  <2>1. i \in 1..(Len(s) + Len(t)) /\ i <= Len(s)
    BY <1>1
  <2> QED
    BY <1>3, <2>1, Zenon
<1>5. ASSUME NEW i \in 1..Len(t) PROVE (s \o t)[Len(s) + i] = t[i]
  <2>1. /\ Len(s) + i \in 1..(Len(s) + Len(t)) /\ ~(Len(s) + i <= Len(s))
        /\ (Len(s) + i) - Len(s) = i
    BY <1>1
  <2> QED
    BY <1>3, <2>1, Zenon
<1> QED
  BY <1>1, <1>2, <1>4, <1>5

\* A byte as a sequence.
LEMMA OneByte ==
    ASSUME NEW b \in Byte
    PROVE  <<b>> \in Seq(Byte) /\ Len(<<b>>) = 1 /\ <<b>>[1] = b
  OBVIOUS

\* A part is no longer than the whole.
LEMMA LengthFits ==
    ASSUME NEW a \in Nat, NEW b \in Nat, NEW c \in Nat, NEW k, k = 23 + a + b + c,
           k <= INT32_MAX
    PROVE  /\ k \in 0..INT32_MAX /\ 0 \in 0..INT32_MAX
           /\ a \in 0..INT32_MAX /\ b \in 0..INT32_MAX
  BY IntMax

\* The lengths of a packet's fields, and what they add up to.
LEMMA PacketFields ==
    ASSUME NEW p \in Sendable
    PROVE  /\ p.type \in Byte
           /\ p.id \in Seq(Byte) /\ p.name \in Seq(Byte) /\ p.data \in Seq(Byte)
           /\ p.error \in 0..INT32_MAX
           /\ Len(p.id) \in Nat /\ Len(p.name) \in Nat /\ Len(p.data) \in Nat
           /\ PkLen(p) = 23 + Len(p.id) + Len(p.name) + Len(p.data)
           /\ PkLen(p) \in 0..INT32_MAX
           /\ Len(p.id) \in 0..INT32_MAX /\ Len(p.name) \in 0..INT32_MAX
           /\ 0 \in 0..INT32_MAX
<1>1. /\ p.type \in Byte
      /\ p.id \in Seq(Byte) /\ p.name \in Seq(Byte) /\ p.data \in Seq(Byte)
      /\ p.error \in 0..INT32_MAX
      /\ PkLen(p) <= INT32_MAX
  BY DEF Sendable, PacketType
<1>2. Len(p.id) \in Nat /\ Len(p.name) \in Nat /\ Len(p.data) \in Nat
  BY <1>1, LenProperties
<1>3. PkLen(p) = 23 + Len(p.id) + Len(p.name) + Len(p.data)
  BY <1>2 DEF PkLen
<1>4. /\ PkLen(p) \in 0..INT32_MAX /\ 0 \in 0..INT32_MAX
      /\ Len(p.id) \in 0..INT32_MAX /\ Len(p.name) \in 0..INT32_MAX
  BY <1>1, <1>2, <1>3, LengthFits, Zenon
<1> QED
  BY <1>1, <1>2, <1>3, <1>4, Zenon

\* A sequence of n bytes.
Bytes(s, n) == s \in Seq(Byte) /\ n \in Nat /\ Len(s) = n

\* r is s and then t.
Joins(r, s, n, t, m) ==
    /\ Bytes(r, n + m)
    /\ \A i \in 1..n : r[i] = s[i]
    /\ \A i \in 1..m : r[n + i] = t[i]

\* A concatenation of known lengths is a join.
LEMMA CatAt ==
    ASSUME NEW s, NEW n, Bytes(s, n), NEW t, NEW m, Bytes(t, m)
    PROVE  Joins(s \o t, s, n, t, m)
<1>1. s \in Seq(Byte) /\ t \in Seq(Byte) /\ Len(s) = n /\ Len(t) = m /\ n \in Nat /\ m \in Nat
  BY Zenon DEF Bytes
<1>2. n + m \in Nat
  BY <1>1
<1>3. /\ s \o t \in Seq(Byte)
      /\ Len(s \o t) = Len(s) + Len(t)
      /\ \A i \in 1..Len(s) : (s \o t)[i] = s[i]
      /\ \A i \in 1..Len(t) : (s \o t)[Len(s) + i] = t[i]
  BY <1>1, CatBytes, Zenon
<1> QED
  BY <1>1, <1>2, <1>3, Zenon DEF Bytes, Joins

\* The first n bytes of E are s; t is found after them.
Begins(E, s, n) == \A i \in 1..n : E[i] = s[i]
Has(E, n, t, m) == \A i \in 1..m : E[n + i] = t[i]

\* What begins with r begins with s and goes on with t.
LEMMA PrefixJoined ==
    ASSUME NEW E, NEW r, NEW s, NEW n, NEW t, NEW m, Bytes(s, n), Bytes(t, m),
           Joins(r, s, n, t, m), Begins(E, r, n + m)
    PROVE  Begins(E, s, n) /\ Has(E, n, t, m)
<1>1. n \in Nat /\ m \in Nat
  BY Zenon DEF Bytes
<1>2. ASSUME NEW i \in 1..n
      PROVE  E[i] = s[i]
  <2>1. i \in 1..(n + m)
    BY <1>1
  <2> QED
    BY <2>1, Zenon DEF Begins, Joins
<1>3. ASSUME NEW i \in 1..m
      PROVE  E[n + i] = t[i]
  <2>1. n + i \in 1..(n + m)
    BY <1>1
  <2> QED
    BY <2>1, Zenon DEF Begins, Joins
<1> QED
  BY <1>2, <1>3, Zenon DEF Begins, Has

\* Where encode puts the fields of a packet.
EncodedAs(E, p) ==
    LET id == Len(p.id)
        name == Len(p.name)
        data == Len(p.data)
    IN /\ Bytes(E, 23 + id + name + data)
       /\ Has(E, 0, <<PB_START>>, 1)
       /\ Has(E, 1, Int32(PkLen(p)), 4)
       /\ Has(E, 5, <<p.type>>, 1)
       /\ Has(E, 6, Int32(id), 4)
       /\ Has(E, 10, p.id, id)
       /\ Has(E, 10 + id, Int32(name), 4)
       /\ Has(E, 14 + id, p.name, name)
       /\ Has(E, 14 + id + name, Int32(p.error), 4)
       /\ Has(E, 18 + id + name, p.data, data)
       /\ Has(E, 22 + id + name + data, <<PB_END>>, 1)

\* The pieces that encode writes one after the other, w1 to w5 being the fields
\* of four bytes.
LEMMA Pieces ==
    ASSUME NEW first, Bytes(first, 1), NEW type, Bytes(type, 1), NEW last, Bytes(last, 1),
           NEW a, NEW id, Bytes(id, a), NEW b, NEW name, Bytes(name, b),
           NEW c, NEW data, Bytes(data, c),
           NEW w1, Bytes(w1, 4), NEW w2, Bytes(w2, 4), NEW w3, Bytes(w3, 4),
           NEW w4, Bytes(w4, 4), NEW w5, Bytes(w5, 4),
           NEW E,
           E = first \o w1 \o type \o w2 \o id \o w3 \o name \o w4 \o data \o w5 \o last
    PROVE  /\ Bytes(E, 23 + a + b + c)
           /\ Has(E, 0, first, 1)
           /\ Has(E, 1, w1, 4)
           /\ Has(E, 5, type, 1)
           /\ Has(E, 6, w2, 4)
           /\ Has(E, 10, id, a)
           /\ Has(E, 10 + a, w3, 4)
           /\ Has(E, 14 + a, name, b)
           /\ Has(E, 14 + a + b, w4, 4)
           /\ Has(E, 18 + a + b, data, c)
           /\ Has(E, 22 + a + b + c, last, 1)
<1> DEFINE e2 == first \o w1
           e3 == e2 \o type
           e4 == e3 \o w2
           e5 == e4 \o id
           e6 == e5 \o w3
           e7 == e6 \o name
           e8 == e7 \o w4
           e9 == e8 \o data
           e10 == e9 \o w5
           e11 == e10 \o last
           l1 == 1
           l2 == l1 + 4
           l3 == l2 + 1
           l4 == l3 + 4
           l5 == l4 + a
           l6 == l5 + 4
           l7 == l6 + b
           l8 == l7 + 4
           l9 == l8 + c
           l10 == l9 + 4
           l11 == l10 + 1
<1>0. E = e11
  BY Zenon
<1>1. Bytes(first, l1)
  BY Zenon
<1> HIDE DEF l1
<1>2. Joins(e2, first, l1, w1, 4) /\ Bytes(e2, l2)
  <2>1. Joins(e2, first, l1, w1, 4)
    BY <1>1, CatAt, Zenon
  <2> QED
    BY <2>1, Zenon DEF Joins
<1> HIDE DEF e2, l2
<1>3. Joins(e3, e2, l2, type, 1) /\ Bytes(e3, l3)
  <2>1. Joins(e3, e2, l2, type, 1)
    BY <1>2, CatAt, Zenon
  <2> QED
    BY <2>1, Zenon DEF Joins
<1> HIDE DEF e3, l3
<1>4. Joins(e4, e3, l3, w2, 4) /\ Bytes(e4, l4)
  <2>1. Joins(e4, e3, l3, w2, 4)
    BY <1>3, CatAt, Zenon
  <2> QED
    BY <2>1, Zenon DEF Joins
<1> HIDE DEF e4, l4
<1>5. Joins(e5, e4, l4, id, a) /\ Bytes(e5, l5)
  <2>1. Joins(e5, e4, l4, id, a)
    BY <1>4, CatAt, Zenon
  <2> QED
    BY <2>1, Zenon DEF Joins
<1> HIDE DEF e5, l5
<1>6. Joins(e6, e5, l5, w3, 4) /\ Bytes(e6, l6)
  <2>1. Joins(e6, e5, l5, w3, 4)
    BY <1>5, CatAt, Zenon
  <2> QED
    BY <2>1, Zenon DEF Joins
<1> HIDE DEF e6, l6
<1>7. Joins(e7, e6, l6, name, b) /\ Bytes(e7, l7)
  <2>1. Joins(e7, e6, l6, name, b)
    BY <1>6, CatAt, Zenon
  <2> QED
    BY <2>1, Zenon DEF Joins
<1> HIDE DEF e7, l7
<1>8. Joins(e8, e7, l7, w4, 4) /\ Bytes(e8, l8)
  <2>1. Joins(e8, e7, l7, w4, 4)
    BY <1>7, CatAt, Zenon
  <2> QED
    BY <2>1, Zenon DEF Joins
<1> HIDE DEF e8, l8
<1>9. Joins(e9, e8, l8, data, c) /\ Bytes(e9, l9)
  <2>1. Joins(e9, e8, l8, data, c)
    BY <1>8, CatAt, Zenon
  <2> QED
    BY <2>1, Zenon DEF Joins
<1> HIDE DEF e9, l9
<1>10. Joins(e10, e9, l9, w5, 4) /\ Bytes(e10, l10)
  <2>1. Joins(e10, e9, l9, w5, 4)
    BY <1>9, CatAt, Zenon
  <2> QED
    BY <2>1, Zenon DEF Joins
<1> HIDE DEF e10, l10
<1>11. Joins(e11, e10, l10, last, 1) /\ Bytes(e11, l11)
  <2>1. Joins(e11, e10, l10, last, 1)
    BY <1>10, CatAt, Zenon
  <2> QED
    BY <2>1, Zenon DEF Joins
<1> HIDE DEF e11, l11
<1>12. Begins(E, e11, l11)
  BY <1>0, Zenon DEF Begins
<1>13. Begins(E, e10, l10) /\ Has(E, l10, last, 1)
  BY <1>12, <1>11, <1>10, PrefixJoined, Zenon DEF l11
<1>14. Begins(E, e9, l9) /\ Has(E, l9, w5, 4)
  BY <1>13, <1>10, <1>9, PrefixJoined, Zenon DEF l10
<1>15. Begins(E, e8, l8) /\ Has(E, l8, data, c)
  BY <1>14, <1>9, <1>8, PrefixJoined, Zenon DEF l9
<1>16. Begins(E, e7, l7) /\ Has(E, l7, w4, 4)
  BY <1>15, <1>8, <1>7, PrefixJoined, Zenon DEF l8
<1>17. Begins(E, e6, l6) /\ Has(E, l6, name, b)
  BY <1>16, <1>7, <1>6, PrefixJoined, Zenon DEF l7
<1>18. Begins(E, e5, l5) /\ Has(E, l5, w3, 4)
  BY <1>17, <1>6, <1>5, PrefixJoined, Zenon DEF l6
<1>19. Begins(E, e4, l4) /\ Has(E, l4, id, a)
  BY <1>18, <1>5, <1>4, PrefixJoined, Zenon DEF l5
<1>20. Begins(E, e3, l3) /\ Has(E, l3, w2, 4)
  BY <1>19, <1>4, <1>3, PrefixJoined, Zenon DEF l4
<1>21. Begins(E, e2, l2) /\ Has(E, l2, type, 1)
  BY <1>20, <1>3, <1>2, PrefixJoined, Zenon DEF l3
<1>22. Begins(E, first, l1) /\ Has(E, l1, w1, 4)
  BY <1>21, <1>2, <1>1, PrefixJoined, Zenon DEF l2
<1>23. a \in Nat /\ b \in Nat /\ c \in Nat
  BY Zenon DEF Bytes
<1>24. /\ l1 = 1
       /\ l2 = 5
       /\ l3 = 6
       /\ l4 = 10
       /\ l5 = 10 + a
       /\ l6 = 14 + a
       /\ l7 = 14 + a + b
       /\ l8 = 18 + a + b
       /\ l9 = 18 + a + b + c
       /\ l10 = 22 + a + b + c
       /\ l11 = 23 + a + b + c
  BY <1>23 DEF l1, l2, l3, l4, l5, l6, l7, l8, l9, l10, l11
<1>25. Has(E, 0, first, 1)
  <2>1. \A i \in 1..1 : 0 + i = i
    OBVIOUS
  <2> QED
    BY <1>22, <1>24, <2>1, Zenon DEF Begins, Has
<1>26. Bytes(E, 23 + a + b + c)
  BY <1>0, <1>11, <1>24, Zenon
<1> QED
  BY <1>13, <1>15, <1>16, <1>17, <1>18, <1>19, <1>20, <1>21, <1>22, <1>24, <1>25, <1>26, Zenon

\* A 32-bit field takes four bytes.
LEMMA FieldBytes ==
    ASSUME NEW x \in 0..INT32_MAX
    PROVE  Bytes(Int32(x), 4)
<1>1. Int32(x) \in Seq(Byte) /\ Len(Int32(x)) = 4
  BY Int32Bytes, Zenon
<1>2. 4 \in Nat
  OBVIOUS
<1> QED
  BY <1>1, <1>2, Zenon DEF Bytes

\* Each field of a packet is at its place in what encode writes.
LEMMA EncodedBytes ==
    ASSUME NEW p \in Sendable
    PROVE  EncodedAs(Encoded(p), p)
<1> DEFINE id == Len(p.id)
           name == Len(p.name)
           data == Len(p.data)
           first == <<PB_START>>
           type == <<p.type>>
           last == <<PB_END>>
           w1 == Int32(PkLen(p))
           w2 == Int32(id)
           w3 == Int32(name)
           w4 == Int32(p.error)
           w5 == Int32(0)
<1>1. Bytes(p.id, id) /\ Bytes(p.name, name) /\ Bytes(p.data, data)
  BY PacketFields, Zenon DEF Bytes
<1>2. /\ PkLen(p) \in 0..INT32_MAX /\ id \in 0..INT32_MAX /\ name \in 0..INT32_MAX
      /\ p.error \in 0..INT32_MAX /\ 0 \in 0..INT32_MAX
  BY PacketFields, Zenon
<1>3. 1 \in Nat
  OBVIOUS
<1>4. Bytes(w1, 4) /\ Bytes(w2, 4) /\ Bytes(w3, 4) /\ Bytes(w4, 4) /\ Bytes(w5, 4)
  <2>1. Bytes(w1, 4)
    BY <1>2, FieldBytes, Zenon
  <2>2. Bytes(w2, 4)
    BY <1>2, FieldBytes, Zenon
  <2>3. Bytes(w3, 4)
    BY <1>2, FieldBytes, Zenon
  <2>4. Bytes(w4, 4)
    BY <1>2, FieldBytes, Zenon
  <2>5. Bytes(w5, 4)
    BY <1>2, FieldBytes, Zenon
  <2> QED
    BY <2>1, <2>2, <2>3, <2>4, <2>5, Zenon
<1>5. PB_START \in Byte /\ PB_END \in Byte /\ p.type \in Byte
  <2>1. PB_START \in Byte /\ PB_END \in Byte
    BY DEF PB_START, PB_END, Byte
  <2> QED
    BY <2>1, PacketFields, Zenon
<1>6. Bytes(first, 1) /\ Bytes(last, 1) /\ Bytes(type, 1)
  BY <1>3, <1>5, OneByte, Zenon DEF Bytes
<1>7. Encoded(p) = first \o w1 \o type \o w2 \o p.id \o w3 \o p.name \o w4 \o p.data \o w5 \o last
  BY Zenon DEF Encoded
<1> HIDE DEF id, name, data, first, type, last, w1, w2, w3, w4, w5
<1>8. /\ Bytes(Encoded(p), 23 + id + name + data)
      /\ Has(Encoded(p), 0, first, 1)
      /\ Has(Encoded(p), 1, w1, 4)
      /\ Has(Encoded(p), 5, type, 1)
      /\ Has(Encoded(p), 6, w2, 4)
      /\ Has(Encoded(p), 10, p.id, id)
      /\ Has(Encoded(p), 10 + id, w3, 4)
      /\ Has(Encoded(p), 14 + id, p.name, name)
      /\ Has(Encoded(p), 14 + id + name, w4, 4)
      /\ Has(Encoded(p), 18 + id + name, p.data, data)
      /\ Has(Encoded(p), 22 + id + name + data, last, 1)
  BY <1>1, <1>4, <1>6, <1>7, Pieces, ZenonT(60)
<1> QED
  BY <1>8, Zenon DEF EncodedAs, id, name, data, first, type, last, w1, w2, w3, w4, w5

-----------------------------------------------------------------------------
(* Reading a packet *)

\* The packet p is found in T after the first s bytes.
PacketAt(T, s, p) == Has(T, s, Encoded(p), PkLen(p))

\* What is found in the packet is found in T.
LEMMA FieldAt ==
    ASSUME NEW T, NEW s \in Nat, NEW E, NEW l \in Nat, Has(T, s, E, l),
           NEW n \in Nat, NEW m \in Nat, n + m <= l, NEW t, Has(E, n, t, m)
    PROVE  Has(T, s + n, t, m)
<1>1. ASSUME NEW i \in 1..m
      PROVE  T[(s + n) + i] = t[i]
  <2>1. n + i \in 1..l /\ (s + n) + i = s + (n + i)
    OBVIOUS
  <2> QED
    BY <2>1, Zenon DEF Has
<1> QED
  BY <1>1, Zenon DEF Has

\* Reading back a field of four bytes.
LEMMA ReadInt32 ==
    ASSUME NEW i \in Nat, NEW x \in 0..INT32_MAX, Has(inputbuffer_, i, Int32(x), 4)
    PROVE  Int32At(i) = x
  BY Int32Read, Zenon DEF Has

\* Reading back a single byte.
LEMMA ReadByte ==
    ASSUME NEW i \in Nat, NEW x, Has(inputbuffer_, i, <<x>>, 1)
    PROVE  At(i) = x
  BY DEF Has, At

\* The bytes of T after the first m, up to number n.
LEMMA Cut ==
    ASSUME NEW T \in Seq(Byte), NEW m \in Nat, NEW n \in Nat, m <= n, n <= Len(T)
    PROVE  /\ SubSeq(T, m + 1, n) \in Seq(Byte)
           /\ Len(SubSeq(T, m + 1, n)) = n - m
           /\ \A j \in 1..(n - m) : SubSeq(T, m + 1, n)[j] = T[m + j]
<1>0. Len(T) \in Nat
  BY LenProperties
<1> DEFINE k == m + 1
<1>1. \A j \in k..n : T[j] \in Byte
  <2>1. \A j \in 1..Len(T) : T[j] \in Byte
    BY ElementOfSeq, Zenon
  <2>2. \A j \in k..n : j \in 1..Len(T)
    BY <1>0
  <2> QED
    BY <2>1, <2>2, Zenon
<1>2. k \in Int /\ n \in Int
  OBVIOUS
<1>3. \A j \in 1..(n - m) : n - k + 1 = n - m /\ k + j - 1 = m + j
  OBVIOUS
<1>4. (IF k <= n THEN n - k + 1 ELSE 0) = n - m /\ n - k + 1 = n - m
  OBVIOUS
<1> HIDE DEF k
<1>5. SubSeq(T, k, n) \in Seq(Byte)
  BY <1>1, <1>2, SubSeqProperties, ZenonT(60)
<1>6. Len(SubSeq(T, k, n)) = IF k <= n THEN n - k + 1 ELSE 0
  BY <1>1, <1>2, SubSeqProperties, ZenonT(60)
<1>7. \A j \in 1..(n - k + 1) : SubSeq(T, k, n)[j] = T[k + j - 1]
  BY <1>1, <1>2, SubSeqProperties, SMTT(30)
<1>8. \A j \in 1..(n - m) : SubSeq(T, k, n)[j] = T[m + j]
  BY <1>3, <1>4, <1>7, Zenon
<1>9. Len(SubSeq(T, k, n)) = n - m
  BY <1>4, <1>6, Zenon
<1> QED
  BY <1>5, <1>8, <1>9, Zenon DEF k

\* Reading back a field of bytes.
LEMMA ReadSlice ==
    ASSUME inputbuffer_ \in Seq(Byte), NEW i \in Nat, NEW t, NEW m, Bytes(t, m),
           i + m <= Len(inputbuffer_), Has(inputbuffer_, i, t, m)
    PROVE  Slice(i, m) = t
<1>0. t \in Seq(Byte) /\ m \in Nat /\ Len(t) = m
  BY Zenon DEF Bytes
<1> DEFINE u == SubSeq(inputbuffer_, i + 1, i + m)
<1>1. i + m \in Nat /\ i <= i + m /\ (i + m) - i = m
  BY <1>0
<1>2. u \in Seq(Byte) /\ Len(u) = m /\ \A j \in 1..m : u[j] = inputbuffer_[i + j]
  <2>1. u \in Seq(Byte) /\ Len(u) = (i + m) - i /\ \A j \in 1..((i + m) - i) : u[j] = inputbuffer_[i + j]
    BY <1>1, Cut, Zenon
  <2> QED
    BY <1>1, <2>1, Zenon
<1> HIDE DEF u
<1>3. \A j \in 1..m : u[j] = t[j]
  BY <1>2, Zenon DEF Has
<1>4. u = t
  BY <1>0, <1>2, <1>3, SeqEqual, Zenon
<1> QED
  BY <1>4, Zenon DEF Slice, u

\* Parsing a packet that encode made gives that packet.
LEMMA ParsedPacket ==
    ASSUME inputbuffer_ \in Seq(Byte), NEW p \in Sendable, NEW s \in Nat,
           s + PkLen(p) <= Len(inputbuffer_), PacketAt(inputbuffer_, s, p),
           NEW end, end = s + PkLen(p) - 1
    PROVE  Parsed(s, end) = [pkg |-> p, parse_success |-> TRUE]
<1> DEFINE a == Len(p.id)
           b == Len(p.name)
           c == Len(p.data)
           L == PkLen(p)
           M == Len(inputbuffer_)
<1>1. /\ p.type \in Byte /\ p.error \in 0..INT32_MAX
      /\ a \in Nat /\ b \in Nat /\ c \in Nat
      /\ L = 23 + a + b + c
      /\ L \in 0..INT32_MAX /\ a \in 0..INT32_MAX /\ b \in 0..INT32_MAX
      /\ Bytes(p.id, a) /\ Bytes(p.name, b) /\ Bytes(p.data, c)
  BY PacketFields, Zenon DEF Bytes
<1>2. EncodedAs(Encoded(p), p)
  BY EncodedBytes
<1> DEFINE E == Encoded(p)
<1>3. /\ Has(E, 1, Int32(L), 4)
      /\ Has(E, 5, <<p.type>>, 1)
      /\ Has(E, 6, Int32(a), 4)
      /\ Has(E, 10, p.id, a)
      /\ Has(E, 10 + a, Int32(b), 4)
      /\ Has(E, 14 + a, p.name, b)
      /\ Has(E, 14 + a + b, Int32(p.error), 4)
      /\ Has(E, 18 + a + b, p.data, c)
  BY <1>2, Zenon DEF EncodedAs
<1>4. Has(inputbuffer_, s, E, L) /\ M \in Nat /\ s + L <= M
  BY LenProperties, Zenon DEF PacketAt
<1> HIDE DEF a, b, c, L, M, E
<1>5. /\ L \in Nat /\ 1 \in Nat /\ 4 \in Nat /\ 5 \in Nat /\ 6 \in Nat /\ 10 \in Nat
      /\ 10 + a \in Nat /\ 14 + a \in Nat /\ 14 + a + b \in Nat /\ 18 + a + b \in Nat
      /\ 1 + 4 <= L /\ 5 + 1 <= L /\ 6 + 4 <= L /\ 10 + a <= L /\ (10 + a) + 4 <= L
      /\ (14 + a) + b <= L /\ (14 + a + b) + 4 <= L /\ (18 + a + b) + c <= L
  BY <1>1
<1>6. /\ Has(inputbuffer_, s + 1, Int32(L), 4)
      /\ Has(inputbuffer_, s + 5, <<p.type>>, 1)
      /\ Has(inputbuffer_, s + 6, Int32(a), 4)
      /\ Has(inputbuffer_, s + 10, p.id, a)
      /\ Has(inputbuffer_, s + (10 + a), Int32(b), 4)
      /\ Has(inputbuffer_, s + (14 + a), p.name, b)
      /\ Has(inputbuffer_, s + (14 + a + b), Int32(p.error), 4)
      /\ Has(inputbuffer_, s + (18 + a + b), p.data, c)
  BY <1>1, <1>3, <1>4, <1>5, FieldAt
<1>7. /\ s + 1 \in Nat /\ s + 5 \in Nat /\ s + 6 \in Nat /\ s + 10 \in Nat
      /\ s + (10 + a) \in Nat /\ s + (14 + a) \in Nat /\ s + (14 + a + b) \in Nat
      /\ s + (18 + a + b) \in Nat
      /\ (s + 10) + a <= M /\ (s + (14 + a)) + b <= M /\ (s + (18 + a + b)) + c <= M
  <2>1. a \in Nat /\ b \in Nat /\ c \in Nat /\ L = 23 + a + b + c
    BY <1>1, Zenon
  <2>2. M \in Nat /\ s + L <= M
    BY <1>4, Zenon
  <2> QED
    BY <2>1, <2>2, SMT
<1>8. /\ Int32At(s + 1) = L
      /\ At(s + 5) = p.type
      /\ Int32At(s + 6) = a
      /\ Slice(s + 10, a) = p.id
      /\ Int32At(s + (10 + a)) = b
      /\ Slice(s + (14 + a), b) = p.name
      /\ Int32At(s + (14 + a + b)) = p.error
      /\ Slice(s + (18 + a + b), c) = p.data
  <2>1. Int32At(s + 1) = L /\ Int32At(s + 6) = a
    BY <1>1, <1>6, <1>7, ReadInt32, Zenon
  <2>2. Int32At(s + (10 + a)) = b /\ Int32At(s + (14 + a + b)) = p.error
    BY <1>1, <1>6, <1>7, ReadInt32, Zenon
  <2>3. At(s + 5) = p.type
    BY <1>6, <1>7, ReadByte, Zenon
  <2>4. Slice(s + 10, a) = p.id
    <3>1. /\ s + 10 \in Nat /\ Bytes(p.id, a) /\ (s + 10) + a <= Len(inputbuffer_)
          /\ Has(inputbuffer_, s + 10, p.id, a)
      BY <1>1, <1>6, <1>7, Zenon DEF M
    <3> QED
      BY <3>1, ReadSlice, ZenonT(60)
  <2>5. Slice(s + (14 + a), b) = p.name
    <3>1. /\ s + (14 + a) \in Nat /\ Bytes(p.name, b) /\ (s + (14 + a)) + b <= Len(inputbuffer_)
          /\ Has(inputbuffer_, s + (14 + a), p.name, b)
      BY <1>1, <1>6, <1>7, Zenon DEF M
    <3> QED
      BY <3>1, ReadSlice, ZenonT(60)
  <2>6. Slice(s + (18 + a + b), c) = p.data
    <3>1. /\ s + (18 + a + b) \in Nat /\ Bytes(p.data, c) /\ (s + (18 + a + b)) + c <= Len(inputbuffer_)
          /\ Has(inputbuffer_, s + (18 + a + b), p.data, c)
      BY <1>1, <1>6, <1>7, Zenon DEF M
    <3> QED
      BY <3>1, ReadSlice, ZenonT(60)
  <2> QED
    BY <2>1, <2>2, <2>3, <2>4, <2>5, <2>6, Zenon
<1>9. end = s + 22 + a + b + c
  <2>1. a \in Nat /\ b \in Nat /\ c \in Nat /\ L = 23 + a + b + c /\ end = s + L - 1
    BY <1>1, Zenon DEF L
  <2> QED
    BY <2>1, SMT
<1> DEFINE type == s + 1 + 4 + 1
           idlen == type + 4
           idn  == IF idlen < end THEN Int32At(type) ELSE 0
           id   == idlen + idn
           namelen == id + 4
           namen == IF namelen < end THEN Int32At(id) ELSE 0
           name == namelen + namen
           error == name + 4
           datan == Int32At(s + 1) - idn - namen - 4 * 5 - 3
           data == error + datan
           check == data + 4
<1>10. Parsed(s, end) =
        [pkg |-> [type  |-> IF type < end THEN At(type - 1) ELSE 0,
                  id    |-> IF id < end THEN Slice(idlen, idn) ELSE <<>>,
                  name  |-> IF name < end THEN Slice(namelen, namen) ELSE <<>>,
                  error |-> IF error < end THEN Int32At(name) ELSE 0,
                  data  |-> IF data < end THEN Slice(error, datan) ELSE <<>>],
         parse_success |->
            /\ type < end /\ idlen < end /\ id < end /\ namelen < end
            /\ name < end /\ error < end /\ data < end /\ check <= end]
  BY Zenon DEF Parsed, TypeIndex
<1>n. a \in Nat /\ b \in Nat /\ c \in Nat /\ L = 23 + a + b + c
  BY <1>1, Zenon
<1>11. type = s + 6 /\ type - 1 = s + 5 /\ type < end /\ idlen = s + 10 /\ idlen < end
  BY <1>n, <1>9, SMT
<1>12. idn = a
  BY <1>8, <1>11, Zenon
<1> HIDE DEF type, idlen, idn
<1>13. id = s + (10 + a) /\ id < end /\ namelen = s + (14 + a) /\ namelen < end
  BY <1>n, <1>9, <1>11, <1>12, SMT
<1>14. namen = b
  BY <1>8, <1>13, Zenon
<1> HIDE DEF id, namelen, namen
<1>15. /\ name = s + (14 + a + b) /\ name < end
       /\ error = s + (18 + a + b) /\ error < end
  BY <1>n, <1>9, <1>13, <1>14, SMT
<1>16. datan = c
  <2>1. Int32At(s + 1) = 23 + a + b + c
    BY <1>8, <1>n, Zenon
  <2> QED
    BY <1>n, <2>1, <1>12, <1>14, SMT
<1> HIDE DEF name, error, datan
<1>17. data < end /\ check <= end
  BY <1>n, <1>9, <1>15, <1>16, SMT
<1> HIDE DEF data, check
<1>18. Parsed(s, end) =
        [pkg |-> [type |-> At(s + 5), id |-> Slice(s + 10, a),
                  name |-> Slice(s + (14 + a), b), error |-> Int32At(s + (14 + a + b)),
                  data |-> Slice(s + (18 + a + b), c)],
         parse_success |-> TRUE]
  <2>1. (/\ type < end /\ idlen < end /\ id < end /\ namelen < end
         /\ name < end /\ error < end /\ data < end /\ check <= end) = TRUE
    BY <1>11, <1>13, <1>15, <1>17, Zenon
  <2> QED
    BY <1>10, <1>11, <1>12, <1>13, <1>14, <1>15, <1>16, <1>17, <2>1, Zenon
<1>19. p = [type |-> p.type, id |-> p.id, name |-> p.name, error |-> p.error, data |-> p.data]
  BY DEF Sendable, PacketType
<1> QED
  BY <1>8, <1>18, <1>19, Zenon

-----------------------------------------------------------------------------
(* The packets under way *)

\* T, of length l, is a stream with the packets k + 1 to n of S: packet i begins
\* after the first at[i] bytes, the packets do not overlap and come in their
\* order, and a start byte outside of them there is none.
Laid(T, l, S, n, k, at) ==
    /\ at \in [(k + 1)..n -> 0..l]
    /\ \A i \in (k + 1)..n : PacketAt(T, at[i], S[i]) /\ at[i] + PkLen(S[i]) <= l
    /\ \A i, j \in (k + 1)..n : i < j => at[i] + PkLen(S[i]) <= at[j]
    /\ \A x \in 1..l : T[x] = PB_START =>
        \E i \in (k + 1)..n : at[i] < x /\ x <= at[i] + PkLen(S[i])

\* Outside of decode, the b bytes in the buffer are none or the first of packet
\* number k + 1, and not all of it.
Between(reading, b, S, n, k, at) ==
    reading => b = 0 \/ (k + 1 <= n /\ at[k + 1] = 0 /\ b < PkLen(S[k + 1]))

CoderTypes ==
    /\ sent \in Seq(Sendable)
    /\ stream \in Seq(Byte) /\ inputbuffer_ \in Seq(Byte)
    /\ out_messages \in Seq([pkg : PacketType, parse_success : BOOLEAN])
    /\ pc \in {"read", "decode"}
    /\ noise \in 0..MaxNoise

IdTyped == t_msg_id_no = <<>> \/ t_msg_id_no \in Ids

\* What has been decoded.
Delivered ==
    /\ Len(out_messages) <= Len(sent)
    /\ \A i \in 1..Len(out_messages) : out_messages[i] = [pkg |-> sent[i], parse_success |-> TRUE]

\* What has not.
Pending ==
    LET T == inputbuffer_ \o stream
        n == Len(sent)
        k == Len(out_messages)
    IN \E at \in [(k + 1)..n -> 0..Len(T)] :
        /\ Laid(T, Len(T), sent, n, k, at)
        /\ Between(pc = "read", WriteIndex, sent, n, k, at)

CoderInv == CoderTypes /\ IdTyped /\ Delivered /\ Pending

\* S has the packets 1 to n.
Sent(S, n) == n \in Nat /\ \A i \in 1..n : S[i] \in Sendable

\* No packet is shorter than its fixed fields.
LEMMA PacketLength ==
    ASSUME NEW p \in Sendable
    PROVE  PkLen(p) \in Nat /\ PkLen(p) >= 23
<1> DEFINE a == Len(p.id)
           b == Len(p.name)
           c == Len(p.data)
<1>1. a \in Nat /\ b \in Nat /\ c \in Nat /\ PkLen(p) = 23 + a + b + c
  BY PacketFields, Zenon
<1> HIDE DEF a, b, c
<1> QED
  BY <1>1, SMT

\* A packet that is found elsewhere too.
LEMMA PacketMoved ==
    ASSUME NEW T, NEW s, NEW p, PacketAt(T, s, p), NEW U, NEW r,
           \A x \in 1..PkLen(p) : U[r + x] = T[s + x]
    PROVE  PacketAt(U, r, p)
  BY Zenon DEF PacketAt, Has

\* Bytes without a start byte come after the stream.
LEMMA LaidNoise ==
    ASSUME NEW T, NEW l \in Nat, NEW S, NEW n, Sent(S, n), NEW k \in 0..n, NEW at,
           Laid(T, l, S, n, k, at),
           NEW U, NEW t, NEW m \in Nat, Joins(U, T, l, t, m),
           \A i \in 1..m : t[i] # PB_START
    PROVE  Laid(U, l + m, S, n, k, at)
<1>0. n \in Nat /\ \A i \in (k + 1)..n : S[i] \in Sendable /\ PkLen(S[i]) \in Nat
  BY PacketLength DEF Sent
<1>1. /\ at \in [(k + 1)..n -> 0..l]
      /\ \A i \in (k + 1)..n : PacketAt(T, at[i], S[i]) /\ at[i] + PkLen(S[i]) <= l
      /\ \A i, j \in (k + 1)..n : i < j => at[i] + PkLen(S[i]) <= at[j]
      /\ \A x \in 1..l : T[x] = PB_START =>
            \E i \in (k + 1)..n : at[i] < x /\ x <= at[i] + PkLen(S[i])
  BY Zenon DEF Laid
<1>2. (\A i \in 1..l : U[i] = T[i]) /\ (\A i \in 1..m : U[l + i] = t[i])
  BY Zenon DEF Joins
<1>3. at \in [(k + 1)..n -> 0..(l + m)]
  BY <1>1
<1>4. ASSUME NEW i \in (k + 1)..n
      PROVE  PacketAt(U, at[i], S[i]) /\ at[i] + PkLen(S[i]) <= l + m
  <2>1. at[i] \in Nat /\ at[i] + PkLen(S[i]) <= l /\ PkLen(S[i]) \in Nat
    BY <1>0, <1>1
  <2>2. \A x \in 1..PkLen(S[i]) : at[i] + x \in 1..l
    BY <2>1
  <2>3. \A x \in 1..PkLen(S[i]) : U[at[i] + x] = T[at[i] + x]
    BY <1>2, <2>2, Zenon
  <2>4. PacketAt(U, at[i], S[i])
    BY <1>1, <2>3, PacketMoved, Zenon
  <2>5. at[i] + PkLen(S[i]) <= l + m
    BY <2>1
  <2> QED
    BY <2>4, <2>5
<1>5. ASSUME NEW x \in 1..(l + m), U[x] = PB_START
      PROVE  \E i \in (k + 1)..n : at[i] < x /\ x <= at[i] + PkLen(S[i])
  <2>1. CASE x <= l
    <3>1. x \in 1..l
      BY <2>1
    <3> QED
      BY <1>1, <1>2, <1>5, <3>1, Zenon
  <2>2. CASE ~(x <= l)
    <3>1. x - l \in 1..m /\ l + (x - l) = x
      BY <2>2
    <3> QED
      BY <1>2, <1>5, <3>1, Zenon
  <2> QED
    BY <2>1, <2>2
<1> QED
  BY <1>1, <1>3, <1>4, <1>5, Zenon DEF Laid

\* So does a packet.
LEMMA LaidPacket ==
    ASSUME NEW T, NEW l \in Nat, NEW S, NEW n, Sent(S, n), NEW k \in 0..n, NEW at,
           Laid(T, l, S, n, k, at),
           NEW p \in Sendable, NEW U, Joins(U, T, l, Encoded(p), PkLen(p)),
           NEW R, \A i \in 1..n : R[i] = S[i], R[n + 1] = p
    PROVE  Laid(U, l + PkLen(p), R, n + 1, k,
                [i \in (k + 1)..(n + 1) |-> IF i <= n THEN at[i] ELSE l])
<1> DEFINE to == [i \in (k + 1)..(n + 1) |-> IF i <= n THEN at[i] ELSE l]
           m == PkLen(p)
<1>0. /\ n \in Nat /\ m \in Nat /\ m >= 23
      /\ \A i \in (k + 1)..n : i \in 1..n /\ S[i] \in Sendable /\ PkLen(S[i]) \in Nat
  <2>1. \A i \in (k + 1)..n : i \in 1..n
    BY DEF Sent
  <2> QED
    BY <2>1, PacketLength, Zenon DEF Sent
<1>1. /\ at \in [(k + 1)..n -> 0..l]
      /\ \A i \in (k + 1)..n : PacketAt(T, at[i], S[i]) /\ at[i] + PkLen(S[i]) <= l
      /\ \A i, j \in (k + 1)..n : i < j => at[i] + PkLen(S[i]) <= at[j]
      /\ \A x \in 1..l : T[x] = PB_START =>
            \E i \in (k + 1)..n : at[i] < x /\ x <= at[i] + PkLen(S[i])
  BY Zenon DEF Laid
<1>2. (\A i \in 1..l : U[i] = T[i]) /\ (\A i \in 1..m : U[l + i] = Encoded(p)[i])
  BY Zenon DEF Joins
<1> HIDE DEF m
<1>3. ASSUME NEW i \in (k + 1)..n
      PROVE  /\ i \in (k + 1)..(n + 1) /\ to[i] = at[i] /\ R[i] = S[i]
             /\ at[i] \in 0..l /\ PkLen(S[i]) \in Nat /\ at[i] + PkLen(S[i]) <= l
             /\ S[i] \in Sendable
  <2>1. i \in (k + 1)..(n + 1) /\ i <= n
    BY <1>0
  <2>2. to[i] = at[i]
    BY <2>1
  <2> QED
    BY <1>0, <1>1, <2>1, <2>2
<1>4. n + 1 \in (k + 1)..(n + 1) /\ to[n + 1] = l
  BY <1>0
<1>5. \A i \in (k + 1)..(n + 1) : i = n + 1 \/ i \in (k + 1)..n
  BY <1>0
<1>6. to \in [(k + 1)..(n + 1) -> 0..(l + m)]
  <2>1. ASSUME NEW i \in (k + 1)..(n + 1)
        PROVE  to[i] \in 0..(l + m)
    <3>1. CASE i = n + 1
      BY <1>0, <1>4, <3>1
    <3>2. CASE i \in (k + 1)..n
      <4>1. to[i] = at[i] /\ at[i] \in 0..l
        BY <1>3, <3>2, Zenon
      <4>2. 0..l \subseteq 0..(l + m)
        BY <1>0
      <4> QED
        BY <4>1, <4>2, Zenon
    <3> QED
      BY <1>5, <3>1, <3>2, Zenon
  <2> QED
    BY <2>1
<1> HIDE DEF to
<1>7. ASSUME NEW i \in (k + 1)..(n + 1)
      PROVE  PacketAt(U, to[i], R[i]) /\ to[i] + PkLen(R[i]) <= l + m
  <2>1. CASE i = n + 1
    <3>1. PacketAt(U, l, p)
      BY <1>2, Zenon DEF PacketAt, Has, m
    <3>2. l + m <= l + m
      BY <1>0
    <3> QED
      BY <1>4, <2>1, <3>1, <3>2, Zenon DEF m
  <2>2. CASE i \in (k + 1)..n
    <3>1. \A x \in 1..PkLen(S[i]) : at[i] + x \in 1..l
      BY <1>3, <2>2
    <3>2. \A x \in 1..PkLen(S[i]) : U[at[i] + x] = T[at[i] + x]
      BY <1>2, <3>1, Zenon
    <3>3. PacketAt(U, at[i], S[i])
      BY <1>1, <2>2, <3>2, PacketMoved, Zenon
    <3>4. at[i] + PkLen(S[i]) <= l + m
      BY <1>0, <1>3, <2>2
    <3> QED
      BY <1>3, <2>2, <3>3, <3>4, Zenon
  <2> QED
    BY <1>5, <2>1, <2>2, Zenon
<1>8. ASSUME NEW i \in (k + 1)..(n + 1), NEW j \in (k + 1)..(n + 1), i < j
      PROVE  to[i] + PkLen(R[i]) <= to[j]
  <2>1. i \in (k + 1)..n
    BY <1>0, <1>8
  <2>2. CASE j = n + 1
    BY <1>3, <1>4, <2>1, <2>2
  <2>3. CASE j \in (k + 1)..n
    BY <1>1, <1>3, <1>8, <2>1, <2>3, Zenon
  <2> QED
    BY <1>5, <2>2, <2>3, Zenon
<1>9. ASSUME NEW x \in 1..(l + m), U[x] = PB_START
      PROVE  \E i \in (k + 1)..(n + 1) : to[i] < x /\ x <= to[i] + PkLen(R[i])
  <2>1. CASE x <= l
    <3>1. x \in 1..l
      BY <2>1
    <3>2. PICK i \in (k + 1)..n : at[i] < x /\ x <= at[i] + PkLen(S[i])
      BY <1>1, <1>2, <1>9, <3>1, Zenon
    <3> QED
      BY <1>3, <3>2, Zenon
  <2>2. CASE ~(x <= l)
    <3>1. l < x /\ x <= l + m
      BY <1>0, <2>2
    <3> QED
      BY <1>4, <3>1, Zenon DEF m
  <2> QED
    BY <2>1, <2>2
<1> QED
  BY <1>6, <1>7, <1>8, <1>9, Zenon DEF Laid, to, m

\* A place among e of l bytes, and where it is once the first d are gone.
LEMMA Shifted ==
    ASSUME NEW d \in Nat, NEW l \in Nat, NEW e \in Nat, NEW r \in Nat, (d + r) + e <= l
    PROVE  /\ r + e <= l - d
           /\ \A x \in 1..e : r + x \in 1..(l - d) /\ d + (r + x) = (d + r) + x
  BY SMTT(30)

\* Bytes behind the first d are found d places further in front once they are
\* gone.
LEMMA HasShifted ==
    ASSUME NEW T, NEW E, NEW e \in Nat, NEW U, NEW d \in Nat, NEW l \in Nat, NEW r \in Nat,
           (d + r) + e <= l, Has(T, d + r, E, e), \A x \in 1..(l - d) : U[x] = T[d + x]
    PROVE  Has(U, r, E, e) /\ r + e <= l - d
<1>1. /\ r + e <= l - d
      /\ \A x \in 1..e : r + x \in 1..(l - d) /\ d + (r + x) = (d + r) + x
  BY Shifted, SMTT(30)
<1>2. \A x \in 1..e : U[r + x] = T[(d + r) + x]
  BY <1>1, Zenon
<1>3. \A x \in 1..e : T[(d + r) + x] = E[x]
  BY Zenon DEF Has
<1>4. \A x \in 1..e : U[r + x] = E[x]
  BY <1>2, <1>3, Zenon
<1> QED
  BY <1>1, <1>4, Zenon DEF Has

\* U is T without its first d bytes, and these took the packets k + 1 to h.
Dropped(T, l, S, n, k, at, d, h, U, to) ==
    /\ l \in Nat /\ Sent(S, n) /\ k \in 0..n /\ Laid(T, l, S, n, k, at)
    /\ d \in 0..l /\ h \in k..n
    /\ \A i \in (k + 1)..h : at[i] + PkLen(S[i]) <= d
    /\ \A i \in (h + 1)..n : d <= at[i]
    /\ \A x \in 1..(l - d) : U[x] = T[d + x]
    /\ to = [i \in (h + 1)..n |-> at[i] - d]

\* The packets after number h lie in it as before.
LEMMA LaidDrop ==
    ASSUME NEW T, NEW l, NEW S, NEW n, NEW k, NEW at, NEW d, NEW h, NEW U, NEW to,
           Dropped(T, l, S, n, k, at, d, h, U, to)
    PROVE  Laid(U, l - d, S, n, h, to)
<1>1. /\ l \in Nat /\ k \in 0..n /\ d \in 0..l /\ h \in k..n
      /\ Sent(S, n) /\ to = [i \in (h + 1)..n |-> at[i] - d]
      /\ \A i \in (k + 1)..h : at[i] + PkLen(S[i]) <= d
      /\ \A i \in (h + 1)..n : d <= at[i]
      /\ \A x \in 1..(l - d) : U[x] = T[d + x]
  BY Zenon DEF Dropped
<1>2. /\ at \in [(k + 1)..n -> 0..l]
      /\ \A i \in (k + 1)..n : PacketAt(T, at[i], S[i]) /\ at[i] + PkLen(S[i]) <= l
      /\ \A i, j \in (k + 1)..n : i < j => at[i] + PkLen(S[i]) <= at[j]
      /\ \A x \in 1..l : T[x] = PB_START =>
            \E i \in (k + 1)..n : at[i] < x /\ x <= at[i] + PkLen(S[i])
  BY Zenon DEF Dropped, Laid
<1>3. /\ n \in Nat /\ k \in Nat /\ h \in Nat /\ d \in Nat /\ k <= h /\ h <= n /\ d <= l
      /\ \A i \in (k + 1)..n : i \in 1..n
      /\ \A i \in (h + 1)..n : i \in (k + 1)..n
      /\ \A i \in (k + 1)..n : i \in (k + 1)..h \/ i \in (h + 1)..n
  <2>1. n \in Nat /\ l \in Nat /\ k \in 0..n /\ d \in 0..l /\ h \in k..n
    BY <1>1, Zenon DEF Sent
  <2> QED
    BY <2>1
<1>4. ASSUME NEW i \in (k + 1)..n
      PROVE  at[i] \in 0..l /\ at[i] \in Nat /\ PkLen(S[i]) \in Nat
  <2>1. at[i] \in 0..l
    BY <1>2, Zenon
  <2>2. PkLen(S[i]) \in Nat
    BY <1>1, <1>3, PacketLength, Zenon DEF Sent
  <2>3. at[i] \in Nat
    BY <2>1
  <2> QED
    BY <2>1, <2>2, <2>3
<1>5. ASSUME NEW i \in (h + 1)..n
      PROVE  /\ i \in (k + 1)..n /\ to[i] = at[i] - d /\ d <= at[i]
             /\ at[i] \in 0..l /\ at[i] \in Nat /\ PkLen(S[i]) \in Nat
             /\ at[i] + PkLen(S[i]) <= l
  BY <1>1, <1>2, <1>3, <1>4, Zenon
<1>6. to \in [(h + 1)..n -> 0..(l - d)]
  <2>1. ASSUME NEW i \in (h + 1)..n
        PROVE  at[i] - d \in 0..(l - d)
    <3> DEFINE a == at[i]
    <3>1. a \in Nat /\ a <= l /\ d <= a
      BY <1>5
    <3> HIDE DEF a
    <3>2. a - d \in 0..(l - d)
      BY <1>1, <1>3, <3>1
    <3> QED
      BY <3>2, Zenon DEF a
  <2> QED
    BY <1>1, <2>1, Zenon
<1>7. ASSUME NEW i \in (h + 1)..n
      PROVE  PacketAt(U, to[i], S[i]) /\ to[i] + PkLen(S[i]) <= l - d
  <2> DEFINE r == to[i]
  <2>1. r \in Nat /\ d + r = at[i]
    <3> DEFINE a == at[i]
    <3>1. a \in Nat /\ d <= a /\ r = a - d
      BY <1>5, Zenon
    <3> HIDE DEF a, r
    <3>2. r \in Nat /\ d + r = a
      BY <1>3, <3>1
    <3> QED
      BY <3>2, Zenon DEF a
  <2> HIDE DEF r
  <2>2. PacketAt(T, d + r, S[i]) /\ (d + r) + PkLen(S[i]) <= l /\ PkLen(S[i]) \in Nat
    BY <1>2, <1>5, <2>1, Zenon
  <2>3. PacketAt(U, r, S[i]) /\ r + PkLen(S[i]) <= l - d
    BY <1>1, <1>3, <2>1, <2>2, HasShifted, ZenonT(60) DEF PacketAt
  <2> QED
    BY <2>3, Zenon DEF r
<1>8. ASSUME NEW i \in (h + 1)..n, NEW j \in (h + 1)..n, i < j
      PROVE  to[i] + PkLen(S[i]) <= to[j]
  <2> DEFINE a == at[i]
             b == at[j]
             e == PkLen(S[i])
  <2>1. /\ a \in Nat /\ b \in Nat /\ e \in Nat /\ a + e <= b
        /\ to[i] = a - d /\ to[j] = b - d
    BY <1>2, <1>5, <1>8, Zenon
  <2> HIDE DEF a, b, e
  <2>2. (a - d) + e <= b - d
    BY <1>3, <2>1
  <2> QED
    BY <2>1, <2>2, Zenon DEF e
<1>9. ASSUME NEW x \in 1..(l - d), U[x] = PB_START
      PROVE  \E i \in (h + 1)..n : to[i] < x /\ x <= to[i] + PkLen(S[i])
  <2>1. d + x \in 1..l /\ x \in Nat
    BY <1>1, <1>3
  <2>2. PICK i \in (k + 1)..n : at[i] < d + x /\ d + x <= at[i] + PkLen(S[i])
    BY <1>1, <1>2, <1>9, <2>1, Zenon
  <2> DEFINE a == at[i]
             e == PkLen(S[i])
  <2>3. a \in Nat /\ e \in Nat /\ a < d + x /\ d + x <= a + e
    BY <1>4, <2>2, Zenon
  <2>4. i \in (k + 1)..h => a + e <= d
    BY <1>1, Zenon
  <2> HIDE DEF a, e
  <2>5. ~(i \in (k + 1)..h)
    BY <1>3, <2>1, <2>3, <2>4
  <2>6. i \in (h + 1)..n
    BY <1>3, <2>5, Zenon
  <2>7. to[i] = a - d
    BY <1>5, <2>6, Zenon DEF a
  <2>8. a - d < x /\ x <= (a - d) + e
    BY <1>3, <2>1, <2>3
  <2> QED
    BY <2>6, <2>7, <2>8, Zenon DEF e
<1> QED
  BY <1>6, <1>7, <1>8, <1>9, Zenon DEF Laid

-----------------------------------------------------------------------------
(* The scan *)

\* start_index is the only index at which the scan can end.
LEMMA ScanStops ==
    ASSUME WriteIndex \in Nat, NEW f \in 0..WriteIndex, f = WriteIndex \/ ScanEnds(f),
           \A j \in 0..(f - 1) : ~ScanEnds(j)
    PROVE  StartIndex = f
<1> DEFINE P(i) == (i = WriteIndex \/ ScanEnds(i)) /\ \A j \in 0..(i - 1) : ~ScanEnds(j)
<1>1. P(f)
  OBVIOUS
<1>2. ASSUME NEW i \in 0..WriteIndex, P(i)
      PROVE  i = f
  <2>1. CASE i < f
    <3>1. i \in 0..(f - 1) /\ i # WriteIndex
      BY <2>1
    <3> QED
      BY <1>2, <3>1, Zenon
  <2>2. CASE f < i
    <3>1. f \in 0..(i - 1) /\ f # WriteIndex
      BY <2>2
    <3> QED
      BY <1>2, <3>1, Zenon
  <2> QED
    BY <2>1, <2>2
<1>3. StartIndex = CHOOSE i \in 0..WriteIndex : P(i)
  BY Zenon DEF StartIndex
<1> HIDE DEF P
<1> QED
  BY <1>1, <1>2, <1>3, Zenon

\* The buffer has the first bytes of T.
BufferOf(T, l) ==
    /\ inputbuffer_ \in Seq(Byte) /\ WriteIndex \in 0..l
    /\ \A x \in 1..WriteIndex : inputbuffer_[x] = T[x]

\* The scan passes over all that comes before the packets.
LEMMA ScanPasses ==
    ASSUME NEW T, NEW l \in Nat, NEW S, NEW n, Sent(S, n), NEW k \in 0..n, NEW at,
           Laid(T, l, S, n, k, at), BufferOf(T, l),
           NEW f \in 0..WriteIndex, \A i \in (k + 1)..n : f <= at[i],
           NEW j \in 0..(f - 1)
    PROVE  ~ScanEnds(j)
<1>0. WriteIndex \in 0..l
  BY Zenon DEF BufferOf
<1>1. j + 1 \in 1..WriteIndex /\ j + 1 \in 1..l
  BY <1>0
<1>2. At(j) = T[j + 1]
  BY <1>1, Zenon DEF At, BufferOf
<1>3. ASSUME T[j + 1] = PB_START
      PROVE  FALSE
  <2>1. PICK i \in (k + 1)..n : at[i] < j + 1
    BY <1>1, <1>3, Zenon DEF Laid
  <2>2. at[i] \in 0..l
    <3>1. at \in [(k + 1)..n -> 0..l]
      BY Zenon DEF Laid
    <3> QED
      BY <3>1
  <2> QED
    BY <1>0, <2>1, <2>2
<1> QED
  BY <1>2, <1>3, Zenon DEF ScanEnds

\* The scan ends where a packet begins, and finds out whether it is all there.
LEMMA ScanAtPacket ==
    ASSUME NEW T, NEW l \in Nat, BufferOf(T, l),
           NEW p \in Sendable, NEW s \in Nat, s < WriteIndex, PacketAt(T, s, p)
    PROVE  /\ ScanEnds(s)
           /\ Whole(s) <=> s + PkLen(p) <= WriteIndex
           /\ Whole(s) => EndIndex(s) = s + PkLen(p) - 1
<1> DEFINE L == PkLen(p)
           E == Encoded(p)
           M == WriteIndex
           B == inputbuffer_
           a == Len(p.id)
           b == Len(p.name)
           c == Len(p.data)
<1>0. M \in Nat /\ s < M /\ \A x \in 1..M : B[x] = T[x]
  <2>1. WriteIndex \in 0..l /\ \A x \in 1..M : B[x] = T[x]
    BY Zenon DEF BufferOf
  <2>2. WriteIndex \in Nat
    BY <2>1
  <2> QED
    BY <2>1, <2>2, Zenon
<1>1. L \in Nat /\ L >= 23 /\ L \in 0..INT32_MAX
  BY PacketLength, PacketFields, Zenon
<1>2. Has(T, s, E, L)
  BY Zenon DEF PacketAt
<1>3. Has(E, 0, <<PB_START>>, 1) /\ Has(E, 1, Int32(L), 4) /\ Has(E, 22 + a + b + c, <<PB_END>>, 1)
  BY EncodedBytes, Zenon DEF EncodedAs
<1>4. a \in Nat /\ b \in Nat /\ c \in Nat /\ L = 23 + a + b + c
  BY PacketFields, Zenon
<1> HIDE DEF L, E, M, B, a, b, c
<1>5. Has(T, s + 0, <<PB_START>>, 1) /\ Has(T, s + 1, Int32(L), 4)
  <2>1. 0 \in Nat /\ 1 \in Nat /\ 4 \in Nat /\ 0 + 1 <= L /\ 1 + 4 <= L
    BY <1>1
  <2> QED
    BY <1>1, <1>2, <1>3, <2>1, FieldAt, Zenon
<1>6. Has(T, s + (L - 1), <<PB_END>>, 1)
  <2>1. L - 1 = 22 + a + b + c /\ L - 1 \in Nat /\ (L - 1) + 1 <= L /\ 1 \in Nat
    BY <1>4, SMT
  <2>2. Has(E, L - 1, <<PB_END>>, 1)
    BY <1>3, <2>1, Zenon
  <2> QED
    BY <1>1, <1>2, <2>1, <2>2, FieldAt, Zenon
\* What is in T is in the buffer as far as that reaches.
<1>7. ASSUME NEW i \in Nat, NEW t, NEW m \in Nat, Has(T, i, t, m), i + m <= M
      PROVE  Has(B, i, t, m)
  <2>1. \A j \in 1..m : i + j \in 1..M
    BY <1>0, <1>7
  <2> QED
    BY <1>0, <1>7, <2>1, Zenon DEF Has
<1>8. At(s) = PB_START
  <2>1. s + 0 = s /\ s + 1 <= M /\ 1 \in Nat
    BY <1>0
  <2>2. Has(B, s, <<PB_START>>, 1)
    BY <1>5, <1>7, <2>1, Zenon
  <2> QED
    BY <2>2, ReadByte, Zenon DEF B
<1>9. ASSUME HasLength(s)
      PROVE  EndIndex(s) = s + L - 1
  <2>1. s + 1 \in Nat /\ 4 \in Nat /\ (s + 1) + 4 <= M
    BY <1>0, <1>9 DEF HasLength, M
  <2>2. Has(B, s + 1, Int32(L), 4)
    BY <1>5, <1>7, <2>1, Zenon
  <2>3. Int32At(s + 1) = L
    BY <1>1, <2>1, <2>2, ReadInt32, Zenon DEF B
  <2> QED
    BY <2>3, Zenon DEF EndIndex
<1>10. ASSUME s + L <= M
       PROVE  Whole(s)
  <2>1. s + 4 < M /\ s + L - 1 < M /\ s + (L - 1) = s + L - 1 /\ s + L - 1 \in Nat /\ 1 \in Nat
        /\ (s + L - 1) + 1 <= M
    BY <1>0, <1>1, <1>10
  <2>2. HasLength(s)
    BY <2>1, Zenon DEF HasLength, M
  <2>3. Has(B, s + L - 1, <<PB_END>>, 1)
    BY <1>6, <1>7, <2>1, Zenon
  <2>4. At(s + L - 1) = PB_END
    BY <2>1, <2>3, ReadByte, Zenon DEF B
  <2> QED
    BY <1>9, <2>1, <2>2, <2>4, Zenon DEF Whole, M
<1>11. ASSUME Whole(s)
       PROVE  s + L <= M /\ EndIndex(s) = s + L - 1
  <2>1. HasLength(s) /\ EndIndex(s) < M
    BY <1>11, Zenon DEF Whole, M
  <2>2. EndIndex(s) = s + L - 1
    BY <1>9, <2>1
  <2>3. s + L - 1 < M
    BY <2>1, <2>2, Zenon
  <2> QED
    BY <1>0, <1>1, <2>2, <2>3
<1>12. ScanEnds(s)
  <2>1. CASE s + L <= M
    BY <1>8, <1>10, <2>1, Zenon DEF ScanEnds
  <2>2. CASE ~(s + L <= M)
    <3>1. s + L - 1 >= M
      BY <1>0, <1>1, <2>2
    <3>2. CASE HasLength(s)
      BY <1>8, <1>9, <3>1, <3>2, Zenon DEF ScanEnds, M
    <3>3. CASE ~HasLength(s)
      BY <1>8, <3>3, Zenon DEF ScanEnds
    <3> QED
      BY <3>2, <3>3
  <2> QED
    BY <2>1, <2>2
<1> QED
  BY <1>10, <1>11, <1>12, Zenon DEF L, M

-----------------------------------------------------------------------------
(* The invariant is inductive *)

\* Lengths and indices of the state, as the steps below need them.
LEMMA Basics ==
    ASSUME CoderTypes, Delivered
    PROVE  /\ Sent(sent, Len(sent)) /\ Len(sent) \in Nat /\ Len(out_messages) \in 0..Len(sent)
           /\ Bytes(inputbuffer_, WriteIndex) /\ Bytes(stream, Len(stream))
           /\ Bytes(inputbuffer_ \o stream, Len(inputbuffer_ \o stream))
           /\ Len(inputbuffer_ \o stream) = WriteIndex + Len(stream)
           /\ BufferOf(inputbuffer_ \o stream, Len(inputbuffer_ \o stream))
<1>1. /\ sent \in Seq(Sendable) /\ stream \in Seq(Byte) /\ inputbuffer_ \in Seq(Byte)
      /\ out_messages \in Seq([pkg : PacketType, parse_success : BOOLEAN])
  BY Zenon DEF CoderTypes
<1>2. Len(sent) \in Nat /\ Len(out_messages) \in Nat /\ Len(stream) \in Nat /\ WriteIndex \in Nat
  BY <1>1, LenProperties, Zenon DEF WriteIndex
<1>3. Sent(sent, Len(sent))
  BY <1>1, <1>2, ElementOfSeq, Zenon DEF Sent
<1>4. Len(out_messages) \in 0..Len(sent)
  <2>1. Len(out_messages) <= Len(sent)
    BY Zenon DEF Delivered
  <2> QED
    BY <1>2, <2>1
<1>5. Bytes(inputbuffer_, WriteIndex) /\ Bytes(stream, Len(stream))
  BY <1>1, <1>2, Zenon DEF Bytes, WriteIndex
<1> DEFINE T == inputbuffer_ \o stream
<1>6. Joins(T, inputbuffer_, WriteIndex, stream, Len(stream))
  BY <1>5, CatAt, Zenon
<1>7. T \in Seq(Byte) /\ Len(T) \in Nat /\ Len(T) = WriteIndex + Len(stream)
  BY <1>6, Zenon DEF Joins, Bytes
<1>8. WriteIndex \in 0..Len(T)
  BY <1>2, <1>7
<1>9. BufferOf(T, Len(T))
  BY <1>1, <1>6, <1>8, Zenon DEF BufferOf, Joins
<1> QED
  BY <1>2, <1>3, <1>4, <1>5, <1>7, <1>9, Zenon DEF Bytes

\* Length and elements after Append.
LEMMA AppendAt ==
    ASSUME NEW S, NEW s \in Seq(S), NEW e \in S
    PROVE  /\ Append(s, e) \in Seq(S) /\ Len(Append(s, e)) = Len(s) + 1
           /\ \A i \in 1..Len(s) : Append(s, e)[i] = s[i]
           /\ Append(s, e)[Len(s) + 1] = e
  BY AppendProperties

\* A suffix added to the stream is a suffix of all bytes.
LEMMA CatAssoc ==
    ASSUME NEW s \in Seq(Byte), NEW t \in Seq(Byte), NEW u \in Seq(Byte)
    PROVE  s \o (t \o u) = (s \o t) \o u
  BY ConcatAssociative

\* A packet goes to the end of the stream.
LEMMA EncodeStep ==
    ASSUME CoderTypes, Delivered, Pending, NEW p, WithId(p) \in Sendable, Encode(p)
    PROVE  CoderTypes' /\ Delivered' /\ Pending'
<1> DEFINE q == WithId(p)
           n == Len(sent)
           k == Len(out_messages)
           T == inputbuffer_ \o stream
           U == inputbuffer_' \o stream'
           l == Len(T)
           b == WriteIndex
<1>1. /\ sent' = Append(sent, q) /\ stream' = stream \o Encoded(q)
      /\ inputbuffer_' = inputbuffer_ /\ out_messages' = out_messages /\ pc' = pc /\ noise' = noise
  BY Zenon DEF Encode
<1>2. /\ sent \in Seq(Sendable) /\ stream \in Seq(Byte) /\ inputbuffer_ \in Seq(Byte)
      /\ out_messages \in Seq([pkg : PacketType, parse_success : BOOLEAN])
      /\ pc \in {"read", "decode"} /\ noise \in 0..MaxNoise
      /\ q \in Sendable
  BY Zenon DEF CoderTypes
<1>3. /\ Sent(sent, n) /\ n \in Nat /\ k \in 0..n /\ Bytes(T, l)
  BY Basics, Zenon
<1>13. PICK at : Laid(T, l, sent, n, k, at) /\ Between(pc = "read", b, sent, n, k, at)
  BY Zenon DEF Pending
<1>b. b' = b
  BY <1>1, Zenon DEF WriteIndex
<1> HIDE DEF q
<1>4. Bytes(Encoded(q), PkLen(q)) /\ PkLen(q) \in Nat /\ Encoded(q) \in Seq(Byte)
  <2>1. PkLen(q) = 23 + Len(q.id) + Len(q.name) + Len(q.data) /\ PkLen(q) \in Nat
    BY <1>2, PacketFields, PacketLength, Zenon
  <2>2. Bytes(Encoded(q), PkLen(q))
    BY <1>2, <2>1, EncodedBytes, Zenon DEF EncodedAs
  <2> QED
    BY <2>1, <2>2, Zenon DEF Bytes
<1>5. /\ sent' \in Seq(Sendable) /\ Len(sent') = n + 1
      /\ \A i \in 1..n : sent'[i] = sent[i]
      /\ sent'[n + 1] = q
  <2>1. /\ Append(sent, q) \in Seq(Sendable) /\ Len(Append(sent, q)) = n + 1
        /\ \A i \in 1..n : Append(sent, q)[i] = sent[i]
        /\ Append(sent, q)[n + 1] = q
    BY <1>2, AppendAt
  <2> QED
    BY <1>1, <2>1, Zenon
<1>6. stream' \in Seq(Byte)
  BY <1>1, <1>2, <1>4, CatBytes, Zenon
<1>7. CoderTypes'
  BY <1>1, <1>2, <1>5, <1>6, Zenon DEF CoderTypes
<1>8. k <= n + 1 /\ k + 1 \in Nat /\ \A i \in 1..k : i \in 1..n
  BY <1>3
<1>9. Delivered'
  <2>1. \A i \in 1..k : out_messages[i] = [pkg |-> sent[i], parse_success |-> TRUE]
    BY Zenon DEF Delivered
  <2> QED
    BY <1>1, <1>5, <1>8, <2>1, Zenon DEF Delivered
<1>10. U = T \o Encoded(q)
  BY <1>1, <1>2, <1>4, CatAssoc, Zenon
<1>11. Joins(U, T, l, Encoded(q), PkLen(q))
  BY <1>3, <1>4, <1>10, CatAt, Zenon
<1>12. Len(U) = l + PkLen(q) /\ l \in Nat
  BY <1>3, <1>11, Zenon DEF Joins, Bytes
<1> HIDE DEF n, k, T, U, l, b
<1> DEFINE to == [i \in (k + 1)..(n + 1) |-> IF i <= n THEN at[i] ELSE l]
<1>14. Laid(U, l + PkLen(q), sent', n + 1, k, to)
  <2>1. /\ l \in Nat /\ Sent(sent, n) /\ k \in 0..n /\ Laid(T, l, sent, n, k, at)
        /\ q \in Sendable /\ Joins(U, T, l, Encoded(q), PkLen(q))
        /\ (\A i \in 1..n : sent'[i] = sent[i]) /\ sent'[n + 1] = q
    BY <1>2, <1>3, <1>5, <1>11, <1>12, <1>13, Zenon
  <2> QED
    BY <2>1, LaidPacket
<1>15. Between(pc = "read", b, sent', n + 1, k, to)
  <2>1. pc = "read" => b = 0 \/ (k + 1 <= n /\ at[k + 1] = 0 /\ b < PkLen(sent[k + 1]))
    BY <1>13, Zenon DEF Between
  <2>2. ASSUME k + 1 <= n
        PROVE  k + 1 <= n + 1 /\ to[k + 1] = at[k + 1] /\ sent'[k + 1] = sent[k + 1]
    <3>1. k + 1 \in 1..n /\ k + 1 \in (k + 1)..(n + 1) /\ k + 1 <= n + 1
      BY <1>3, <2>2
    <3> QED
      BY <1>5, <2>2, <3>1
  <2> HIDE DEF to
  <2> QED
    BY <2>1, <2>2, Zenon DEF Between
<1>16. to \in [(k + 1)..(n + 1) -> 0..(l + PkLen(q))]
  BY <1>14, Zenon DEF Laid
<1> HIDE DEF to
<1>17. Pending'
  <2>1. Len(out_messages') = k /\ WriteIndex' = b /\ inputbuffer_' \o stream' = U
    BY <1>1, <1>b, Zenon DEF k, b, U
  <2> QED
    BY <1>1, <1>5, <1>12, <1>14, <1>15, <1>16, <2>1, Zenon DEF Pending
<1> QED
  BY <1>7, <1>9, <1>17

\* So do bytes that belong to no packet.
LEMMA NoiseStep ==
    ASSUME CoderTypes, Delivered, Pending, NEW z \in Noise, SendNoise(z)
    PROVE  CoderTypes' /\ Delivered' /\ Pending'
<1> DEFINE n == Len(sent)
           k == Len(out_messages)
           T == inputbuffer_ \o stream
           U == inputbuffer_' \o stream'
           l == Len(T)
           m == Len(z)
           b == WriteIndex
<1>1. /\ sent' = sent /\ stream' = stream \o z /\ noise < MaxNoise /\ noise' = noise + 1
      /\ inputbuffer_' = inputbuffer_ /\ out_messages' = out_messages /\ pc' = pc
  BY Zenon DEF SendNoise
<1>2. /\ sent \in Seq(Sendable) /\ stream \in Seq(Byte) /\ inputbuffer_ \in Seq(Byte)
      /\ out_messages \in Seq([pkg : PacketType, parse_success : BOOLEAN])
      /\ pc \in {"read", "decode"} /\ noise \in 0..MaxNoise
  BY Zenon DEF CoderTypes
<1>3. Sent(sent, n) /\ n \in Nat /\ k \in 0..n /\ Bytes(T, l)
  BY Basics, Zenon
<1>4. PICK at : Laid(T, l, sent, n, k, at) /\ Between(pc = "read", b, sent, n, k, at)
  BY Zenon DEF Pending
<1>5. z \in Seq(Byte \ {PB_START}) /\ z \in Seq(Byte)
  <2>1. z \in Seq(Byte \ {PB_START})
    BY NoiseAssumption, Zenon
  <2>2. Byte \ {PB_START} \subseteq Byte
    OBVIOUS
  <2> QED
    BY <2>1, <2>2, SeqMonotonic, Zenon
<1>6. Bytes(z, m) /\ m \in Nat /\ \A i \in 1..m : z[i] # PB_START
  <2>1. m \in Nat
    BY <1>5, LenProperties, Zenon
  <2>2. \A i \in 1..m : z[i] \in Byte \ {PB_START}
    BY <1>5, ElementOfSeq, Zenon
  <2> QED
    BY <1>5, <2>1, <2>2, Zenon DEF Bytes
<1>7. noise' \in 0..MaxNoise
  BY <1>1, <1>2, CountAssumption
<1>8. stream' \in Seq(Byte)
  BY <1>1, <1>2, <1>5, CatBytes, Zenon
<1>9. CoderTypes'
  BY <1>1, <1>2, <1>7, <1>8, Zenon DEF CoderTypes
<1>10. Delivered'
  BY <1>1, Zenon DEF Delivered
<1>11. U = T \o z
  BY <1>1, <1>2, <1>5, CatAssoc, Zenon
<1>12. Joins(U, T, l, z, m)
  BY <1>3, <1>6, <1>11, CatAt, Zenon
<1>13. Len(U) = l + m /\ l \in Nat
  BY <1>3, <1>12, Zenon DEF Joins, Bytes
<1>14. Len(sent') = n /\ Len(out_messages') = k /\ WriteIndex' = b
  BY <1>1, Zenon DEF WriteIndex
<1> HIDE DEF n, k, T, l, m, b
<1>15. Laid(U, l + m, sent, n, k, at)
  <2> HIDE DEF U
  <2> QED
    BY <1>3, <1>4, <1>6, <1>12, <1>13, LaidNoise
<1>16. at \in [(k + 1)..n -> 0..(l + m)]
  BY <1>15, Zenon DEF Laid
<1>17. Pending'
  BY <1>1, <1>4, <1>13, <1>14, <1>15, <1>16, Zenon DEF Pending
<1> QED
  BY <1>9, <1>10, <1>17

\* A sequence cut in two.
LEMMA CutInTwo ==
    ASSUME NEW s \in Seq(Byte), NEW j \in 1..Len(s)
    PROVE  /\ SubSeq(s, 1, j) \in Seq(Byte) /\ SubSeq(s, j + 1, Len(s)) \in Seq(Byte)
           /\ SubSeq(s, 1, j) \o SubSeq(s, j + 1, Len(s)) = s
<1>1. Len(s) \in Nat
  BY LenProperties
<1>2. 1 \in 1..(Len(s) + 1) /\ j \in (1 - 1)..Len(s) /\ Len(s) \in j..Len(s)
  BY <1>1
<1>3. SubSeq(s, 1, j) \o SubSeq(s, j + 1, Len(s)) = SubSeq(s, 1, Len(s))
  BY <1>2, ConcatAdjacentSubSeq
<1>4. SubSeq(s, 1, Len(s)) = s
  BY SubSeqFull
<1>5. SubSeq(s, j + 1, Len(s)) \in Seq(Byte)
  <2>1. j \in Nat /\ j <= Len(s) /\ Len(s) <= Len(s)
    BY <1>1
  <2> QED
    BY <1>1, <2>1, Cut, Zenon
<1>6. SubSeq(s, 1, j) \in Seq(Byte)
  <2>1. j \in Nat /\ j <= Len(s) /\ 0 <= j /\ 0 \in Nat /\ 0 + 1 = 1
    BY <1>1
  <2>2. SubSeq(s, 0 + 1, j) \in Seq(Byte)
    BY <2>1, Cut, Zenon
  <2> QED
    BY <2>1, <2>2, Zenon
<1> QED
  BY <1>3, <1>4, <1>5, <1>6, Zenon

\* A read moves bytes from the stream to the buffer.
LEMMA ArriveStep ==
    ASSUME CoderTypes, Delivered, Pending, NEW j \in 1..Len(stream), Arrive(j)
    PROVE  CoderTypes' /\ Delivered' /\ Pending'
<1>1. /\ sent' = sent /\ out_messages' = out_messages /\ noise' = noise /\ pc' = "decode"
      /\ inputbuffer_' = inputbuffer_ \o SubSeq(stream, 1, j)
      /\ stream' = SubSeq(stream, j + 1, Len(stream))
  BY Zenon DEF Arrive
<1>2. /\ sent \in Seq(Sendable) /\ stream \in Seq(Byte) /\ inputbuffer_ \in Seq(Byte)
      /\ out_messages \in Seq([pkg : PacketType, parse_success : BOOLEAN])
      /\ noise \in 0..MaxNoise
  BY Zenon DEF CoderTypes
<1> DEFINE s1 == SubSeq(stream, 1, j)
           s2 == SubSeq(stream, j + 1, Len(stream))
<1>3. s1 \in Seq(Byte) /\ s2 \in Seq(Byte) /\ s1 \o s2 = stream
  BY <1>2, CutInTwo, Zenon
<1>4. inputbuffer_' \in Seq(Byte) /\ stream' \in Seq(Byte)
  BY <1>1, <1>2, <1>3, CatBytes, Zenon
<1>5. CoderTypes'
  BY <1>1, <1>2, <1>4, Zenon DEF CoderTypes
<1>6. Delivered'
  BY <1>1, Zenon DEF Delivered
<1>7. inputbuffer_' \o stream' = inputbuffer_ \o stream
  <2> HIDE DEF s1, s2
  <2>1. inputbuffer_' \o stream' = (inputbuffer_ \o s1) \o s2
    BY <1>1, Zenon DEF s1, s2
  <2> QED
    BY <1>2, <1>3, <2>1, CatAssoc, Zenon
<1>8. pc' # "read"
  BY <1>1
<1>9. Pending'
  BY <1>1, <1>7, <1>8, Zenon DEF Pending, Between
<1> QED
  BY <1>5, <1>6, <1>9

\* Where the scan ends: at the first packet, or at the end of the buffer when no
\* packet begins in it.
LEMMA ScanResult ==
    ASSUME NEW T, NEW l \in Nat, NEW S, NEW n, Sent(S, n), NEW k \in 0..n, NEW at,
           Laid(T, l, S, n, k, at), BufferOf(T, l)
    PROVE  \/ /\ k + 1 \in (k + 1)..n /\ at[k + 1] \in 0..l /\ at[k + 1] < WriteIndex
              /\ StartIndex = at[k + 1]
              /\ Whole(StartIndex) <=> at[k + 1] + PkLen(S[k + 1]) <= WriteIndex
              /\ Whole(StartIndex) => EndIndex(StartIndex) = at[k + 1] + PkLen(S[k + 1]) - 1
           \/ /\ \A i \in (k + 1)..n : WriteIndex <= at[i]
              /\ StartIndex = WriteIndex
<1>0. n \in Nat /\ WriteIndex \in 0..l /\ WriteIndex \in Nat
  <2>1. n \in Nat /\ WriteIndex \in 0..l
    BY Zenon DEF Sent, BufferOf
  <2> QED
    BY <2>1
<1>1. /\ at \in [(k + 1)..n -> 0..l]
      /\ \A i \in (k + 1)..n : PacketAt(T, at[i], S[i])
      /\ \A i, j \in (k + 1)..n : i < j => at[i] + PkLen(S[i]) <= at[j]
  BY Zenon DEF Laid
<1>2. \A i \in (k + 1)..n : at[i] \in 0..l /\ at[i] \in Nat
  BY <1>1
<1>3. CASE \A i \in (k + 1)..n : WriteIndex <= at[i]
  <2>1. WriteIndex \in 0..WriteIndex
    BY <1>0
  <2>2. \A j \in 0..(WriteIndex - 1) : ~ScanEnds(j)
    BY <1>3, <2>1, ScanPasses
  <2>3. StartIndex = WriteIndex
    BY <1>0, <2>1, <2>2, ScanStops
  <2> QED
    BY <1>3, <2>3
<1>4. CASE ~(\A i \in (k + 1)..n : WriteIndex <= at[i])
  <2>1. PICK i \in (k + 1)..n : ~(WriteIndex <= at[i])
    BY <1>4
  <2>2. k + 1 \in (k + 1)..n /\ k + 1 \in 1..n
    BY <1>0, <2>1
  <2> DEFINE f == at[k + 1]
             p == S[k + 1]
  <2>3. p \in Sendable /\ PkLen(p) \in Nat
    BY <2>2, PacketLength, Zenon DEF Sent
  <2>4. \A j \in (k + 1)..n : f <= at[j]
    <3>1. SUFFICES ASSUME NEW j \in (k + 1)..n PROVE f <= at[j]
      OBVIOUS
    <3>2. CASE j = k + 1
      BY <1>2, <2>2, <3>2
    <3>3. CASE j # k + 1
      <4>1. k + 1 < j
        BY <1>0, <3>3
      <4>2. f + PkLen(p) <= at[j]
        BY <1>1, <2>2, <4>1, Zenon
      <4>3. f \in Nat /\ at[j] \in Nat
        BY <1>2, <2>2, Zenon
      <4> HIDE DEF f, p
      <4> QED
        BY <2>3, <4>2, <4>3
    <3> QED
      BY <3>2, <3>3
  <2>5. f \in Nat /\ f \in 0..l /\ PacketAt(T, f, p)
    BY <1>1, <1>2, <2>2, Zenon
  <2>6. f < WriteIndex /\ f \in 0..WriteIndex
    <3>1. f <= at[i] /\ at[i] \in Nat
      BY <1>2, <2>1, <2>4, Zenon
    <3> HIDE DEF f
    <3> QED
      BY <1>0, <2>1, <2>5, <3>1
  <2> HIDE DEF f, p
  <2>7. \A j \in 0..(f - 1) : ~ScanEnds(j)
    BY <2>4, <2>6, ScanPasses
  <2>8. /\ ScanEnds(f)
        /\ Whole(f) <=> f + PkLen(p) <= WriteIndex
        /\ Whole(f) => EndIndex(f) = f + PkLen(p) - 1
    BY <2>3, <2>5, <2>6, ScanAtPacket, Zenon
  <2>9. StartIndex = f
    BY <1>0, <2>6, <2>7, <2>8, ScanStops
  <2> QED
    BY <2>2, <2>5, <2>6, <2>8, <2>9, Zenon DEF f, p
<1> QED
  BY <1>3, <1>4

\* What decode leaves of the stream when it takes d bytes out of the buffer.
LEMMA BufferDrop ==
    ASSUME CoderTypes, Delivered, NEW d \in 0..WriteIndex,
           inputbuffer_' = SubSeq(inputbuffer_, d + 1, WriteIndex), stream' = stream
    PROVE  LET T == inputbuffer_ \o stream
               U == inputbuffer_' \o stream'
           IN /\ inputbuffer_' \in Seq(Byte) /\ WriteIndex' = WriteIndex - d
              /\ Len(T) \in Nat /\ d \in 0..Len(T)
              /\ Len(U) = Len(T) - d
              /\ \A x \in 1..(Len(T) - d) : U[x] = T[d + x]
<1> DEFINE T == inputbuffer_ \o stream
           B == inputbuffer_
           C == SubSeq(inputbuffer_, d + 1, WriteIndex)
           U == C \o stream
           b == WriteIndex
           m == Len(stream)
<1>1. /\ Bytes(B, b) /\ Bytes(stream, m) /\ Len(T) = b + m
  BY Basics, Zenon
<1>2. b \in Nat /\ m \in Nat /\ B \in Seq(Byte)
  BY <1>1, Zenon DEF Bytes
<1>3. C \in Seq(Byte) /\ Len(C) = b - d /\ \A x \in 1..(b - d) : C[x] = B[d + x]
  <2>1. d \in Nat /\ d <= b /\ b <= b
    BY <1>2
  <2>2. b <= Len(B)
    BY <2>1, Zenon DEF WriteIndex
  <2> QED
    BY <1>2, <2>1, <2>2, Cut, Zenon
<1>4. Joins(T, B, b, stream, m)
  BY <1>1, CatAt, Zenon
<1> HIDE DEF C, b, m, T
<1>5. b - d \in Nat /\ (b - d) + m = (b + m) - d /\ d \in 0..(b + m) /\ b + m \in Nat
  BY <1>2 DEF b
<1>6. Bytes(C, b - d)
  BY <1>3, <1>5, Zenon DEF Bytes
<1>7. Joins(U, C, b - d, stream, m)
  BY <1>1, <1>6, CatAt, Zenon
<1>8. Len(U) = Len(T) - d
  BY <1>1, <1>5, <1>7, Zenon DEF Joins, Bytes
<1>9. ASSUME NEW x \in 1..((b + m) - d)
      PROVE  U[x] = T[d + x]
  <2>1. CASE x <= b - d
    <3>1. x \in 1..(b - d) /\ d + x \in 1..b
      BY <1>2, <2>1 DEF b
    <3> QED
      BY <1>3, <1>4, <1>7, <3>1, Zenon DEF Joins
  <2>2. CASE ~(x <= b - d)
    <3>1. x - (b - d) \in 1..m /\ (b - d) + (x - (b - d)) = x /\ b + (x - (b - d)) = d + x
      BY <1>2, <2>2 DEF b
    <3>2. U[(b - d) + (x - (b - d))] = stream[x - (b - d)]
      BY <1>7, <3>1, Zenon DEF Joins
    <3>3. T[b + (x - (b - d))] = stream[x - (b - d)]
      BY <1>4, <3>1, Zenon DEF Joins
    <3> QED
      BY <3>1, <3>2, <3>3, Zenon
  <2> QED
    BY <2>1, <2>2
<1>10. inputbuffer_' = C /\ inputbuffer_' \o stream' = U
  BY Zenon DEF C
<1>11. WriteIndex' = b - d
  BY <1>3, <1>10, Zenon DEF WriteIndex
<1>12. \A x \in 1..(Len(T) - d) : U[x] = T[d + x]
  BY <1>1, <1>9, Zenon
<1>13. Len(T) \in Nat /\ d \in 0..Len(T)
  BY <1>1, <1>5, Zenon
<1> QED
  BY <1>3, <1>8, <1>10, <1>11, <1>12, <1>13, Zenon DEF T, b

\* A turn of decode's loop delivers the next packet.
LEMMA DecodeOneStep ==
    ASSUME CoderTypes, Delivered, Pending, DecodeOne
    PROVE  CoderTypes' /\ Delivered' /\ Pending'
<1> DEFINE n == Len(sent)
           k == Len(out_messages)
           T == inputbuffer_ \o stream
           l == Len(T)
           b == WriteIndex
           msg == Parsed(StartIndex, EndIndex(StartIndex))
<1>1. /\ pc = "decode" /\ StartIndex < b /\ Whole(StartIndex)
      /\ out_messages' = Append(out_messages, msg)
      /\ inputbuffer_' = SubSeq(inputbuffer_, EndIndex(StartIndex) + 2, b)
      /\ sent' = sent /\ stream' = stream /\ pc' = pc /\ noise' = noise
  BY Zenon DEF DecodeOne
<1>2. /\ sent \in Seq(Sendable) /\ stream \in Seq(Byte) /\ inputbuffer_ \in Seq(Byte)
      /\ out_messages \in Seq([pkg : PacketType, parse_success : BOOLEAN])
      /\ noise \in 0..MaxNoise
  BY Zenon DEF CoderTypes
<1>3. /\ Sent(sent, n) /\ n \in Nat /\ k \in 0..n /\ Bytes(T, l) /\ BufferOf(T, l)
  BY Basics, Zenon
<1>4. PICK at : Laid(T, l, sent, n, k, at)
  BY Zenon DEF Pending
<1>5. l \in Nat /\ b \in Nat /\ b <= l
  <2>1. l \in Nat /\ b \in 0..l
    BY <1>3, Zenon DEF Bytes, BufferOf
  <2> HIDE DEF l, b
  <2> QED
    BY <2>1
<1> DEFINE f == at[k + 1]
           p == sent[k + 1]
           L == PkLen(p)
<1>6. /\ k + 1 \in (k + 1)..n /\ f \in 0..l /\ f < b /\ StartIndex = f
      /\ f + L <= b /\ EndIndex(StartIndex) = f + L - 1
  <2>1. \/ /\ k + 1 \in (k + 1)..n /\ at[k + 1] \in 0..l /\ at[k + 1] < WriteIndex
           /\ StartIndex = at[k + 1]
           /\ Whole(StartIndex) <=> at[k + 1] + PkLen(sent[k + 1]) <= WriteIndex
           /\ Whole(StartIndex) => EndIndex(StartIndex) = at[k + 1] + PkLen(sent[k + 1]) - 1
        \/ /\ \A i \in (k + 1)..n : WriteIndex <= at[i]
           /\ StartIndex = WriteIndex
    <3> HIDE DEF n, k, T, l
    <3> QED
      BY <1>3, <1>4, <1>5, ScanResult, Zenon
  <2>2. StartIndex # WriteIndex
    BY <1>1, <1>5
  <2> QED
    BY <1>1, <2>1, <2>2, Zenon
<1> HIDE DEF n, k, T, l, b
<1>7. k + 1 \in 1..n /\ k \in Nat /\ k < n
  BY <1>3, <1>6
<1>8. p \in Sendable /\ L \in Nat /\ L >= 23
  BY <1>3, <1>7, PacketLength, Zenon DEF Sent
<1>9. f \in Nat
  <2> HIDE DEF f
  <2> QED
    BY <1>5, <1>6
<1>10. PacketAt(T, f, p)
  BY <1>4, <1>6, Zenon DEF Laid
<1> DEFINE d == f + L
<1>x. f \in 0..l /\ f < b /\ f + L <= b /\ EndIndex(StartIndex) = f + L - 1 /\ L = PkLen(p)
  BY <1>6
<1> HIDE DEF f, p, L
<1>11. msg = [pkg |-> p, parse_success |-> TRUE]
  <2>1. PacketAt(inputbuffer_, f, p)
    <3>1. \A x \in 1..L : f + x \in 1..b
      BY <1>5, <1>8, <1>9, <1>x
    <3>2. \A x \in 1..b : inputbuffer_[x] = T[x]
      BY <1>3, Zenon DEF BufferOf, b
    <3>3. \A x \in 1..L : inputbuffer_[f + x] = T[f + x]
      BY <3>1, <3>2, Zenon
    <3> QED
      BY <1>10, <1>x, <3>3, Zenon DEF PacketAt, Has
  <2>2. f + PkLen(p) <= Len(inputbuffer_) /\ EndIndex(StartIndex) = f + PkLen(p) - 1
    BY <1>x, Zenon DEF b, WriteIndex
  <2>3. StartIndex = f
    BY <1>6, Zenon
  <2>4. Parsed(f, EndIndex(StartIndex)) = [pkg |-> p, parse_success |-> TRUE]
    BY <1>2, <1>8, <1>9, <2>1, <2>2, ParsedPacket
  <2> QED
    BY <2>3, <2>4, Zenon
<1> HIDE DEF msg
<1>12. /\ out_messages' \in Seq([pkg : PacketType, parse_success : BOOLEAN])
       /\ Len(out_messages') = k + 1
       /\ \A i \in 1..k : out_messages'[i] = out_messages[i]
       /\ out_messages'[k + 1] = msg
  <2>1. msg \in [pkg : PacketType, parse_success : BOOLEAN]
    <3>1. p \in PacketType
      BY <1>8, Zenon DEF Sendable
    <3> QED
      BY <1>11, <3>1
  <2> DEFINE M == [pkg : PacketType, parse_success : BOOLEAN]
  <2> HIDE DEF M
  <2>2. out_messages \in Seq(M) /\ msg \in M
    BY <1>2, <2>1, Zenon DEF M
  <2>3. /\ Append(out_messages, msg) \in Seq(M) /\ Len(Append(out_messages, msg)) = Len(out_messages) + 1
        /\ \A i \in 1..Len(out_messages) : Append(out_messages, msg)[i] = out_messages[i]
        /\ Append(out_messages, msg)[Len(out_messages) + 1] = msg
    BY <2>2, AppendAt
  <2> QED
    BY <1>1, <2>3, Zenon DEF M, k
<1>13. /\ inputbuffer_' = SubSeq(inputbuffer_, d + 1, WriteIndex) /\ d \in 0..WriteIndex
  <2>1. EndIndex(StartIndex) + 2 = d + 1 /\ d \in 0..b
    BY <1>5, <1>8, <1>9, <1>x
  <2> QED
    BY <1>1, <2>1, Zenon DEF b
<1> DEFINE U == inputbuffer_' \o stream'
<1>14. /\ inputbuffer_' \in Seq(Byte) /\ d \in 0..l /\ Len(U) = l - d
       /\ \A x \in 1..(l - d) : U[x] = T[d + x]
  <2> HIDE DEF d
  <2> QED
    BY <1>1, <1>13, BufferDrop, Zenon DEF T, l
<1>15. CoderTypes'
  BY <1>1, <1>2, <1>12, <1>14, Zenon DEF CoderTypes
<1>16. Delivered'
  <2>1. \A i \in 1..k : out_messages[i] = [pkg |-> sent[i], parse_success |-> TRUE]
    BY Zenon DEF Delivered, k
  <2>2. k + 1 <= n /\ \A i \in 1..(k + 1) : i \in 1..k \/ i = k + 1
    BY <1>7, <1>3
  <2>3. out_messages'[k + 1] = [pkg |-> sent[k + 1], parse_success |-> TRUE]
    BY <1>11, <1>12, Zenon DEF p
  <2> QED
    BY <1>1, <1>12, <2>1, <2>2, <2>3, Zenon DEF Delivered, n
<1> DEFINE to == [i \in ((k + 1) + 1)..n |-> at[i] - d]
<1>17. Laid(U, l - d, sent, n, k + 1, to)
  <2>1. k + 1 \in k..n
    BY <1>3, <1>7
  <2>2. \A i \in (k + 1)..(k + 1) : at[i] + PkLen(sent[i]) <= d
    <3>1. at[k + 1] + PkLen(sent[k + 1]) = d
      BY Zenon DEF f, L, p
    <3>2. d <= d /\ \A i \in (k + 1)..(k + 1) : i = k + 1
      BY <1>7, <1>8, <1>9
    <3> QED
      BY <3>1, <3>2, Zenon
  <2>3. \A i \in ((k + 1) + 1)..n : d <= at[i]
    <3>1. SUFFICES ASSUME NEW i \in ((k + 1) + 1)..n PROVE d <= at[i]
      OBVIOUS
    <3>2. i \in (k + 1)..n /\ k + 1 < i
      BY <1>3, <1>7
    <3>3. at[k + 1] + PkLen(sent[k + 1]) <= at[i]
      BY <1>4, <1>6, <3>2, Zenon DEF Laid
    <3> QED
      BY <3>3, Zenon DEF f, L, p
  <2> DEFINE g == k + 1
  <2>4. Dropped(T, l, sent, n, k, at, d, g, U, to)
    <3> HIDE DEF U, d
    <3> QED
      BY <1>3, <1>4, <1>5, <1>14, <2>1, <2>2, <2>3, Zenon DEF Dropped
  <2> HIDE DEF U, d, to, g
  <2>5. Laid(U, l - d, sent, n, g, to)
    BY <2>4, LaidDrop, Zenon
  <2> QED
    BY <2>5, Zenon DEF g
<1>18. to \in [((k + 1) + 1)..n -> 0..(l - d)]
  BY <1>17, Zenon DEF Laid
<1>19. pc' # "read" /\ Len(sent') = n
  BY <1>1 DEF n
<1> HIDE DEF to, d
<1>20. Pending'
  BY <1>1, <1>12, <1>14, <1>17, <1>18, <1>19, Zenon DEF Pending, Between
<1> QED
  BY <1>15, <1>16, <1>20

\* The last turn drops what comes before the next packet.
LEMMA DecodeDoneStep ==
    ASSUME CoderTypes, Delivered, Pending, DecodeDone
    PROVE  CoderTypes' /\ Delivered' /\ Pending'
<1> DEFINE n == Len(sent)
           k == Len(out_messages)
           T == inputbuffer_ \o stream
           l == Len(T)
           b == WriteIndex
           d == StartIndex
<1>1. /\ ~(d < b /\ Whole(d))
      /\ inputbuffer_' = SubSeq(inputbuffer_, d + 1, b) /\ pc' = "read"
      /\ sent' = sent /\ stream' = stream /\ out_messages' = out_messages /\ noise' = noise
  BY Zenon DEF DecodeDone
<1>2. /\ sent \in Seq(Sendable) /\ stream \in Seq(Byte) /\ inputbuffer_ \in Seq(Byte)
      /\ out_messages \in Seq([pkg : PacketType, parse_success : BOOLEAN])
      /\ noise \in 0..MaxNoise
  BY Zenon DEF CoderTypes
<1>3. /\ Sent(sent, n) /\ n \in Nat /\ k \in 0..n /\ Bytes(T, l) /\ BufferOf(T, l)
  BY Basics, Zenon
<1>4. PICK at : Laid(T, l, sent, n, k, at)
  BY Zenon DEF Pending
<1>5. l \in Nat /\ b \in Nat /\ b <= l
  <2>1. l \in Nat /\ b \in 0..l
    BY <1>3, Zenon DEF Bytes, BufferOf
  <2> HIDE DEF l, b
  <2> QED
    BY <2>1
<1>6. \/ /\ k + 1 \in (k + 1)..n /\ at[k + 1] \in 0..l /\ at[k + 1] < b /\ d = at[k + 1]
         /\ ~(at[k + 1] + PkLen(sent[k + 1]) <= b)
      \/ (\A i \in (k + 1)..n : b <= at[i]) /\ d = b
  <2>1. \/ /\ k + 1 \in (k + 1)..n /\ at[k + 1] \in 0..l /\ at[k + 1] < WriteIndex
           /\ StartIndex = at[k + 1]
           /\ Whole(StartIndex) <=> at[k + 1] + PkLen(sent[k + 1]) <= WriteIndex
           /\ Whole(StartIndex) => EndIndex(StartIndex) = at[k + 1] + PkLen(sent[k + 1]) - 1
        \/ /\ \A i \in (k + 1)..n : WriteIndex <= at[i]
           /\ StartIndex = WriteIndex
    <3> HIDE DEF n, k, T, l
    <3> QED
      BY <1>3, <1>4, <1>5, ScanResult, Zenon
  <2> QED
    BY <1>1, <2>1, Zenon
<1> HIDE DEF n, k, T, l, b, d
<1>7. d \in 0..b /\ \A i \in (k + 1)..n : d <= at[i]
  <2>1. CASE (\A i \in (k + 1)..n : b <= at[i]) /\ d = b
    BY <1>5, <2>1
  <2>2. CASE /\ k + 1 \in (k + 1)..n /\ at[k + 1] \in 0..l /\ at[k + 1] < b /\ d = at[k + 1]
    <3>1. d \in 0..b
      BY <1>5, <2>2
    <3>2. ASSUME NEW i \in (k + 1)..n
          PROVE  d <= at[i]
      <4>1. CASE i = k + 1
        BY <2>2, <4>1
      <4>2. CASE i # k + 1
        <5>1. k + 1 < i /\ k + 1 \in 1..n
          BY <1>3, <4>2
        <5>2. at[k + 1] + PkLen(sent[k + 1]) <= at[i]
          BY <1>4, <2>2, <5>1, Zenon DEF Laid
        <5>3. PkLen(sent[k + 1]) \in Nat
          BY <1>3, <5>1, PacketLength, Zenon DEF Sent
        <5>4. at[i] \in 0..l
          <6>1. at \in [(k + 1)..n -> 0..l]
            BY <1>4, Zenon DEF Laid
          <6> QED
            BY <6>1
        <5> QED
          BY <2>2, <5>2, <5>3, <5>4
      <4> QED
        BY <4>1, <4>2
    <3> QED
      BY <3>1, <3>2
  <2> QED
    BY <1>6, <2>1, <2>2, Zenon
<1> DEFINE U == inputbuffer_' \o stream'
<1>8. /\ inputbuffer_' \in Seq(Byte) /\ WriteIndex' = b - d /\ d \in 0..l /\ Len(U) = l - d
      /\ \A x \in 1..(l - d) : U[x] = T[d + x]
  BY <1>1, <1>7, BufferDrop, Zenon DEF T, l, b
<1>9. CoderTypes'
  <2>1. pc' \in {"read", "decode"}
    BY <1>1
  <2> QED
    BY <1>1, <1>2, <1>8, <2>1, Zenon DEF CoderTypes
<1>10. Delivered'
  BY <1>1, Zenon DEF Delivered
<1> DEFINE to == [i \in (k + 1)..n |-> at[i] - d]
<1>11. Laid(U, l - d, sent, n, k, to)
  <2>1. k \in k..n /\ \A i \in (k + 1)..k : at[i] + PkLen(sent[i]) <= d
    BY <1>3
  <2>2. Dropped(T, l, sent, n, k, at, d, k, U, to)
    <3> HIDE DEF U
    <3> QED
      BY <1>3, <1>4, <1>5, <1>7, <1>8, <2>1, Zenon DEF Dropped
  <2> HIDE DEF U, to
  <2> QED
    BY <2>2, LaidDrop, Zenon
<1>12. to \in [(k + 1)..n -> 0..(l - d)]
  BY <1>11, Zenon DEF Laid
<1>13. Between(TRUE, b - d, sent, n, k, to)
  <2>1. CASE d = b
    <3>1. b - d = 0
      BY <1>5, <2>1
    <3> QED
      BY <3>1, Zenon DEF Between
  <2>2. CASE /\ k + 1 \in (k + 1)..n /\ at[k + 1] \in 0..l /\ at[k + 1] < b /\ d = at[k + 1]
             /\ ~(at[k + 1] + PkLen(sent[k + 1]) <= b)
    <3>1. k + 1 <= n /\ to[k + 1] = 0 /\ k + 1 \in 1..n
      BY <1>3, <2>2
    <3>2. PkLen(sent[k + 1]) \in Nat
      BY <1>3, <3>1, PacketLength, Zenon DEF Sent
    <3>3. b - d < PkLen(sent[k + 1])
      BY <1>5, <2>2, <3>2
    <3> QED
      BY <3>1, <3>3, Zenon DEF Between
  <2> QED
    BY <1>6, <2>1, <2>2, Zenon
<1> HIDE DEF to
<1>14. Len(sent') = n /\ Len(out_messages') = k /\ (pc' = "read") = TRUE
  BY <1>1, Zenon DEF n, k
<1>15. Pending'
  BY <1>1, <1>8, <1>11, <1>12, <1>13, <1>14, Zenon DEF Pending
<1> QED
  BY <1>9, <1>10, <1>15

-----------------------------------------------------------------------------
(* The ids *)

\* A set of natural numbers that is not empty has a least element.
LEMMA LeastNat ==
    ASSUME NEW T, T \subseteq Nat, T # {}
    PROVE  \E x \in T : \A y \in T : x <= y
<1> DEFINE R == {ss \in Nat \X Nat : ss[1] < ss[2]}
<1>0. OpToRel(<, Nat) = R
  BY Zenon DEF OpToRel
<1>1. PICK x \in T : \A y \in T : ~(<<y, x>> \in R)
  BY <1>0, NatLessThanWellFounded, WFMin, ZenonT(60)
<1>2. ASSUME NEW y \in T
      PROVE  x <= y
  <2>1. x \in Nat /\ y \in Nat
    BY Zenon
  <2>2. <<y, x>> \in Nat \X Nat /\ <<y, x>>[1] = y /\ <<y, x>>[2] = x
    BY <2>1
  <2>3. ~(<<y, x>>[1] < <<y, x>>[2])
    BY <1>1, <2>2, Zenon
  <2>4. ~(y < x)
    BY <2>2, <2>3, Zenon
  <2> HIDE <1>1
  <2> QED
    BY <2>1, <2>4
<1> QED
  BY <1>2, Zenon

\* The digit that takes the carry.
TakesCarry(id, i) ==
    /\ id[i] # MaxDigit
    /\ \A j \in DOMAIN id : j > i => id[j] = MaxDigit

\* An id that is not the highest has such a digit, and it is the one the code finds.
LEMMA CarryPlace ==
    ASSUME NEW id \in Ids, id # t_max_msg_id_no
    PROVE  \E i \in 1..g_msg_id_length :
             /\ TakesCarry(id, i)
             /\ Incremented(id) = Carry(id, i)
<1> DEFINE g == g_msg_id_length
           T == {m \in Nat : \E i \in 1..g : m = g - i /\ id[i] # MaxDigit}
<1>1. g \in Nat /\ MaxDigit \in 1..9
  BY IdAssumption
<1>2. id \in [1..g -> 0..MaxDigit]
  BY Zenon DEF Ids
<1>3. PICK a \in 1..g : id[a] # MaxDigit
  BY <1>2, Zenon DEF t_max_msg_id_no
<1>4. g - a \in T
  BY <1>1, <1>3
<1>5. PICK m \in T : \A y \in T : m <= y
  <2>1. T \subseteq Nat /\ T # {}
    BY <1>4, Zenon
  <2> HIDE DEF T
  <2> QED
    BY <2>1, LeastNat, Zenon
<1>6. PICK i \in 1..g : m = g - i /\ id[i] # MaxDigit
  BY <1>5, Zenon
<1>7. ASSUME NEW j \in 1..g, j > i
      PROVE  id[j] = MaxDigit
  <2>1. SUFFICES ASSUME id[j] # MaxDigit PROVE FALSE
    OBVIOUS
  <2>2. g - j \in Nat
    BY <1>1
  <2>3. g - j \in T
    BY <2>1, <2>2, Zenon
  <2>4. m <= g - j
    BY <1>5, <2>3, Zenon
  <2> QED
    BY <1>1, <1>6, <1>7, <2>4
<1>8. DOMAIN id = 1..g
  BY <1>2
<1>9. i \in DOMAIN id /\ TakesCarry(id, i)
  BY <1>6, <1>7, <1>8, Zenon DEF TakesCarry
<1> DEFINE c == CHOOSE e \in DOMAIN id : TakesCarry(id, e)
<1>10. c \in DOMAIN id /\ TakesCarry(id, c)
  BY <1>9, Zenon
<1>11. Incremented(id) = Carry(id, c)
  BY Zenon DEF Incremented, TakesCarry
<1> HIDE DEF c
<1> QED
  BY <1>8, <1>10, <1>11, Zenon

\* GetMsgId gives an id.
LEMMA NextId ==
    ASSUME IdTyped, GetMsgId
    PROVE  t_msg_id_no' \in Ids
<1>1. CASE ~(t_msg_id_no = <<>> \/ t_msg_id_no = t_max_msg_id_no)
  <2> DEFINE id == t_msg_id_no
             g == g_msg_id_length
  <2>1. id \in Ids /\ id # t_max_msg_id_no /\ t_msg_id_no' = Incremented(id)
    BY <1>1, Zenon DEF IdTyped, GetMsgId
  <2>2. PICK i \in 1..g : TakesCarry(id, i) /\ t_msg_id_no' = Carry(id, i)
    BY <2>1, CarryPlace, Zenon
  <2>3. id \in [1..g -> 0..MaxDigit] /\ MaxDigit \in Nat
    BY <2>1, IdAssumption DEF Ids
  <2> HIDE DEF id
  <2>4. id[i] # MaxDigit
    BY <2>2, Zenon DEF TakesCarry
  <2>5. Carry(id, i) = [j \in 1..g |-> IF j < i THEN id[j] ELSE IF j = i THEN id[j] + 1 ELSE 0]
    BY <2>3 DEF Carry
  <2>6. Carry(id, i) \in [1..g -> 0..MaxDigit]
    BY <2>3, <2>4, <2>5
  <2> QED
    BY <2>2, <2>6, Zenon DEF Ids
<1>2. CASE t_msg_id_no = <<>> \/ t_msg_id_no = t_max_msg_id_no
  BY <1>2, Zenon DEF GetMsgId
<1> QED
  BY <1>1, <1>2, Zenon

\* A function on 1..g is a sequence of length g.
LEMMA FunctionLength ==
    ASSUME NEW S, NEW g \in Nat, NEW s \in [1..g -> S]
    PROVE  s \in Seq(S) /\ Len(s) = g
<1>1. s \in Seq(S)
  BY SMT
<1>2. Len(s) \in Nat /\ DOMAIN s = 1..Len(s)
  BY <1>1, LenProperties
<1>3. 1..Len(s) = 1..g
  BY <1>2, Zenon
<1>4. \A a, b \in Nat : a < b => b \in 1..b /\ ~(b \in 1..a)
  OBVIOUS
<1>5. ~(Len(s) < g) /\ ~(g < Len(s))
  BY <1>2, <1>3, <1>4, Zenon
<1>6. \A a, b \in Nat : ~(a < b) /\ ~(b < a) => a = b
  OBVIOUS
<1> QED
  BY <1>1, <1>2, <1>5, <1>6, Zenon

\* Its characters.
LEMMA IdChars ==
    ASSUME NEW id \in Ids
    PROVE  Chars(id) \in Seq(Byte) /\ Len(Chars(id)) = g_msg_id_length
<1> DEFINE g == g_msg_id_length
           s == Chars(id)
<1>1. g \in Nat /\ MaxDigit \in 1..9
  BY IdAssumption
<1>2. id \in [1..g -> 0..MaxDigit]
  BY Zenon DEF Ids
<1>3. s = [i \in 1..g |-> 48 + id[i]]
  BY <1>2 DEF Chars
<1>4. ASSUME NEW i \in 1..g
      PROVE  48 + id[i] \in Byte
  <2>1. id[i] \in 0..MaxDigit
    BY <1>2, Zenon
  <2> QED
    BY <1>1, <2>1 DEF Byte
<1>5. s \in [1..g -> Byte]
  BY <1>3, <1>4, Zenon
<1> HIDE DEF s
<1>6. s \in Seq(Byte) /\ Len(s) = g
  BY <1>1, <1>5, FunctionLength, Zenon
<1> QED
  BY <1>6, Zenon DEF s

\* A packet with another id.
LEMMA NewId ==
    ASSUME NEW p \in PacketType, NEW id \in Seq(Byte)
    PROVE  LET q == [p EXCEPT !.id = id]
           IN /\ q \in PacketType /\ q.id = id /\ q.name = p.name /\ q.data = p.data
              /\ \A other : [q EXCEPT !.id = other] = [p EXCEPT !.id = other]
<1> DEFINE B == Seq(Byte)
           E == 0..INT32_MAX
           Y == Byte
<1>1. p \in [type : Y, id : B, name : B, error : E, data : B] /\ id \in B
  BY Zenon DEF PacketType
<1> HIDE DEF B, E, Y
<1> DEFINE q == [p EXCEPT !.id = id]
<1>2. q.id = id /\ q.name = p.name /\ q.data = p.data
  BY <1>1, SMT
<1>3. q \in [type : Y, id : B, name : B, error : E, data : B]
  BY <1>1, SMT
<1>4. ASSUME NEW other
      PROVE  [q EXCEPT !.id = other] = [p EXCEPT !.id = other]
  <2>1. p = [type |-> p.type, id |-> p.id, name |-> p.name, error |-> p.error, data |-> p.data]
    BY <1>1, SMT
  <2>2. q = [type |-> p.type, id |-> id, name |-> p.name, error |-> p.error, data |-> p.data]
    BY <1>1, SMT
  <2>3. /\ [p EXCEPT !.id = other]
             = [type |-> p.type, id |-> other, name |-> p.name, error |-> p.error, data |-> p.data]
        /\ [q EXCEPT !.id = other]
             = [type |-> p.type, id |-> other, name |-> p.name, error |-> p.error, data |-> p.data]
    <3> DEFINE a == p.type
               b == p.id
               c == p.name
               d == p.error
               e == p.data
    <3>1. /\ p = [type |-> a, id |-> b, name |-> c, error |-> d, data |-> e]
          /\ q = [type |-> a, id |-> id, name |-> c, error |-> d, data |-> e]
      BY <2>1, <2>2, Zenon
    <3> HIDE DEF a, b, c, d, e, q
    <3>2. /\ [p EXCEPT !.id = other] = [type |-> a, id |-> other, name |-> c, error |-> d, data |-> e]
          /\ [q EXCEPT !.id = other] = [type |-> a, id |-> other, name |-> c, error |-> d, data |-> e]
      BY <3>1
    <3> QED
      BY <3>2, Zenon DEF a, b, c, d, e
  <2> QED
    BY <2>3, Zenon
<1> QED
  BY <1>2, <1>3, <1>4, Zenon DEF PacketType, B, E, Y

\* What a packet weighs with an id of either length is in the range of an int.
LEMMA IdFits ==
    ASSUME NEW p \in Packets, NEW id \in Seq(Byte), Len(id) \in {Len(DefaultId), g_msg_id_length}
    PROVE  [p EXCEPT !.id = id] \in Sendable
<1> DEFINE q == [p EXCEPT !.id = id]
<1>1. p \in PacketType
  BY PacketAssumption, Zenon
<1>2. q \in PacketType /\ q.id = id /\ q.name = p.name /\ q.data = p.data
  BY <1>1, NewId, Zenon
<1>3. PkLen(q) = 3 + 4 * 5 + Len(id) + Len(p.name) + Len(p.data)
  BY <1>2, Zenon DEF PkLen
<1>4. 3 + 4 * 5 + Len(id) + Len(p.name) + Len(p.data) <= INT32_MAX
  BY LengthAssumption, Zenon
<1> HIDE DEF q
<1>5. PkLen(q) <= INT32_MAX
  BY <1>3, <1>4, Zenon
<1> QED
  BY <1>2, <1>5, Zenon DEF q, Sendable

\* What encode writes for a numbered packet is in the range.
LEMMA NumberedFits ==
    ASSUME NEW p \in Packets, NEW id \in Ids
    PROVE  WithId([p EXCEPT !.id = Chars(id)]) \in Sendable
<1> DEFINE q == [p EXCEPT !.id = Chars(id)]
<1>1. q \in Sendable
  BY IdChars, IdFits, Zenon
<1>2. Len(<<>>) # Len(Chars(id))
  <2>1. Len(Chars(id)) = g_msg_id_length
    BY IdChars, Zenon
  <2> QED
    BY <2>1, IdAssumption
<1>3. q.id = Chars(id)
  <2>1. p \in PacketType
    BY PacketAssumption, Zenon
  <2> QED
    BY <2>1, SMT DEF PacketType
<1>4. q.id # <<>>
  BY <1>2, <1>3, Zenon
<1> HIDE DEF q
<1>5. WithId(q) = q
  BY <1>4, Zenon DEF WithId
<1> QED
  BY <1>1, <1>5, Zenon DEF q

\* And for a packet that encode gives an id.
LEMMA UnnumberedFits ==
    ASSUME NEW p \in Packets
    PROVE  WithId([p EXCEPT !.id = <<>>]) \in Sendable
<1> DEFINE q == [p EXCEPT !.id = <<>>]
<1>1. p \in PacketType
  BY PacketAssumption, Zenon
<1>2. q.id = <<>> /\ [q EXCEPT !.id = DefaultId] = [p EXCEPT !.id = DefaultId]
  <2>1. <<>> \in Seq(Byte)
    BY EmptySeq, Zenon
  <2> QED
    BY <1>1, <2>1, NewId, Zenon
<1>3. [p EXCEPT !.id = DefaultId] \in Sendable
  BY PacketAssumption, IdFits, Zenon
<1> HIDE DEF q
<1>4. WithId(q) = [q EXCEPT !.id = DefaultId]
  BY <1>2, Zenon DEF WithId
<1> QED
  BY <1>2, <1>3, <1>4, Zenon DEF q

-----------------------------------------------------------------------------
(* The invariant *)

\* The invariant holds when nothing has been sent.
LEMMA InvInit == OutInit => CoderInv
<1> SUFFICES ASSUME OutInit PROVE CoderInv
  OBVIOUS
<1>1. /\ sent = <<>> /\ stream = <<>> /\ inputbuffer_ = <<>> /\ out_messages = <<>>
      /\ pc = "read" /\ noise = 0 /\ t_msg_id_no = <<>>
  BY Zenon DEF OutInit, CoderInit, IdInit
<1>2. \A S : <<>> \in Seq(S)
  BY EmptySeq, Zenon
<1>3. 0 \in 0..MaxNoise
  BY CountAssumption
<1>4. CoderTypes
  <2>1. pc \in {"read", "decode"}
    BY <1>1
  <2> QED
    BY <1>1, <1>2, <1>3, <2>1, Zenon DEF CoderTypes
<1>5. IdTyped
  BY <1>1, Zenon DEF IdTyped
<1>6. Len(sent) = 0 /\ Len(out_messages) = 0 /\ WriteIndex = 0
  BY <1>1 DEF WriteIndex
<1>7. Delivered
  <2>1. 0 <= 0 /\ 1..0 = {}
    OBVIOUS
  <2> QED
    BY <1>6, <2>1, Zenon DEF Delivered
<1>8. Pending
  <2> DEFINE T == inputbuffer_ \o stream
             at == [i \in (0 + 1)..0 |-> 0]
  <2>1. Len(T) = 0
    BY <1>1
  <2>2. (0 + 1)..0 = {} /\ 1..0 = {}
    OBVIOUS
  <2>3. at \in [(0 + 1)..0 -> 0..0]
    BY <2>2
  <2>4. Laid(T, 0, sent, 0, 0, at)
    BY <2>2, <2>3, Zenon DEF Laid
  <2>5. Between(pc = "read", 0, sent, 0, 0, at)
    BY Zenon DEF Between
  <2> HIDE DEF at
  <2> QED
    BY <1>6, <2>1, <2>3, <2>4, <2>5, Zenon DEF Pending
<1> QED
  BY <1>4, <1>5, <1>7, <1>8, Zenon DEF CoderInv

\* Every step keeps the invariant.
LEMMA InvNext == CoderInv /\ [OutNext]_outVars => CoderInv'
<1> SUFFICES ASSUME CoderInv, [OutNext]_outVars PROVE CoderInv'
  OBVIOUS
<1> USE DEF CoderInv
<1>1. ASSUME NEW p \in Packets, SendNumbered(p) PROVE CoderInv'
  <2>1. GetMsgId /\ Encode([p EXCEPT !.id = Chars(t_msg_id_no')])
    BY <1>1, Zenon DEF SendNumbered
  <2>2. t_msg_id_no' \in Ids
    BY <2>1, NextId, Zenon
  <2>3. WithId([p EXCEPT !.id = Chars(t_msg_id_no')]) \in Sendable
    BY <2>2, NumberedFits, Zenon
  <2>4. CoderTypes' /\ Delivered' /\ Pending'
    BY <2>1, <2>3, EncodeStep, Zenon
  <2> QED
    BY <2>2, <2>4, Zenon DEF IdTyped
<1>2. ASSUME NEW p \in Packets, SendWithoutId(p) PROVE CoderInv'
  <2>1. Encode([p EXCEPT !.id = <<>>]) /\ t_msg_id_no' = t_msg_id_no
    BY <1>2, Zenon DEF SendWithoutId
  <2>2. WithId([p EXCEPT !.id = <<>>]) \in Sendable
    BY UnnumberedFits, Zenon
  <2>3. CoderTypes' /\ Delivered' /\ Pending'
    BY <2>1, <2>2, EncodeStep, Zenon
  <2> QED
    BY <2>1, <2>3, Zenon DEF IdTyped
<1>3. ASSUME NEW z \in Noise, SendNoise(z), t_msg_id_no' = t_msg_id_no PROVE CoderInv'
  BY <1>3, NoiseStep, Zenon DEF IdTyped
<1>4. ASSUME NEW j \in 1..Len(stream), Arrive(j), t_msg_id_no' = t_msg_id_no PROVE CoderInv'
  BY <1>4, ArriveStep, Zenon DEF IdTyped
<1>5. ASSUME DecodeOne, t_msg_id_no' = t_msg_id_no PROVE CoderInv'
  BY <1>5, DecodeOneStep, Zenon DEF IdTyped
<1>6. ASSUME DecodeDone, t_msg_id_no' = t_msg_id_no PROVE CoderInv'
  BY <1>6, DecodeDoneStep, Zenon DEF IdTyped
<1>7. ASSUME coderVars' = coderVars, t_msg_id_no' = t_msg_id_no PROVE CoderInv'
  <2>1. /\ sent' = sent /\ stream' = stream /\ inputbuffer_' = inputbuffer_
        /\ out_messages' = out_messages /\ pc' = pc /\ noise' = noise
    BY <1>7 DEF coderVars
  <2>2. CoderTypes' /\ Delivered' /\ Pending'
    BY <2>1, Zenon DEF CoderTypes, Delivered, Pending, WriteIndex
  <2> QED
    BY <1>7, <2>2, Zenon DEF IdTyped
<1>8. CASE outVars' = outVars
  BY <1>7, <1>8 DEF outVars
<1>9. CASE OutNext
  BY <1>1, <1>2, <1>3, <1>4, <1>5, <1>6, <1>7, <1>9, Zenon DEF OutNext, Finished
<1> QED
  BY <1>8, <1>9, Zenon

\* So it always holds.
LEMMA Invariant == OutSpec => []CoderInv
  BY InvInit, InvNext, PTL DEF OutSpec

\* The types of the coder's state.
THEOREM CoderTypeCorrect == OutSpec => []CoderTypeOK
<1>1. CoderInv => CoderTypeOK
  <2> SUFFICES ASSUME CoderInv PROVE CoderTypeOK
    OBVIOUS
  <2>1. /\ sent \in Seq(Sendable) /\ stream \in Seq(Byte) /\ inputbuffer_ \in Seq(Byte)
        /\ out_messages \in Seq([pkg : PacketType, parse_success : BOOLEAN])
        /\ pc \in {"read", "decode"} /\ noise \in 0..MaxNoise
    BY Zenon DEF CoderInv, CoderTypes
  <2>2. sent \in Seq(PacketType)
    <3>1. Sendable \subseteq PacketType
      BY Zenon DEF Sendable
    <3> QED
      BY <2>1, <3>1, SeqMonotonic, Zenon
  <2>3. ASSUME NEW i \in 1..Len(out_messages)
        PROVE  out_messages[i].pkg \in PacketType /\ out_messages[i].parse_success \in BOOLEAN
    <3>1. out_messages[i] \in [pkg : PacketType, parse_success : BOOLEAN]
      BY <2>1, ElementOfSeq, Zenon
    <3> QED
      BY <3>1
  <2> QED
    BY <2>1, <2>2, <2>3, Zenon DEF CoderTypeOK
<1> QED
  BY <1>1, Invariant, PTL

\* decode delivers the packets that were encoded, every field as it was and in
\* their order, however the stream is cut into reads.
THEOREM PacketsRoundTrip == OutSpec => []RoundTrip
<1>1. CoderInv => RoundTrip
  <2> SUFFICES ASSUME CoderInv PROVE RoundTrip
    OBVIOUS
  <2> DEFINE n == Len(sent)
             k == Len(out_messages)
             T == inputbuffer_ \o stream
  <2>1. CoderTypes /\ Delivered /\ Pending
    BY Zenon DEF CoderInv
  <2>2. ASSUME pc = "read", stream = <<>>
        PROVE  k = n
    <3>1. PICK at : Laid(T, Len(T), sent, n, k, at) /\ Between(TRUE, WriteIndex, sent, n, k, at)
      BY <2>1, <2>2, Zenon DEF Pending
    <3>2. /\ Sent(sent, n) /\ n \in Nat /\ k \in 0..n
          /\ Len(T) = WriteIndex + Len(stream) /\ Bytes(inputbuffer_, WriteIndex)
      BY <2>1, Basics, Zenon
    <3>3. Len(stream) = 0 /\ WriteIndex \in Nat
      BY <2>2, <3>2 DEF Bytes
    <3> DEFINE l == Len(T)
               b == WriteIndex
    <3>4. l = b /\ b \in Nat
      BY <3>2, <3>3
    <3>5. SUFFICES ASSUME k < n PROVE FALSE
      <4> HIDE DEF k, n
      <4> QED
        BY <3>2
    <3> HIDE DEF n, k, T, l, b
    <3>6. k + 1 \in (k + 1)..n /\ k + 1 \in 1..n
      BY <3>2, <3>5
    <3> DEFINE f == at[k + 1]
               L == PkLen(sent[k + 1])
    <3>7. L \in Nat /\ L >= 23
      BY <3>2, <3>6, PacketLength, Zenon DEF Sent
    <3>8. at \in [(k + 1)..n -> 0..l] /\ f + L <= l
      BY <3>1, <3>6, Zenon DEF Laid, l
    <3>9. f \in 0..l
      BY <3>6, <3>8, Zenon
    <3>10. b = 0 \/ (f = 0 /\ b < L)
      BY <3>1, Zenon DEF Between, b
    <3> HIDE DEF f, L
    <3> QED
      BY <3>4, <3>7, <3>8, <3>9, <3>10
  <2> QED
    BY <2>1, <2>2, Zenon DEF RoundTrip, Delivered
<1> QED
  BY <1>1, Invariant, PTL

\* Between two reads the buffer holds the beginning of the next packet, and
\* nothing else.
THEOREM StaysInSync == OutSpec => []InSync
<1>1. CoderInv => InSync
  <2> SUFFICES ASSUME CoderInv, pc = "read", inputbuffer_ # <<>>
               PROVE  /\ Len(out_messages) < Len(sent)
                      /\ IsProperPrefix(inputbuffer_, Encoded(sent[Len(out_messages) + 1]))
    BY Zenon DEF InSync
  <2> DEFINE n == Len(sent)
             k == Len(out_messages)
             T == inputbuffer_ \o stream
             l == Len(T)
             b == WriteIndex
             p == sent[k + 1]
             E == Encoded(p)
             L == PkLen(p)
  <2>1. CoderTypes /\ Delivered /\ Pending
    BY Zenon DEF CoderInv
  <2>2. PICK at : Laid(T, l, sent, n, k, at) /\ Between(TRUE, b, sent, n, k, at)
    BY <2>1, Zenon DEF Pending
  <2>3. /\ Sent(sent, n) /\ n \in Nat /\ k \in 0..n /\ Bytes(inputbuffer_, b)
        /\ BufferOf(T, l)
    BY <2>1, Basics, Zenon
  <2>4. inputbuffer_ \in Seq(Byte)
    BY <2>1, Zenon DEF CoderTypes
  <2>5. b # 0
    BY <2>4, EmptySeq, Zenon DEF WriteIndex
  <2>6. k + 1 <= n /\ at[k + 1] = 0 /\ b < L
    BY <2>2, <2>5, Zenon DEF Between
  <2>7. k < n /\ k + 1 \in 1..n /\ k + 1 \in (k + 1)..n
    <3> HIDE DEF n, k
    <3> QED
      BY <2>3, <2>6
  <2>8. p \in Sendable
    BY <2>3, <2>7, Zenon DEF Sent
  <2>9. E \in Seq(Byte) /\ Len(E) = L /\ L \in Nat
    <3>1. EncodedAs(E, p) /\ L = 23 + Len(p.id) + Len(p.name) + Len(p.data) /\ L \in Nat
      BY <2>8, EncodedBytes, PacketFields, PacketLength, Zenon
    <3> HIDE DEF E, L, p
    <3> QED
      BY <3>1, Zenon DEF EncodedAs, Bytes
  <2>10. \A x \in 1..L : T[x] = E[x]
    <3>1. PacketAt(T, 0, p)
      BY <2>2, <2>6, <2>7, Zenon DEF Laid
    <3>2. \A x \in 1..L : T[0 + x] = E[x]
      BY <3>1, Zenon DEF PacketAt, Has
    <3>3. \A x \in 1..L : 0 + x = x
      BY <2>9
    <3> QED
      BY <3>2, <3>3, Zenon
  <2>11. b \in Nat /\ Len(inputbuffer_) = b /\ \A x \in 1..b : inputbuffer_[x] = T[x]
    BY <2>3, Zenon DEF Bytes, BufferOf
  <2> HIDE DEF n, k, T, l, b, p, E, L
  <2> DEFINE s == SubSeq(E, 1, b)
  <2>12. s \in Seq(Byte) /\ Len(s) = b /\ \A x \in 1..b : s[x] = E[x]
    <3>1. b <= Len(E) /\ \A x \in 1..b : 1 <= x /\ x <= Len(E)
      BY <2>6, <2>9, <2>11
    <3> QED
      BY <2>9, <2>11, <3>1
  <2> HIDE DEF s
  <2>13. \A x \in 1..b : inputbuffer_[x] = s[x]
    <3>1. \A x \in 1..b : x \in 1..L
      BY <2>6, <2>9, <2>11
    <3> QED
      BY <2>10, <2>11, <2>12, <3>1, Zenon
  <2>14. inputbuffer_ = s
    <3>1. Len(inputbuffer_) = Len(s) /\ \A x \in 1..Len(inputbuffer_) : inputbuffer_[x] = s[x]
      BY <2>11, <2>12, <2>13, Zenon
    <3> QED
      BY <2>4, <2>12, <3>1, SeqEqual, Zenon
  <2> QED
    BY <2>6, <2>7, <2>9, <2>11, <2>14, Zenon DEF IsProperPrefix, s, E, p, n, k
<1> QED
  BY <1>1, Invariant, PTL

-----------------------------------------------------------------------------
(* Ids as numbers *)

Base == MaxDigit + 1

\* v has the numbers of the first 0 to m digits of id.
Values(v, id, m) ==
    v = [n \in 0..m |-> IF n = 0 THEN 0 ELSE v[n - 1] * Base + id[n]]

\* There is such a function for the digits of every id.
LEMMA ValuesExist ==
    ASSUME NEW g \in Nat, NEW id \in [1..g -> Nat]
    PROVE  \E v \in [0..g -> Nat] : Values(v, id, g)
<1> DEFINE Bad == {m \in 0..g : ~ \E v \in [0..m -> Nat] : Values(v, id, m)}
<1>0. Base \in Nat
  BY IdAssumption DEF Base
<1>1. SUFFICES Bad = {}
  <2>1. g \in 0..g
    OBVIOUS
  <2> QED
    BY <1>1, <2>1, Zenon
<1>2. SUFFICES ASSUME Bad # {} PROVE FALSE
  BY Zenon
<1>3. PICK m \in Bad : \A y \in Bad : m <= y
  <2>1. Bad \subseteq Nat
    OBVIOUS
  <2> HIDE DEF Bad
  <2> QED
    BY <1>2, <2>1, LeastNat, Zenon
<1>4. m \in 0..g /\ ~ \E v \in [0..m -> Nat] : Values(v, id, m)
  BY <1>3, Zenon
<1>5. CASE m = 0
  <2> DEFINE v == [n \in 0..0 |-> 0]
  <2>1. v \in [0..0 -> Nat] /\ v = [n \in 0..0 |-> IF n = 0 THEN 0 ELSE v[n - 1] * Base + id[n]]
    OBVIOUS
  <2> HIDE DEF v
  <2> QED
    BY <1>4, <1>5, <2>1, Zenon DEF Values
<1>6. CASE m # 0
  <2>1. m - 1 \in 0..g /\ ~(m <= m - 1) /\ m \in 1..g /\ m \in Nat
    BY <1>4, <1>6
  <2>2. PICK w \in [0..(m - 1) -> Nat] : Values(w, id, m - 1)
    BY <1>3, <2>1, Zenon
  <2>3. \A n \in 0..(m - 1) : w[n] = IF n = 0 THEN 0 ELSE w[n - 1] * Base + id[n]
    BY <2>2, Zenon DEF Values
  <2> DEFINE v == [n \in 0..m |-> IF n = m THEN w[m - 1] * Base + id[m] ELSE w[n]]
  <2>4. m - 1 \in 0..(m - 1) /\ w[m - 1] \in Nat /\ id[m] \in Nat
    BY <2>1
  <2>5. w[m - 1] * Base + id[m] \in Nat
    <3>1. \A a, b, c \in Nat : a * b + c \in Nat
      OBVIOUS
    <3> QED
      BY <1>0, <2>4, <3>1, Zenon
  <2>6. ASSUME NEW n \in 0..m, n # m PROVE n \in 0..(m - 1)
    BY <2>1, <2>6
  <2>7. v \in [0..m -> Nat]
    <3>1. \A n \in 0..m : (IF n = m THEN w[m - 1] * Base + id[m] ELSE w[n]) \in Nat
      BY <2>5, <2>6, Zenon
    <3> QED
      BY <3>1, Zenon
  <2>8. ASSUME NEW n \in 0..m
        PROVE  v[n] = IF n = 0 THEN 0 ELSE v[n - 1] * Base + id[n]
    <3>1. n # 0 => n - 1 \in 0..m /\ n - 1 # m
      BY <2>1
    <3>2. n # 0 => v[n - 1] = w[n - 1]
      BY <3>1, Zenon
    <3>3. CASE n = m
      <4>1. v[n] = w[m - 1] * Base + id[m]
        BY <3>3, Zenon
      <4> HIDE DEF v
      <4> QED
        BY <1>6, <3>2, <3>3, <4>1, Zenon
    <3>4. CASE n # m
      <4>1. v[n] = w[n] /\ n \in 0..(m - 1)
        BY <2>6, <3>4, Zenon
      <4> HIDE DEF v
      <4> QED
        BY <2>3, <3>2, <4>1, Zenon
    <3> QED
      BY <3>3, <3>4
  <2>9. DOMAIN v = 0..m /\ v = [n \in DOMAIN v |-> v[n]]
    BY Zenon
  <2> HIDE DEF v
  <2>10. v = [n \in 0..m |-> IF n = 0 THEN 0 ELSE v[n - 1] * Base + id[n]]
    BY <2>7, <2>8, Zenon
  <2> QED
    BY <1>4, <2>7, <2>10, Zenon DEF Values
<1> QED
  BY <1>5, <1>6

\* So the recursive function of Number is one.
LEMMA NumberIsValue ==
    ASSUME NEW id \in Ids
    PROVE  \E v : /\ Values(v, id, g_msg_id_length)
                  /\ Number(id) = v[g_msg_id_length]
<1> DEFINE g == g_msg_id_length
<1>1. g \in Nat /\ MaxDigit \in Nat
  BY IdAssumption
<1>2. id \in [1..g -> 0..MaxDigit]
  BY Zenon DEF Ids
<1>3. Len(id) = g
  BY <1>1, <1>2, FunctionLength, Zenon
<1>4. id \in [1..g -> Nat]
  BY <1>1, <1>2
<1> DEFINE V[n \in 0..Len(id)] == IF n = 0 THEN 0 ELSE V[n - 1] * (MaxDigit + 1) + id[n]
<1>5. Number(id) = V[Len(id)]
  BY DEF Number
<1>6. \E f : f = [n \in 0..Len(id) |-> IF n = 0 THEN 0 ELSE f[n - 1] * (MaxDigit + 1) + id[n]]
  <2>1. PICK f \in [0..g -> Nat] : Values(f, id, g)
    BY <1>1, <1>4, ValuesExist, Zenon
  <2> QED
    BY <1>3, <2>1, Zenon DEF Values, Base
<1>7. V = [n \in 0..Len(id) |-> IF n = 0 THEN 0 ELSE V[n - 1] * (MaxDigit + 1) + id[n]]
  BY <1>6, Zenon
<1> HIDE DEF V
<1>8. Values(V, id, g)
  BY <1>3, <1>7, Zenon DEF Values, Base
<1> QED
  BY <1>3, <1>5, <1>8, Zenon

\* What Values says, place by place.  That its values are natural numbers is
\* the same argument: the first that is not would follow from one that is.
LEMMA ValuesAt ==
    ASSUME NEW g \in Nat, NEW id \in [1..g -> Nat], NEW v, Values(v, id, g)
    PROVE  /\ v[0] = 0
           /\ \A n \in 1..g : v[n] = v[n - 1] * Base + id[n]
           /\ \A n \in 0..g : v[n] \in Nat
<1> DEFINE Bad == {m \in 0..g : ~(v[m] \in Nat)}
<1>0. Base \in Nat
  BY IdAssumption DEF Base
<1>1. \A n \in 0..g : v[n] = IF n = 0 THEN 0 ELSE v[n - 1] * Base + id[n]
  BY Zenon DEF Values
<1>2. v[0] = 0
  <2>1. 0 \in 0..g
    OBVIOUS
  <2> QED
    BY <1>1, <2>1, Zenon
<1>3. ASSUME NEW n \in 1..g PROVE v[n] = v[n - 1] * Base + id[n]
  <2>1. n \in 0..g /\ n # 0
    OBVIOUS
  <2> QED
    BY <1>1, <2>1, Zenon
<1>4. ASSUME Bad # {} PROVE FALSE
  <2>1. PICK m \in Bad : \A y \in Bad : m <= y
    <3>1. Bad \subseteq Nat
      OBVIOUS
    <3> HIDE DEF Bad
    <3> QED
      BY <1>4, <3>1, LeastNat, Zenon
  <2>2. m \in 0..g /\ ~(v[m] \in Nat)
    BY <2>1, Zenon
  <2>3. m # 0
    BY <1>2, <2>2
  <2>4. m \in 1..g /\ m - 1 \in 0..g /\ ~(m <= m - 1)
    BY <2>2, <2>3
  <2>5. v[m - 1] \in Nat
    BY <2>1, <2>4, Zenon
  <2>6. v[m - 1] * Base + id[m] \in Nat
    <3>1. id[m] \in Nat
      BY <2>4
    <3> QED
      <4>1. \A a, b, c \in Nat : a * b + c \in Nat
        OBVIOUS
      <4> QED
        BY <1>0, <2>5, <3>1, <4>1, Zenon
  <2> QED
    BY <1>3, <2>2, <2>4, <2>6, Zenon
<1> QED
  BY <1>2, <1>3, <1>4, Zenon

\* One more: (a + 1) * b = a * b + (b - 1) + 1.
LEMMA CarryOver ==
    ASSUME NEW a \in Nat, NEW d \in Nat
    PROVE  (a + 1) * (d + 1) + 0 = (a * (d + 1) + d) + 1
  BY SMT

\* A carry at place i leaves the numbers before i and adds 1 from there on.
LEMMA CarryAddsOne ==
    ASSUME NEW id \in Ids, NEW i \in 1..g_msg_id_length, TakesCarry(id, i),
           NEW v, Values(v, id, g_msg_id_length),
           NEW w, Values(w, Carry(id, i), g_msg_id_length)
    PROVE  w[g_msg_id_length] = v[g_msg_id_length] + 1
<1> DEFINE g == g_msg_id_length
           up == Carry(id, i)
           D == MaxDigit
<1>1. g \in Nat /\ D \in Nat /\ Base = D + 1 /\ i \in 1..g
  BY IdAssumption DEF Base
<1>2. id \in [1..g -> 0..D] /\ DOMAIN id = 1..g
  BY Zenon DEF Ids
<1>3. /\ up = [j \in 1..g |-> IF j < i THEN id[j] ELSE IF j = i THEN id[j] + 1 ELSE 0]
      /\ \A j \in 1..g : j > i => id[j] = D
  BY <1>2, Zenon DEF Carry, TakesCarry
<1> HIDE DEF g, D
<1>4. id \in [1..g -> Nat]
  BY <1>1, <1>2
<1>5. ASSUME NEW j \in 1..g
      PROVE  up[j] = IF j < i THEN id[j] ELSE IF j = i THEN id[j] + 1 ELSE 0
  BY <1>3, Zenon
<1>6. up \in [1..g -> Nat]
  <2>1. \A j \in 1..g : (IF j < i THEN id[j] ELSE IF j = i THEN id[j] + 1 ELSE 0) \in Nat
    BY <1>4
  <2> HIDE DEF up
  <2> QED
    BY <1>3, <2>1, Zenon
<1> HIDE DEF up
<1>7. /\ v[0] = 0 /\ w[0] = 0
      /\ \A n \in 1..g : v[n] = v[n - 1] * Base + id[n]
      /\ \A n \in 1..g : w[n] = w[n - 1] * Base + up[n]
      /\ \A n \in 0..g : v[n] \in Nat
  <2>1. Values(v, id, g) /\ Values(w, up, g)
    BY Zenon DEF g, up
  <2> QED
    <3>1. /\ v[0] = 0 /\ \A n \in 1..g : v[n] = v[n - 1] * Base + id[n]
          /\ \A n \in 0..g : v[n] \in Nat
      BY <1>1, <1>4, <2>1, ValuesAt, ZenonT(60)
    <3>2. w[0] = 0 /\ \A n \in 1..g : w[n] = w[n - 1] * Base + up[n]
      BY <1>1, <1>6, <2>1, ValuesAt, ZenonT(60)
    <3> QED
      BY <3>1, <3>2, Zenon
<1> DEFINE Good(n) == (n < i => w[n] = v[n]) /\ (i <= n => w[n] = v[n] + 1)
           Bad == {n \in 0..g : ~Good(n)}
<1>8. ASSUME NEW m \in 1..g, Good(m - 1)
      PROVE  Good(m)
  <2>1. /\ v[m] = v[m - 1] * Base + id[m] /\ w[m] = w[m - 1] * Base + up[m]
        /\ v[m - 1] \in Nat /\ id[m] \in Nat
    <3>1. m - 1 \in 0..g
      BY <1>1
    <3> QED
      BY <1>4, <1>7, <3>1, Zenon
  <2>2. CASE m < i
    <3>1. w[m - 1] = v[m - 1] /\ up[m] = id[m] /\ ~(i <= m)
      BY <1>1, <1>5, <1>8, <2>2
    <3> QED
      BY <2>1, <3>1, Zenon
  <2>3. CASE m = i
    <3>1. w[m - 1] = v[m - 1] /\ up[m] = id[m] + 1 /\ ~(m < i)
      BY <1>1, <1>5, <1>8, <2>3
    <3>2. v[m - 1] * Base \in Nat
      BY <1>1, <2>1
    <3> DEFINE x == v[m - 1] * Base
               y == id[m]
    <3>3. x \in Nat /\ y \in Nat /\ v[m] = x + y /\ w[m] = x + (y + 1)
      BY <2>1, <3>1, <3>2, Zenon
    <3> HIDE DEF x, y
    <3>4. w[m] = v[m] + 1
      BY <3>3
    <3> QED
      BY <3>1, <3>4, Zenon
  <2>4. CASE m > i
    <3>1. w[m - 1] = v[m - 1] + 1 /\ up[m] = 0 /\ id[m] = D /\ ~(m < i)
      BY <1>1, <1>3, <1>5, <1>8, <2>4
    <3>2. (v[m - 1] + 1) * Base + 0 = (v[m - 1] * Base + D) + 1
      BY <1>1, <2>1, CarryOver, Zenon
    <3>3. w[m] = v[m] + 1
      BY <2>1, <3>1, <3>2, Zenon
    <3> QED
      BY <3>1, <3>3, Zenon
  <2> QED
    BY <1>1, <2>2, <2>3, <2>4
<1>9. ASSUME Bad # {} PROVE FALSE
  <2>1. PICK m \in Bad : \A y \in Bad : m <= y
    <3>1. Bad \subseteq Nat
      BY <1>1
    <3> HIDE DEF Bad
    <3> QED
      BY <1>9, <3>1, LeastNat, Zenon
  <2>2. m \in 0..g /\ ~Good(m)
    BY <2>1, Zenon
  <2>3. Good(0)
    BY <1>1, <1>7
  <2>4. m # 0
    BY <2>2, <2>3, Zenon
  <2> HIDE DEF Good
  <2>5. m \in 1..g /\ m - 1 \in 0..g /\ ~(m <= m - 1)
    BY <1>1, <2>2, <2>4
  <2>6. Good(m - 1)
    BY <2>1, <2>5, Zenon
  <2> QED
    BY <1>8, <2>2, <2>5, <2>6, Zenon
<1>10. g \in 0..g /\ i <= g
  BY <1>1
<1>11. Good(g)
  <2> HIDE DEF Good
  <2> QED
    BY <1>9, <1>10, Zenon
<1> QED
  BY <1>10, <1>11, Zenon DEF g

\* The carry over the digits is addition: as long as the numbers are not used
\* up, GetMsgId gives the next one.
THEOREM IdsCountUp == OutSpec => IdsCount
<1>1. ASSUME IdTyped, GetMsgId, t_msg_id_no \notin {<<>>, t_max_msg_id_no}
      PROVE  Number(t_msg_id_no') = Number(t_msg_id_no) + 1
  <2> DEFINE id == t_msg_id_no
  <2>1. id \in Ids /\ id # t_max_msg_id_no /\ t_msg_id_no' = Incremented(id)
    BY <1>1, Zenon DEF IdTyped, GetMsgId
  <2>2. t_msg_id_no' \in Ids
    BY <1>1, NextId, Zenon
  <2>3. PICK i \in 1..g_msg_id_length : TakesCarry(id, i) /\ t_msg_id_no' = Carry(id, i)
    BY <2>1, CarryPlace, Zenon
  <2>4. PICK v : Values(v, id, g_msg_id_length) /\ Number(id) = v[g_msg_id_length]
    BY <2>1, NumberIsValue, Zenon
  <2>5. PICK w : /\ Values(w, t_msg_id_no', g_msg_id_length)
                 /\ Number(t_msg_id_no') = w[g_msg_id_length]
    BY <2>2, NumberIsValue, Zenon
  <2>6. w[g_msg_id_length] = v[g_msg_id_length] + 1
    BY <2>1, <2>3, <2>4, <2>5, CarryAddsOne, Zenon
  <2> QED
    BY <2>4, <2>5, <2>6, Zenon
<1>2. CoderInv => IdTyped
  BY Zenon DEF CoderInv
<1> DEFINE Counts == GetMsgId /\ t_msg_id_no \notin {<<>>, t_max_msg_id_no}
                       => Number(t_msg_id_no') = Number(t_msg_id_no) + 1
<1>3. IdTyped => Counts
  BY <1>1, Zenon
<1>4. IdTyped => [Counts]_outVars
  BY <1>3, Zenon
<1> HIDE DEF Counts
<1>5. OutSpec => [][Counts]_outVars
  BY <1>2, <1>4, Invariant, PTL
<1> QED
  BY <1>5 DEF IdsCount, Counts
=============================================================================
