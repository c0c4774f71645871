------------------------------- MODULE Buffer -------------------------------
(****************************************************************************)
(* Buffer (src/common/Buffer.h, src/common/Buffer.cpp): a vector with a     *)
(* read and a write index that grows, or moves its contents to the front,   *)
(* when what is to be written does not fit behind the write index.          *)
(*                                                                          *)
(* A byte stands for its number in the stream that goes through the buffer: *)
(* `written` bytes have been put in and `taken` have been taken out.  Cells *)
(* that were never written hold 0.  Indices count from 0, as in the code,   *)
(* and cell i is buffer_[i].                                                *)
(****************************************************************************)
EXTENDS Integers

CONSTANTS
    kInitialSize,
    ExtraBuf,       \* size of the second area of readFd (65536)
    MaxLen,         \* bound: bytes of one write, and what a socket may hold
    MaxBytes        \* bound: bytes written in all

ASSUME SizeAssumption == kInitialSize \in Nat /\ ExtraBuf \in Nat
ASSUME BoundAssumption == MaxLen \in Nat /\ MaxBytes \in Nat

VARIABLES size, buffer_, readIndex_, writeIndex_, written, taken

vars == <<size, buffer_, readIndex_, writeIndex_, written, taken>>

TypeOK ==
    /\ size \in Nat
    /\ buffer_ \in [0..(size - 1) -> Nat]
    /\ writeIndex_ \in 0..size /\ readIndex_ \in 0..writeIndex_
    /\ written \in Nat /\ taken \in Nat

Init ==
    /\ size = kInitialSize
    /\ buffer_ = [i \in 0..(kInitialSize - 1) |-> 0]
    /\ readIndex_ = 0 /\ writeIndex_ = 0
    /\ written = 0 /\ taken = 0

readableBytes == writeIndex_ - readIndex_

writeableBytes == size - writeIndex_

-----------------------------------------------------------------------------
(* A state of the buffer as a value, for the methods that call others. *)

This == [size |-> size, cells |-> buffer_, r |-> readIndex_, w |-> writeIndex_]

\* buffer_.resize.
Resize(b, n) ==
    [size  |-> n,
     cells |-> [i \in 0..(n - 1) |-> IF i < b.size THEN b.cells[i] ELSE 0],
     r     |-> b.r,
     w     |-> b.w]

\* std::copy of the readable bytes to the front.
MoveToFront(b) ==
    [size  |-> b.size,
     cells |-> [i \in 0..(b.size - 1) |-> IF i < b.w - b.r THEN b.cells[b.r + i] ELSE b.cells[i]],
     r     |-> 0,
     w     |-> b.w - b.r]

\* Mutant: the contents are moved although that makes too little room.
GrowsNever(b, len) == FALSE

\* Mutant: the room before the read index is not made use of.
GrowsAlways(b, len) == b.size - b.w < len

\* makeSpace: is there too little room on both sides together?
Grows(b, len) == (b.size - b.w) + b.r < len

MakeSpace(b, len) ==
    IF Grows(b, len) THEN Resize(b, b.w + len) ELSE MoveToFront(b)

\* The bytes of the stream from number `first` on, at the write index.
Put(b, first, len) ==
    [size  |-> b.size,
     cells |-> [i \in 0..(b.size - 1) |->
                    IF i >= b.w /\ i < b.w + len THEN first + (i - b.w) ELSE b.cells[i]],
     r     |-> b.r,
     w     |-> b.w + len]

\* writeToBuffer.
Written(b, first, len) ==
    Put(IF b.size - b.w < len THEN MakeSpace(b, len) ELSE b, first, len)

Becomes(b) ==
    /\ size' = b.size
    /\ buffer_' = b.cells
    /\ readIndex_' = b.r
    /\ writeIndex_' = b.w

-----------------------------------------------------------------------------
(* The methods *)

\* writeToBuffer, and the append methods, which are calls of it.
WriteToBuffer(len) ==
    /\ written + len <= MaxBytes
    /\ Becomes(Written(This, written + 1, len))
    /\ written' = written + len
    /\ UNCHANGED taken

\* The first byte that went to the second area.
SpilledFrom(n) == written + writeableBytes + 1

\* readFd: readv fills the room behind the write index and then a second area,
\* whose contents are written to the buffer afterwards.
ReadFd(n) ==
    /\ n <= writeableBytes + ExtraBuf
    /\ written + n <= MaxBytes
    /\ IF n <= writeableBytes
       THEN Becomes(Put(This, written + 1, n))
       ELSE Becomes(Written(Put(This, written + 1, writeableBytes),
                            SpilledFrom(n), n - writeableBytes))
    /\ written' = written + n
    /\ UNCHANGED taken

\* Mutant: the indices are reset when a byte is left.
EmptiedEarly(len) == len + 1 >= readableBytes

Emptied(len) == len = readableBytes

\* retrieve, and the read methods, which copy the bytes out first; writeFd
\* retrieves what the socket took.
Retrieve(len) ==
    /\ len <= readableBytes
    /\ IF Emptied(len)
       THEN readIndex_' = 0 /\ writeIndex_' = 0
       ELSE readIndex_' = readIndex_ + len /\ UNCHANGED writeIndex_
    /\ taken' = taken + len
    /\ UNCHANGED <<size, buffer_, written>>

Next ==
    \/ \E len \in 0..MaxLen : WriteToBuffer(len) \/ ReadFd(len)
    \/ \E len \in 0..readableBytes : Retrieve(len)

Spec == Init /\ [][Next]_vars

-----------------------------------------------------------------------------
(* Properties *)

\* However writes, reads, moves and growth follow each other, the readable
\* bytes are those that were written and not yet taken, in their order: the
\* buffer is a queue of bytes.
StreamKept ==
    /\ readableBytes = written - taken /\ taken <= written
    /\ \A i \in 0..(size - 1) :
        readIndex_ <= i /\ i < writeIndex_ => buffer_[i] = taken + 1 + (i - readIndex_)

\* The vector grows only when its contents would not fit into all of it, and
\* then to less than twice what they need.
NoWaste == [][size' # size => size < readableBytes' /\ size' < 2 * readableBytes']_vars
=============================================================================
