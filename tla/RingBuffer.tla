----------------------------- MODULE RingBuffer -----------------------------
(***************************************************************************)
(* ring_buffer.c: the byte buffer between a socket (or the MIDI payload of *)
(* an RTP packet) and the MIDI parser.  Every operation runs under         *)
(* ring->lock, and the one that takes the lock twice (ring_buffer_drain)   *)
(* is only called with the lock of the enclosing midi_state held, so each  *)
(* operation is one action.  Allocation failures are not modelled.         *)
(*                                                                         *)
(* ring_buffer_read is modelled as ring_buffer_drain calls it, with len =  *)
(* used; ring_buffer_resize has no caller in the program.                  *)
(***************************************************************************)
EXTENDS Integers, Sequences

CONSTANTS Byte,      \* the values a cell can hold
          Size,      \* ring->size
          MaxWrite   \* bound on the length of a single write or comparison

ASSUME SizeAssumption == Size \in Nat \ {0}
ASSUME MaxWriteAssumption == MaxWrite \in Nat
ASSUME ByteAssumption == 0 \in Byte

VARIABLES data,      \* ring->data, indexed from 0
          start,     \* ring->start: the oldest unread byte
          end,       \* ring->end: one past the newest byte, Size at the edge
          used,      \* ring->used
          out,       \* the bytes handed to the caller by the last operation
          status,    \* the number returned by the last operation
          call       \* history: the last operation and its arguments, which tie
                     \* a step of the FIFO to the same call

ring == <<data, start, end, used>>
vars == <<data, start, end, used, out, status, call>>

Chunk == UNION {[1..n -> Byte] : n \in 1..MaxWrite}

\* ring_buffer_data_index: the cell that holds the byte at an offset.
DataIndex(offset) == (start + offset) % Size

\* memcpy( dst + at, src + from, n ) inside the array.
Copy(dst, at, src, from, n) ==
    [i \in 0..Size - 1 |->
        IF at <= i /\ i < at + n THEN src[1 + from + i - at] ELSE dst[i]]

\* ring_buffer_create: a zeroed array and the indices of ring_buffer_reset.
Init ==
    /\ data = [i \in 0..Size - 1 |-> 0]
    /\ start = 0
    /\ end = 0
    /\ used = 0
    /\ out = <<>>
    /\ status = 0
    /\ call = <<>>

Reset ==
    /\ data' = [i \in 0..Size - 1 |-> 0]
    /\ start' = 0
    /\ end' = 0
    /\ used' = 0
    /\ out' = <<>>
    /\ status' = 0

\* The four outcomes of ring_buffer_write, in the order the code tests them.
WriteRefused(bs) ==
    /\ used + Len(bs) > Size
    /\ status' = 0
    /\ UNCHANGED ring

WriteContiguous(bs) ==
    /\ used + Len(bs) <= Size
    /\ start <= end
    /\ end + Len(bs) <= Size
    /\ data' = Copy(data, end, bs, 0, Len(bs))
    /\ end' = end + Len(bs)
    /\ used' = used + Len(bs)
    /\ status' = Len(bs)
    /\ UNCHANGED start

\* Slip: the second memcpy starts from the beginning of the source again.
WriteSplitSameSource(bs) ==
    LET first_part  == Size - end
        second_part == Len(bs) - first_part
    IN  /\ used + Len(bs) <= Size
        /\ start <= end
        /\ end + Len(bs) > Size
        /\ data' = Copy(Copy(data, end, bs, 0, first_part), 0, bs, 0, second_part)
        /\ end' = second_part
        /\ used' = used + Len(bs)
        /\ status' = Len(bs)
        /\ UNCHANGED start

WriteSplit(bs) ==
    LET first_part  == Size - end
        second_part == Len(bs) - first_part
    IN  /\ used + Len(bs) <= Size
        /\ start <= end
        /\ end + Len(bs) > Size
        /\ data' = Copy(Copy(data, end, bs, 0, first_part),
                        0, bs, first_part, second_part)
        /\ end' = second_part
        /\ used' = used + Len(bs)
        /\ status' = Len(bs)
        /\ UNCHANGED start

\* Slip: the wrapped case forgets to count what it stored.
WriteWrappedUncounted(bs) ==
    /\ used + Len(bs) <= Size
    /\ start > end
    /\ data' = Copy(data, end, bs, 0, Len(bs))
    /\ end' = end + Len(bs)
    /\ status' = Len(bs)
    /\ UNCHANGED <<start, used>>

WriteWrapped(bs) ==
    /\ used + Len(bs) <= Size
    /\ start > end
    /\ data' = Copy(data, end, bs, 0, Len(bs))
    /\ end' = end + Len(bs)
    /\ used' = used + Len(bs)
    /\ status' = Len(bs)
    /\ UNCHANGED start

Write(bs) ==
    /\ out' = <<>>
    /\ \/ WriteRefused(bs)
       \/ WriteContiguous(bs)
       \/ WriteSplit(bs)
       \/ WriteWrapped(bs)

\* ring_buffer_read_byte with RING_YES: end is left where it is.
ReadByteEmpty ==
    /\ used = 0
    /\ out' = <<>>
    /\ status' = -1
    /\ UNCHANGED ring

\* Slip: start is advanced without wrapping.
ReadByteUnwrapped ==
    /\ used # 0
    /\ out' = <<data[start]>>
    /\ start' = start + 1
    /\ used' = used - 1
    /\ status' = 0
    /\ UNCHANGED <<data, end>>

ReadByteFound ==
    /\ used # 0
    /\ out' = <<data[start]>>
    /\ start' = IF start + 1 >= Size THEN 0 ELSE start + 1
    /\ used' = used - 1
    /\ status' = 0
    /\ UNCHANGED <<data, end>>

ReadByte == ReadByteEmpty \/ ReadByteFound

\* ring_buffer_drain: ring_buffer_read( ring, used, RING_YES ).
DrainEmpty ==
    /\ used = 0
    /\ out' = <<>>
    /\ status' = 0
    /\ UNCHANGED ring

DrainContiguous ==
    /\ used # 0
    /\ start < end
    /\ out' = [i \in 1..used |-> data[start + i - 1]]
    /\ status' = used
    /\ start' = IF start + used >= Size THEN 0 ELSE start + used
    /\ used' = 0
    /\ UNCHANGED <<data, end>>

DrainSplit ==
    LET first_part  == Size - start
        second_part == used - first_part
    IN  /\ used # 0
        /\ start >= end
        /\ out' = [i \in 1..used |-> IF i <= first_part
                                     THEN data[start + i - 1]
                                     ELSE data[i - first_part - 1]]
        /\ status' = used
        /\ start' = second_part
        /\ used' = 0
        /\ UNCHANGED <<data, end>>

Drain == DrainEmpty \/ DrainContiguous \/ DrainSplit

\* ring_buffer_advance: at most used bytes are skipped.
RealSteps(steps) == IF steps < used THEN steps ELSE used

Advance(steps) ==
    /\ start' = DataIndex(RealSteps(steps))
    /\ used' = used - RealSteps(steps)
    /\ end' = IF used' = 0 THEN start' ELSE end
    /\ out' = <<>>
    /\ status' = 0
    /\ UNCHANGED data

\* ring_buffer_compare: the callers only test the result against 0, so every
\* difference of two bytes is returned as -1.
Compare(bs) ==
    /\ status' = IF \A i \in 1..Len(bs) :
                       i <= used /\ data[DataIndex(i - 1)] = bs[i]
                 THEN 0 ELSE -1
    /\ out' = <<>>
    /\ UNCHANGED ring

CharCompare(compare, index) ==
    /\ status' = IF index < used /\ data[DataIndex(index)] = compare
                 THEN 1 ELSE 0
    /\ out' = <<>>
    /\ UNCHANGED ring

Next ==
    \/ \E bs \in Chunk : Write(bs) /\ call' = <<"write", bs>>
    \/ \E bs \in Chunk : Compare(bs) /\ call' = <<"compare", bs>>
    \/ ReadByte /\ call' = <<"read_byte">>
    \/ Drain    /\ call' = <<"drain">>
    \/ \E n \in 1..MaxWrite : Advance(n) /\ call' = <<"advance", n>>
    \/ \E b \in Byte, i \in 0..MaxWrite :
           CharCompare(b, i) /\ call' = <<"char_compare", b, i>>
    \/ Reset    /\ call' = <<"reset">>

Spec == Init /\ [][Next]_vars

-----------------------------------------------------------------------------
\* Every index stays inside the array and every cell holds a byte.
TypeOK ==
    /\ data \in [0..Size - 1 -> Byte]
    /\ start \in 0..Size - 1
    /\ end \in 0..Size
    /\ used \in 0..Size
    /\ out \in Seq(Byte)
    /\ status \in Int

\* The three indices, which every operation updates separately, always agree:
\* used is the distance from start to end around the ring.  This is what makes
\* the branch on start and end in ring_buffer_write and ring_buffer_read pick
\* the right copy, although read_byte leaves end at Size when start wraps to 0
\* and a full and an empty buffer both have start = end.
Occupancy ==
    \/ start < end /\ used = end - start
    \/ start > end /\ used = Size - start + end
    \/ start = end /\ used \in {0, Size}
    \/ start = 0 /\ end = Size /\ used = 0

\* The bytes stored, oldest first.
Contents == [i \in 1..used |-> data[DataIndex(i - 1)]]

\* The ring buffer is a FIFO of bytes with all-or-nothing writes: no byte is
\* lost, duplicated, reordered or overwritten by any sequence of writes, byte
\* reads, drains and skips, and the "ff ff" and "STAT" look-ahead sees the
\* oldest bytes.
Fifo == INSTANCE ByteFifo WITH fifo <- Contents
ImplementsFifo == Fifo!Spec
=============================================================================
