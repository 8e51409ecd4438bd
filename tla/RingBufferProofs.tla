-------------------------- MODULE RingBufferProofs --------------------------
(***************************************************************************)
(* For every capacity and every set of byte values: the indices of the     *)
(* ring buffer stay in range and agree, and the ring buffer implements the *)
(* byte FIFO.  The refinement mapping is Contents, the bytes found from    *)
(* start onwards; the proof is a pointwise comparison of the array before  *)
(* and after each operation with the abstract sequence.                    *)
(***************************************************************************)
EXTENDS RingBuffer, SequenceTheorems, TLAPS

\* The inductive invariant: the bounds on the indices and their agreement.
\* Neither part is inductive alone: start + used wraps correctly only because
\* the indices agree, and they agree only while they stay in range.
RingInv == TypeOK /\ Occupancy

\* A chunk is a non-empty sequence of bytes.
LEMMA ChunkSeq ==
    ASSUME NEW bs \in Chunk
    PROVE  bs \in Seq(Byte) /\ Len(bs) \in Nat \ {0}
<1>1. PICK n \in 1..MaxWrite : bs \in [1..n -> Byte]
  BY DEF Chunk
<1>2. QED
  BY <1>1, MaxWriteAssumption

\* Copying part of a sequence of bytes into the array yields an array of bytes.
LEMMA CopyType ==
    ASSUME NEW dst \in [0..Size - 1 -> Byte], NEW src \in Seq(Byte),
           NEW at \in Nat, NEW from \in Nat, NEW n \in Nat,
           from + n <= Len(src)
    PROVE  Copy(dst, at, src, from, n) \in [0..Size - 1 -> Byte]
BY SizeAssumption DEF Copy

\* The cell of an offset is found by at most one wrap.
LEMMA WrapOnce ==
    ASSUME NEW a \in Nat, a < 2 * Size
    PROVE  a % Size = IF a < Size THEN a ELSE a - Size
BY SizeAssumption

\* Every offset up to the capacity is mapped by at most one wrap.
LEMMA DataIndexWrap ==
    ASSUME TypeOK, NEW o \in 0..Size
    PROVE  DataIndex(o) = IF start + o < Size THEN start + o ELSE start + o - Size
<1> DEFINE a == start + o
<1>1. a \in Nat /\ a < 2 * Size
  BY SizeAssumption DEF TypeOK
<1> HIDE DEF a
<1>2. a % Size = IF a < Size THEN a ELSE a - Size
  BY <1>1, WrapOnce
<1>3. DataIndex(o) = a % Size
  BY DEF DataIndex, a
<1>4. DataIndex(o) = IF a < Size THEN a ELSE a - Size
  BY <1>2, <1>3
<1>5. QED
  BY <1>4, SizeAssumption DEF a, TypeOK

\* The ring that ring_buffer_create returns satisfies the invariant.
LEMMA InitRing == Init => RingInv
BY SizeAssumption, ByteAssumption DEF Init, RingInv, TypeOK, Occupancy

\* Every operation preserves the inductive invariant.
LEMMA StepRing == RingInv /\ [Next]_vars => RingInv'
<1> SUFFICES ASSUME RingInv, [Next]_vars
             PROVE  RingInv'
  OBVIOUS
<1> USE SizeAssumption, ByteAssumption, MaxWriteAssumption
<1>1. ASSUME NEW bs \in Chunk, Write(bs)
      PROVE  RingInv'
  <2>1. bs \in Seq(Byte) /\ Len(bs) \in Nat \ {0}
    BY <1>1, ChunkSeq
  <2> DEFINE L == Len(bs)
  <2>10. out' \in Seq(Byte)
    BY <1>1 DEF Write
  <2> HIDE DEF L
  <2>2. CASE WriteRefused(bs)
    BY <1>1, <2>1, <2>2 DEF RingInv, TypeOK, Occupancy, Write, WriteRefused, ring
  <2>3. CASE WriteContiguous(bs)
    <3>1. data' \in [0..Size - 1 -> Byte]
      BY <2>1, <2>3, CopyType DEF WriteContiguous, RingInv, TypeOK
    <3>6. /\ used + L <= Size /\ used' = used + L /\ start' = start
          /\ status' = L /\ start <= end /\ end + L <= Size /\ end' = end + L
      BY <2>3 DEF WriteContiguous, L
    <3>7. L \in Nat \ {0}
      BY <2>1 DEF L
    <3>8. TypeOK'
      BY <3>1, <2>10, <3>6, <3>7 DEF RingInv, TypeOK, Occupancy
    <3>9. Occupancy'
      BY <3>6, <3>7 DEF RingInv, TypeOK, Occupancy
    <3>10. QED
      BY <3>8, <3>9 DEF RingInv
  <2>4. CASE WriteSplit(bs)
    <3> DEFINE first == Size - end
    <3>1. first \in Nat /\ Len(bs) - first \in Nat
      BY <2>1, <2>4 DEF WriteSplit, RingInv, TypeOK
    <3>2. Copy(data, end, bs, 0, first) \in [0..Size - 1 -> Byte]
      BY <2>1, <3>1, CopyType DEF RingInv, TypeOK
    <3>3. Copy(Copy(data, end, bs, 0, first), 0, bs, first, Len(bs) - first)
            \in [0..Size - 1 -> Byte]
      BY <2>1, <3>1, <3>2, CopyType
    <3>4. data' \in [0..Size - 1 -> Byte]
      BY <2>4, <3>3 DEF WriteSplit
    <3>6. /\ used + L <= Size /\ used' = used + L /\ start' = start
          /\ status' = L /\ start <= end /\ end + L > Size /\ end' = L - (Size - end)
      BY <2>4 DEF WriteSplit, L
    <3>7. L \in Nat \ {0}
      BY <2>1 DEF L
    <3>8. TypeOK'
      BY <3>4, <2>10, <3>6, <3>7 DEF RingInv, TypeOK, Occupancy
    <3>9. Occupancy'
      BY <3>6, <3>7 DEF RingInv, TypeOK, Occupancy
    <3>10. QED
      BY <3>8, <3>9 DEF RingInv
  <2>5. CASE WriteWrapped(bs)
    <3>1. data' \in [0..Size - 1 -> Byte]
      BY <2>1, <2>5, CopyType DEF WriteWrapped, RingInv, TypeOK
    <3>6. /\ used + L <= Size /\ used' = used + L /\ start' = start
          /\ status' = L /\ start > end /\ end' = end + L
      BY <2>5 DEF WriteWrapped, L
    <3>7. L \in Nat \ {0}
      BY <2>1 DEF L
    <3>8. TypeOK'
      BY <3>1, <2>10, <3>6, <3>7 DEF RingInv, TypeOK, Occupancy
    <3>9. Occupancy'
      BY <3>6, <3>7 DEF RingInv, TypeOK, Occupancy
    <3>10. QED
      BY <3>8, <3>9 DEF RingInv
  <2>6. QED
    BY <1>1, <2>2, <2>3, <2>4, <2>5 DEF Write
<1>2. ASSUME NEW bs \in Chunk, Compare(bs)
      PROVE  RingInv'
  BY <1>2 DEF RingInv, TypeOK, Occupancy, Compare, ring
<1>3. CASE ReadByte
  <2>1. CASE ReadByteEmpty
    BY <2>1 DEF RingInv, TypeOK, Occupancy, ReadByteEmpty, ring
  <2>2. CASE ReadByteFound
    BY <2>2 DEF RingInv, TypeOK, Occupancy, ReadByteFound, ring
  <2>3. QED
    BY <1>3, <2>1, <2>2 DEF ReadByte
<1>4. CASE Drain
  <2>1. CASE DrainEmpty
    BY <2>1 DEF RingInv, TypeOK, Occupancy, DrainEmpty, ring
  <2>2. CASE DrainContiguous
    BY <2>2 DEF RingInv, TypeOK, Occupancy, DrainContiguous, ring
  <2>3. CASE DrainSplit
    BY <2>3 DEF RingInv, TypeOK, Occupancy, DrainSplit, ring
  <2>4. QED
    BY <1>4, <2>1, <2>2, <2>3 DEF Drain
<1>5. ASSUME NEW n \in 1..MaxWrite, Advance(n)
      PROVE  RingInv'
  <2>1. RealSteps(n) \in 0..used
    BY DEF RealSteps, RingInv, TypeOK
  <2>9. DataIndex(RealSteps(n))
           = IF start + RealSteps(n) < Size THEN start + RealSteps(n)
                                            ELSE start + RealSteps(n) - Size
    <3>1. RealSteps(n) \in 0..Size
      BY <2>1 DEF RingInv, TypeOK
    <3>2. QED
      BY <3>1, DataIndexWrap DEF RingInv
  <2> DEFINE r == RealSteps(n)
  <2>4. /\ start' = (IF start + r < Size THEN start + r ELSE start + r - Size)
        /\ used' = used - r
        /\ end' = (IF used' = 0 THEN start' ELSE end)
        /\ out' = <<>> /\ status' = 0 /\ data' = data
    BY <1>5, <2>9 DEF Advance
  <2>5. r \in 0..used
    BY <2>1
  <2> HIDE DEF r
  <2>6. TypeOK'
    BY <2>4, <2>5 DEF RingInv, TypeOK, Occupancy
  <2>7. Occupancy'
    BY <2>4, <2>5 DEF RingInv, TypeOK, Occupancy
  <2>8. QED
    BY <2>6, <2>7 DEF RingInv
<1>6. ASSUME NEW b \in Byte, NEW i \in 0..MaxWrite, CharCompare(b, i)
      PROVE  RingInv'
  BY <1>6 DEF RingInv, TypeOK, Occupancy, CharCompare, ring
<1>7. CASE Reset
  BY <1>7 DEF RingInv, TypeOK, Occupancy, Reset
<1>8. CASE UNCHANGED vars
  BY <1>8 DEF RingInv, TypeOK, Occupancy, vars
<1>9. QED
  BY <1>1, <1>2, <1>3, <1>4, <1>5, <1>6, <1>7, <1>8 DEF Next

\* Whatever the sequence of calls, the indices are in range and agree: the two
\* parts of the invariant that each operation of ring_buffer.c relies on.
THEOREM RingInvariant == Spec => []RingInv
<1>1. QED
  BY InitRing, StepRing, PTL DEF Spec

\* start, end and used never leave the array, whatever is written and read.
THEOREM RingTypeOK == Spec => []TypeOK
<1>1. RingInv => TypeOK
  BY DEF RingInv
<1>2. QED
  BY <1>1, RingInvariant, PTL

\* start, end and used agree in every reachable state.
THEOREM RingOccupancy == Spec => []Occupancy
<1>1. RingInv => Occupancy
  BY DEF RingInv
<1>2. QED
  BY <1>1, RingInvariant, PTL

-----------------------------------------------------------------------------
\* The array index of the i-th stored byte, without the modulus.
Cell(s, i) == IF s + i - 1 < Size THEN s + i - 1 ELSE s + i - 1 - Size

\* The u bytes stored in d from s onwards.
Stored(d, s, u) == [i \in 1..u |-> d[Cell(s, i)]]

\* What is stored is a sequence of bytes of the right length.
LEMMA StoredSeq ==
    ASSUME NEW d \in [0..Size - 1 -> Byte], NEW s \in 0..Size - 1, NEW u \in 0..Size
    PROVE  /\ Stored(d, s, u) \in Seq(Byte)
           /\ Len(Stored(d, s, u)) = u
           /\ \A i \in 1..u : Stored(d, s, u)[i] = d[Cell(s, i)]
<1>1. \A i \in 1..u : Cell(s, i) \in 0..Size - 1
  BY SizeAssumption DEF Cell
<1>2. \A i \in 1..u : d[Cell(s, i)] \in Byte
  BY <1>1
<1>3. u \in Nat
  BY SizeAssumption
<1>4. QED
  BY <1>2, <1>3 DEF Stored

\* The mapping of the refinement is what is stored.
LEMMA ContentsStored == TypeOK => Contents = Stored(data, start, used)
<1> SUFFICES ASSUME TypeOK
             PROVE  Contents = Stored(data, start, used)
  OBVIOUS
<1>1. ASSUME NEW i \in 1..used
      PROVE  DataIndex(i - 1) = Cell(start, i)
  <2>1. i - 1 \in 0..Size
    BY SizeAssumption DEF TypeOK
  <2>2. DataIndex(i - 1) = IF start + (i - 1) < Size THEN start + (i - 1)
                                                     ELSE start + (i - 1) - Size
    BY <2>1, DataIndexWrap
  <2>3. QED
    BY <2>2, SizeAssumption DEF Cell, TypeOK
<1>2. QED
  BY <1>1 DEF Contents, Stored

\* The same in the next state.
LEMMA ContentsStoredNext == TypeOK' => Contents' = Stored(data', start', used')
<1>1. (TypeOK => Contents = Stored(data, start, used))'
  BY ContentsStored, PTL
<1>2. QED
  BY <1>1

\* Writing bs after the u stored bytes without disturbing them appends bs.
LEMMA StoredConcat ==
    ASSUME NEW d \in [0..Size - 1 -> Byte], NEW d2 \in [0..Size - 1 -> Byte],
           NEW s \in 0..Size - 1, NEW u \in 0..Size, NEW bs \in Seq(Byte),
           u + Len(bs) <= Size,
           \A i \in 1..u : d2[Cell(s, i)] = d[Cell(s, i)],
           \A i \in 1..Len(bs) : d2[Cell(s, u + i)] = bs[i]
    PROVE  Stored(d2, s, u + Len(bs)) = Stored(d, s, u) \o bs
<1> DEFINE L == Len(bs)
           old == Stored(d, s, u)
           new == Stored(d2, s, u + L)
<1>1. L \in Nat /\ u + L \in 0..Size
  BY SizeAssumption
<1>2. old \in Seq(Byte) /\ Len(old) = u /\ \A i \in 1..u : old[i] = d[Cell(s, i)]
  BY StoredSeq
<1>3. new \in Seq(Byte) /\ Len(new) = u + L
      /\ \A i \in 1..u + L : new[i] = d2[Cell(s, i)]
  BY <1>1, StoredSeq
<1> HIDE DEF old, new
<1>8. /\ old \o bs \in Seq(Byte)
      /\ Len(old \o bs) = Len(old) + Len(bs)
      /\ \A i \in 1..Len(old) + Len(bs) :
            (old \o bs)[i] = IF i <= Len(old) THEN old[i] ELSE bs[i - Len(old)]
  BY <1>2, ConcatProperties
<1>4. old \o bs \in Seq(Byte) /\ Len(old \o bs) = u + L
      /\ \A i \in 1..u + L : (old \o bs)[i] = IF i <= u THEN old[i] ELSE bs[i - u]
  BY <1>2, <1>8
<1>5. ASSUME NEW i \in 1..u + L
      PROVE  new[i] = (old \o bs)[i]
  <2>1. CASE i <= u
    <3>1. i \in 1..u
      BY <2>1, <1>1, SizeAssumption
    <3>2. QED
      BY <3>1, <2>1, <1>2, <1>3, <1>4
  <2>2. CASE i > u
    <3>1. i - u \in 1..L /\ u + (i - u) = i
      BY <2>2, <1>1, SizeAssumption
    <3>2. d2[Cell(s, i)] = bs[i - u]
      BY <3>1
    <3>3. ~ (i <= u)
      BY <2>2, <1>1, SizeAssumption
    <3>4. QED
      BY <3>2, <3>3, <1>3, <1>4
  <2>3. i <= u \/ i > u
    BY <1>1, SizeAssumption
  <2>4. QED
    BY <2>1, <2>2, <2>3
<1> HIDE DEF L
<1>6. new = old \o bs
  BY <1>3, <1>4, <1>5, SeqEqual
<1>7. QED
  BY <1>6 DEF old, new, L

\* Moving s forward by k < u stored bytes leaves the other u - k.
LEMMA StoredSkip ==
    ASSUME NEW d \in [0..Size - 1 -> Byte], NEW s \in 0..Size - 1, NEW u \in 0..Size,
           NEW k \in 0..u, k < u
    PROVE  Stored(d, Cell(s, k + 1), u - k) = SubSeq(Stored(d, s, u), k + 1, u)
<1> DEFINE t == Cell(s, k + 1)
           old == Stored(d, s, u)
           new == Stored(d, t, u - k)
           sub == SubSeq(old, k + 1, u)
<1>1. t \in 0..Size - 1 /\ u - k \in 0..Size /\ k + 1 \in Int /\ u \in Int
  BY SizeAssumption DEF Cell
<1>2. old \in Seq(Byte) /\ Len(old) = u /\ \A i \in 1..u : old[i] = d[Cell(s, i)]
  BY StoredSeq
<1>3. new \in Seq(Byte) /\ Len(new) = u - k
      /\ \A i \in 1..u - k : new[i] = d[Cell(t, i)]
  BY <1>1, StoredSeq
<1> HIDE DEF old, new
<1>4. \A i \in (k + 1)..u : old[i] \in Byte
  <2>1. \A i \in 1..u : old[i] \in Byte
    BY <1>2, ElementOfSeq
  <2>2. \A i \in (k + 1)..u : i \in 1..u
    BY <1>1
  <2>3. QED
    BY <2>1, <2>2
<1>5. sub \in Seq(Byte) /\ Len(sub) = (IF k + 1 <= u THEN u - (k + 1) + 1 ELSE 0)
      /\ \A i \in 1..(u - (k + 1) + 1) : sub[i] = old[(k + 1) + i - 1]
  BY <1>1, <1>4, SubSeqProperties
<1>6. Len(sub) = u - k
  BY <1>5, <1>1, SizeAssumption
<1>7. ASSUME NEW i \in 1..u - k
      PROVE  new[i] = sub[i]
  <2>1. i \in 1..(u - (k + 1) + 1) /\ (k + 1) + i - 1 = k + i /\ k + i \in 1..u
    BY <1>1, SizeAssumption
  <2>2. sub[i] = d[Cell(s, k + i)]
    BY <2>1, <1>2, <1>5
  <2>3. Cell(t, i) = Cell(s, k + i)
    BY <2>1, <1>1, SizeAssumption DEF Cell
  <2>4. QED
    BY <2>2, <2>3, <1>3
<1> HIDE DEF sub
<1>8. new = sub
  BY <1>3, <1>5, <1>6, <1>7, SeqEqual
<1>9. QED
  BY <1>8 DEF new, sub, old

\* Nothing is stored when the length is zero.
LEMMA StoredEmpty ==
    ASSUME NEW d, NEW s
    PROVE  Stored(d, s, 0) = <<>>
BY DEF Stored

\* What a copied array holds at each index.
LEMMA CopyAt ==
    ASSUME NEW dst, NEW src, NEW at, NEW from, NEW n, NEW j \in 0..Size - 1
    PROVE  Copy(dst, at, src, from, n)[j]
             = IF at <= j /\ j < at + n THEN src[1 + from + j - at] ELSE dst[j]
BY DEF Copy

\* An accepted write appends to the contents, whichever branch stores it.
LEMMA WriteAppends ==
    ASSUME RingInv, RingInv', NEW bs \in Chunk,
           WriteContiguous(bs) \/ WriteSplit(bs) \/ WriteWrapped(bs)
    PROVE  Contents' = Contents \o bs
<1> USE SizeAssumption
<1> DEFINE L == Len(bs)
<1>1. bs \in Seq(Byte) /\ L \in Nat \ {0}
  BY ChunkSeq
<1>2. /\ start' = start /\ used' = used + L /\ used + L <= Size
  BY DEF WriteContiguous, WriteSplit, WriteWrapped
<1> HIDE DEF L
<1>3. /\ data \in [0..Size - 1 -> Byte] /\ data' \in [0..Size - 1 -> Byte]
      /\ start \in 0..Size - 1 /\ used \in 0..Size /\ end \in 0..Size
      /\ used + L \in 0..Size
  BY <1>1, <1>2 DEF RingInv, TypeOK
<1>4. /\ \A i \in 1..used : data'[Cell(start, i)] = data[Cell(start, i)]
      /\ \A i \in 1..L : data'[Cell(start, used + i)] = bs[i]
  <2>1. CASE WriteContiguous(bs)
    <3>1. /\ start <= end /\ end + L <= Size /\ used = end - start
          /\ data' = Copy(data, end, bs, 0, L)
      <4>1. start <= end /\ end + L <= Size /\ data' = Copy(data, end, bs, 0, L)
        BY <2>1 DEF WriteContiguous, L
      <4>2. used = end - start
        BY <4>1, <1>1, <1>2, <1>3 DEF RingInv, Occupancy
      <4>3. QED
        BY <4>1, <4>2
    <3>2. ASSUME NEW i \in 1..used
          PROVE  data'[Cell(start, i)] = data[Cell(start, i)]
      <4> DEFINE c == Cell(start, i)
      <4>1. c \in 0..Size - 1 /\ ~ (end <= c)
        BY <3>1, <1>1, <1>3 DEF Cell
      <4> HIDE DEF c
      <4>2. data'[c] = data[c]
        BY <3>1, <4>1, CopyAt
      <4>3. QED
        BY <4>2 DEF c
    <3>3. ASSUME NEW i \in 1..L
          PROVE  data'[Cell(start, used + i)] = bs[i]
      <4>1. Cell(start, used + i) = end + i - 1 /\ end + i - 1 \in 0..Size - 1
        BY <3>1, <1>1, <1>3 DEF Cell
      <4>2. /\ end <= end + i - 1 /\ end + i - 1 < end + L
            /\ 1 + 0 + (end + i - 1) - end = i
        BY <1>1, <1>3
      <4>3. QED
        BY <3>1, <4>1, <4>2, CopyAt
    <3>4. QED
      BY <3>2, <3>3
  <2>2. CASE WriteSplit(bs)
    <3> DEFINE first == Size - end
               half == Copy(data, end, bs, 0, first)
               rest == L - first
    <3>1. /\ start <= end /\ end + L > Size
          /\ data' = Copy(half, 0, bs, first, rest)
      BY <2>2 DEF WriteSplit, L
    <3>2. used = end - start \/ (used = 0 /\ start = 0 /\ end = Size)
      BY <3>1, <1>1, <1>2, <1>3 DEF RingInv, Occupancy
    <3>3. /\ first \in Nat /\ rest \in Nat \ {0} /\ first + rest = L
          /\ first > 0 => rest <= start
          /\ used > 0 => rest <= start
      BY <3>1, <3>2, <1>1, <1>2, <1>3
    <3>4. \A j \in 0..Size - 1 :
            half[j] = IF end <= j /\ j < end + first THEN bs[1 + 0 + j - end] ELSE data[j]
      BY CopyAt
    <3> HIDE DEF half
    <3>5. \A j \in 0..Size - 1 :
            data'[j] = IF 0 <= j /\ j < 0 + rest THEN bs[1 + first + j - 0] ELSE half[j]
      BY <3>1, CopyAt
    <3>6. ASSUME NEW i \in 1..used
          PROVE  data'[Cell(start, i)] = data[Cell(start, i)]
      <4> DEFINE c == Cell(start, i)
      <4>1. c \in 0..Size - 1 /\ ~ (end <= c) /\ ~ (c < 0 + rest)
        BY <3>1, <3>2, <3>3, <1>1, <1>3 DEF Cell
      <4> HIDE DEF c
      <4>2. data'[c] = data[c]
        BY <3>4, <3>5, <4>1
      <4>3. QED
        BY <4>2 DEF c
    <3>7. ASSUME NEW i \in 1..L
          PROVE  data'[Cell(start, used + i)] = bs[i]
      <4>1. CASE i <= first
        <5> DEFINE c == end + i - 1
        <5>1. /\ Cell(start, used + i) = c /\ c \in 0..Size - 1
              /\ ~ (c < 0 + rest) /\ end <= c /\ c < end + first
              /\ 1 + 0 + c - end = i
          BY <4>1, <3>1, <3>2, <3>3, <1>1, <1>3 DEF Cell
        <5> HIDE DEF c
        <5>2. data'[c] = bs[i]
          BY <3>4, <3>5, <5>1
        <5>3. QED
          BY <5>1, <5>2
      <4>2. CASE ~ (i <= first)
        <5> DEFINE c == i - first - 1
        <5>1. /\ Cell(start, used + i) = c /\ c \in 0..Size - 1
              /\ 0 <= c /\ c < 0 + rest /\ 1 + first + c - 0 = i
          BY <4>2, <3>1, <3>2, <3>3, <1>1, <1>2, <1>3 DEF Cell
        <5> HIDE DEF c
        <5>2. data'[c] = bs[i]
          BY <3>5, <5>1
        <5>3. QED
          BY <5>1, <5>2
      <4>3. QED
        BY <4>1, <4>2
    <3>8. QED
      BY <3>6, <3>7
  <2>3. CASE WriteWrapped(bs)
    <3>1. start > end /\ data' = Copy(data, end, bs, 0, L)
      BY <2>3 DEF WriteWrapped, L
    <3>2. used = Size - start + end /\ end + L <= start
      BY <3>1, <1>1, <1>2, <1>3 DEF RingInv, Occupancy
    <3>3. \A j \in 0..Size - 1 :
            data'[j] = IF end <= j /\ j < end + L THEN bs[1 + 0 + j - end] ELSE data[j]
      BY <3>1, CopyAt
    <3>4. ASSUME NEW i \in 1..used
          PROVE  data'[Cell(start, i)] = data[Cell(start, i)]
      <4> DEFINE c == Cell(start, i)
      <4>1. c \in 0..Size - 1 /\ ~ (end <= c /\ c < end + L)
        BY <3>1, <3>2, <1>1, <1>3 DEF Cell
      <4> HIDE DEF c
      <4>2. data'[c] = data[c]
        BY <3>3, <4>1
      <4>3. QED
        BY <4>2 DEF c
    <3>5. ASSUME NEW i \in 1..L
          PROVE  data'[Cell(start, used + i)] = bs[i]
      <4> DEFINE c == end + i - 1
      <4>1. /\ Cell(start, used + i) = c /\ c \in 0..Size - 1
            /\ end <= c /\ c < end + L /\ 1 + 0 + c - end = i
        BY <3>1, <3>2, <1>1, <1>3 DEF Cell
      <4> HIDE DEF c
      <4>2. data'[c] = bs[i]
        BY <3>3, <4>1
      <4>3. QED
        BY <4>1, <4>2
    <3>6. QED
      BY <3>4, <3>5
  <2>4. QED
    BY <2>1, <2>2, <2>3
<1>5. Contents = Stored(data, start, used) /\ Contents' = Stored(data', start, used + L)
  BY <1>2, ContentsStored, ContentsStoredNext DEF RingInv
<1>6. Stored(data', start, used + L) = Stored(data, start, used) \o bs
  <2>1. used + Len(bs) <= Size
    BY <1>2 DEF L
  <2>2. \A i \in 1..Len(bs) : data'[Cell(start, used + i)] = bs[i]
    BY <1>4 DEF L
  <2>3. Stored(data', start, used + Len(bs)) = Stored(data, start, used) \o bs
    <3>1. /\ data \in [0..Size - 1 -> Byte] /\ data' \in [0..Size - 1 -> Byte]
          /\ start \in 0..Size - 1 /\ used \in 0..Size /\ bs \in Seq(Byte)
          /\ \A i \in 1..used : data'[Cell(start, i)] = data[Cell(start, i)]
      BY <1>1, <1>3, <1>4
    <3>2. \A d, d2 \in [0..Size - 1 -> Byte], s \in 0..Size - 1, u \in 0..Size :
            /\ u + Len(bs) <= Size
            /\ \A i \in 1..u : d2[Cell(s, i)] = d[Cell(s, i)]
            /\ \A i \in 1..Len(bs) : d2[Cell(s, u + i)] = bs[i]
            => Stored(d2, s, u + Len(bs)) = Stored(d, s, u) \o bs
      BY <1>1, StoredConcat, ZenonT(60)
    <3>3. QED
      BY <3>1, <3>2, <2>1, <2>2
  <2>4. QED
    BY <2>3 DEF L
<1>7. QED
  BY <1>5, <1>6

\* Facts about the mapping in one state.
LEMMA ContentsSeq ==
    RingInv => /\ Contents \in Seq(Byte)
               /\ Len(Contents) = used
               /\ \A i \in 1..used : Contents[i] = data[Cell(start, i)]
               /\ used = 0 <=> Contents = <<>>
<1> SUFFICES ASSUME RingInv
             PROVE  /\ Contents \in Seq(Byte)
                    /\ Len(Contents) = used
                    /\ \A i \in 1..used : Contents[i] = data[Cell(start, i)]
                    /\ used = 0 <=> Contents = <<>>
  OBVIOUS
<1>1. Contents = Stored(data, start, used)
  BY ContentsStored DEF RingInv
<1>2. /\ data \in [0..Size - 1 -> Byte] /\ start \in 0..Size - 1 /\ used \in 0..Size
  BY DEF RingInv, TypeOK
<1>3. /\ Contents \in Seq(Byte)
      /\ Len(Contents) = used
      /\ \A i \in 1..used : Contents[i] = data[Cell(start, i)]
  BY <1>1, <1>2, StoredSeq
<1>4. used = 0 <=> Contents = <<>>
  BY <1>3, EmptySeq
<1>5. QED
  BY <1>3, <1>4

\* A write is a write of the FIFO: all of it or none.
LEMMA WriteRefines ==
    ASSUME RingInv, RingInv', NEW bs \in Chunk, Write(bs)
    PROVE  Fifo!Write(bs)
<1>1. Len(Contents) = used /\ used \in 0..Size /\ out' = <<>>
  BY ContentsSeq DEF RingInv, TypeOK, Write
<1>2. Len(bs) \in Nat \ {0}
  BY ChunkSeq
<1>3. CASE WriteRefused(bs)
  <2>1. Contents' = Contents
    BY <1>3 DEF WriteRefused, ring, Contents, DataIndex
  <2>2. Len(Contents) + Len(bs) > Size /\ status' = 0
    BY <1>1, <1>3 DEF WriteRefused
  <2>3. QED
    BY <1>1, <2>1, <2>2 DEF Fifo!Write
<1>4. CASE WriteContiguous(bs) \/ WriteSplit(bs) \/ WriteWrapped(bs)
  <2>1. Contents' = Contents \o bs
    BY <1>4, WriteAppends
  <2>2. Len(Contents) + Len(bs) <= Size /\ status' = Len(bs)
    BY <1>1, <1>4 DEF WriteContiguous, WriteSplit, WriteWrapped
  <2>3. QED
    BY <1>1, <2>1, <2>2 DEF Fifo!Write
<1>5. QED
  BY <1>3, <1>4 DEF Write

\* Reading a byte takes the oldest byte of the FIFO.
LEMMA ReadByteRefines ==
    ASSUME RingInv, RingInv', ReadByte
    PROVE  Fifo!ReadByte
<1> USE SizeAssumption
<1> DEFINE C == Contents
<1>1. /\ C \in Seq(Byte) /\ Len(C) = used /\ used \in 0..Size
      /\ start \in 0..Size - 1 /\ data \in [0..Size - 1 -> Byte]
      /\ \A i \in 1..used : C[i] = data[Cell(start, i)]
      /\ used = 0 <=> C = <<>>
  BY ContentsSeq DEF RingInv, TypeOK
<1>2. CASE ReadByteEmpty
  <2>1. Contents' = C /\ out' = <<>> /\ status' = -1 /\ C = <<>>
    BY <1>1, <1>2 DEF ReadByteEmpty, ring, Contents, DataIndex
  <2>2. QED
    BY <2>1 DEF Fifo!ReadByte
<1>3. CASE ReadByteFound
  <2>1. /\ used # 0 /\ out' = <<data[start]>> /\ status' = 0 /\ used' = used - 1
        /\ start' = (IF start + 1 >= Size THEN 0 ELSE start + 1) /\ data' = data
    BY <1>3 DEF ReadByteFound
  <2>2. C # <<>> /\ used \in 1..Size /\ Cell(start, 1) = start
    BY <1>1, <2>1 DEF Cell
  <2>3. Head(C) = data[start]
    BY <1>1, <2>2
  <2>4. Contents' = Stored(data, start', used - 1)
    BY <2>1, ContentsStoredNext DEF RingInv
  <2>5. start' = Cell(start, 1 + 1)
    BY <1>1, <2>1 DEF Cell
  <2>6. Tail(C) = SubSeq(C, 2, used)
    BY <1>1, <2>2, TailIsSubSeq
  <2>7. C = Stored(data, start, used)
    BY ContentsStored DEF RingInv
  <2>8. CASE used = 1
    <3>1. Contents' = <<>>
      BY <2>4, <2>8, StoredEmpty
    <3>2. Tail(C) = <<>>
      BY <2>6, <2>8, SubSeqEmpty
    <3>3. QED
      BY <2>1, <2>2, <2>3, <3>1, <3>2 DEF Fifo!ReadByte
  <2>9. CASE used # 1
    <3>1. 1 \in 0..used /\ 1 < used
      BY <2>2, <2>9
    <3>2. Stored(data, Cell(start, 1 + 1), used - 1)
            = SubSeq(Stored(data, start, used), 1 + 1, used)
      BY <1>1, <3>1, StoredSkip, ZenonT(60)
    <3>3. 1 + 1 = 2
      OBVIOUS
    <3> HIDE DEF C
    <3>4. Stored(data, start', used - 1) = SubSeq(C, 2, used)
      BY <2>5, <2>7, <3>2, <3>3
    <3>5. Contents' = Tail(C)
      BY <2>4, <2>6, <3>4
    <3>6. QED
      BY <2>1, <2>2, <2>3, <3>5 DEF Fifo!ReadByte, C
  <2>10. QED
    BY <2>8, <2>9
<1>4. QED
  BY <1>2, <1>3 DEF ReadByte

\* Draining hands over the whole FIFO, in order.
LEMMA DrainRefines ==
    ASSUME RingInv, RingInv', Drain
    PROVE  Fifo!Drain
<1> USE SizeAssumption
<1> DEFINE C == Contents
<1>1. /\ C \in Seq(Byte) /\ Len(C) = used /\ used \in 0..Size /\ end \in 0..Size
      /\ start \in 0..Size - 1 /\ data \in [0..Size - 1 -> Byte]
      /\ C = Stored(data, start, used)
      /\ used = 0 <=> C = <<>>
  BY ContentsSeq, ContentsStored DEF RingInv, TypeOK
<1>2. used' = 0 /\ data' = data
  BY DEF Drain, DrainEmpty, DrainContiguous, DrainSplit, ring
<1>3. Contents' = <<>>
  BY <1>2, ContentsStoredNext, StoredEmpty DEF RingInv
<1>4. CASE DrainEmpty
  <2>1. out' = C /\ status' = Len(C)
    BY <1>1, <1>4 DEF DrainEmpty
  <2>2. QED
    BY <1>3, <2>1 DEF Fifo!Drain
<1>5. CASE DrainContiguous
  <2>1. /\ used # 0 /\ start < end /\ status' = used
        /\ out' = [i \in 1..used |-> data[start + i - 1]]
    BY <1>5 DEF DrainContiguous
  <2>2. used = end - start
    BY <1>1, <2>1 DEF RingInv, Occupancy
  <2>3. \A i \in 1..used : Cell(start, i) = start + i - 1
    BY <1>1, <2>1, <2>2 DEF Cell
  <2>4. out' = C
    BY <1>1, <2>1, <2>3 DEF Stored
  <2>5. QED
    BY <1>1, <1>3, <2>1, <2>4 DEF Fifo!Drain
<1>6. CASE DrainSplit
  <2> DEFINE first == Size - start
  <2>1. /\ status' = used
        /\ out' = [i \in 1..used |-> IF i <= first THEN data[start + i - 1]
                                                   ELSE data[i - first - 1]]
    BY <1>6 DEF DrainSplit
  <2>2. \A i \in 1..used :
          Cell(start, i) = IF i <= first THEN start + i - 1 ELSE i - first - 1
    BY <1>1 DEF Cell
  <2> HIDE DEF first
  <2>3. \A i \in 1..used :
          data[Cell(start, i)] = IF i <= first THEN data[start + i - 1]
                                               ELSE data[i - first - 1]
    BY <2>2
  <2>4. out' = C
    BY <1>1, <2>1, <2>3 DEF Stored
  <2>5. QED
    BY <1>1, <1>3, <2>1, <2>4 DEF Fifo!Drain
<1>7. QED
  BY <1>4, <1>5, <1>6 DEF Drain

\* Skipping bytes forgets the oldest bytes of the FIFO.
LEMMA AdvanceRefines ==
    ASSUME RingInv, RingInv', NEW n \in 1..MaxWrite, Advance(n)
    PROVE  Fifo!Advance(n)
<1> USE SizeAssumption, MaxWriteAssumption
<1> DEFINE C == Contents
           r == RealSteps(n)
<1>1. /\ Len(C) = used /\ used \in 0..Size /\ n \in Nat
      /\ start \in 0..Size - 1 /\ data \in [0..Size - 1 -> Byte]
      /\ C = Stored(data, start, used)
  BY ContentsSeq, ContentsStored DEF RingInv, TypeOK
<1>2. /\ used' = used - r /\ data' = data /\ start' = DataIndex(r)
      /\ out' = <<>> /\ status' = 0
  BY DEF Advance
<1>3. Contents' = Stored(data, start', used - r)
  BY <1>2, ContentsStoredNext DEF RingInv
<1>4. CASE n < used
  <2>1. r = n /\ n \in 0..Size
    BY <1>1, <1>4 DEF RealSteps
  <2>2. DataIndex(n) = IF start + n < Size THEN start + n ELSE start + n - Size
    BY <2>1, DataIndexWrap DEF RingInv
  <2>3. DataIndex(n) = Cell(start, n + 1)
    BY <2>2, <1>1 DEF Cell
  <2>4. n \in 0..used
    BY <1>1, <1>4
  <2>5. Stored(data, Cell(start, n + 1), used - n)
          = SubSeq(Stored(data, start, used), n + 1, used)
    BY <1>1, <1>4, <2>4, StoredSkip
  <2> HIDE DEF C, r
  <2>6. Contents' = SubSeq(C, n + 1, Len(C))
    BY <1>1, <1>2, <1>3, <2>1, <2>3, <2>5
  <2>7. n < Len(C)
    BY <1>1, <1>4
  <2>8. QED
    BY <1>2, <2>6, <2>7 DEF Fifo!Advance, C
<1>5. CASE ~ (n < used)
  <2>1. r = used /\ used - r = 0
    BY <1>1, <1>5 DEF RealSteps
  <2>2. Contents' = <<>>
    BY <1>3, <2>1, StoredEmpty
  <2>3. ~ (n < Len(C))
    BY <1>1, <1>5
  <2>4. QED
    BY <1>2, <2>2, <2>3 DEF Fifo!Advance
<1>6. QED
  BY <1>4, <1>5

\* An unchanged ring has unchanged contents.
LEMMA ContentsUnchanged == UNCHANGED ring => Contents' = Contents
BY DEF ring, Contents, DataIndex

\* Comparing looks at the oldest bytes of the FIFO and changes nothing.
LEMMA CompareRefines ==
    ASSUME RingInv, NEW bs \in Chunk, Compare(bs)
    PROVE  Fifo!Compare(bs)
<1>1. Contents' = Contents /\ out' = <<>>
  BY ContentsUnchanged DEF Compare
<1>2. /\ Len(Contents) = used /\ used \in Nat /\ Len(bs) \in Nat \ {0}
      /\ \A i \in 1..used : Contents[i] = data[DataIndex(i - 1)]
  BY ContentsSeq, ChunkSeq, SizeAssumption DEF RingInv, TypeOK, Contents
<1>3. (\A i \in 1..Len(bs) : i <= used /\ data[DataIndex(i - 1)] = bs[i])
        <=> (Len(bs) <= Len(Contents) /\ \A i \in 1..Len(bs) : Contents[i] = bs[i])
  <2>1. ASSUME \A i \in 1..Len(bs) : i <= used /\ data[DataIndex(i - 1)] = bs[i]
        PROVE  Len(bs) <= Len(Contents) /\ \A i \in 1..Len(bs) : Contents[i] = bs[i]
    <3>1. Len(bs) <= used
      BY <1>2, <2>1
    <3>2. \A i \in 1..Len(bs) : i \in 1..used
      BY <1>2, <3>1
    <3>3. QED
      BY <1>2, <2>1, <3>1, <3>2
  <2>2. ASSUME Len(bs) <= Len(Contents), \A i \in 1..Len(bs) : Contents[i] = bs[i]
        PROVE  \A i \in 1..Len(bs) : i <= used /\ data[DataIndex(i - 1)] = bs[i]
    <3>1. \A i \in 1..Len(bs) : i \in 1..used /\ i <= used
      BY <1>2, <2>2
    <3>2. QED
      BY <1>2, <2>2, <3>1
  <2>3. QED
    BY <2>1, <2>2
<1>4. QED
  BY <1>1, <1>3 DEF Compare, Fifo!Compare

\* Comparing one byte looks at that byte of the FIFO.
LEMMA CharCompareRefines ==
    ASSUME RingInv, NEW b \in Byte, NEW i \in 0..MaxWrite, CharCompare(b, i)
    PROVE  Fifo!CharCompare(b, i)
<1>1. Contents' = Contents /\ out' = <<>>
  BY ContentsUnchanged DEF CharCompare
<1>2. /\ Len(Contents) = used /\ used \in Nat /\ i \in Nat
      /\ i < used => Contents[i + 1] = data[DataIndex((i + 1) - 1)]
  BY ContentsSeq, SizeAssumption, MaxWriteAssumption DEF RingInv, TypeOK, Contents
<1>3. (i + 1) - 1 = i
  BY <1>2
<1>4. QED
  BY <1>1, <1>2, <1>3 DEF CharCompare, Fifo!CharCompare

\* The ring buffer promises what the parser relies on: its initial states and
\* its steps are those of the byte FIFO.
THEOREM RingImplementsFifo == Spec => ImplementsFifo
<1>1. Init => Fifo!Init
  <2>1. used = 0 => Contents = <<>>
    BY DEF Contents
  <2>2. QED
    BY <2>1 DEF Init, Fifo!Init
<1>2. RingInv /\ RingInv' /\ [Next]_vars => [Fifo!Next]_Fifo!fvars
  <2> SUFFICES ASSUME RingInv, RingInv', [Next]_vars
               PROVE  [Fifo!Next]_Fifo!fvars
    OBVIOUS
  <2>1. ASSUME NEW bs \in Chunk, Write(bs), call' = <<"write", bs>>
        PROVE  Fifo!Next
    BY <2>1, WriteRefines DEF Fifo!Next, Fifo!Chunk, Chunk
  <2>2. ASSUME NEW bs \in Chunk, Compare(bs), call' = <<"compare", bs>>
        PROVE  Fifo!Next
    BY <2>2, CompareRefines DEF Fifo!Next, Fifo!Chunk, Chunk
  <2>3. CASE ReadByte /\ call' = <<"read_byte">>
    BY <2>3, ReadByteRefines DEF Fifo!Next
  <2>4. CASE Drain /\ call' = <<"drain">>
    BY <2>4, DrainRefines DEF Fifo!Next
  <2>5. ASSUME NEW n \in 1..MaxWrite, Advance(n), call' = <<"advance", n>>
        PROVE  Fifo!Next
    BY <2>5, AdvanceRefines DEF Fifo!Next
  <2>6. ASSUME NEW b \in Byte, NEW i \in 0..MaxWrite, CharCompare(b, i),
               call' = <<"char_compare", b, i>>
        PROVE  Fifo!Next
    BY <2>6, CharCompareRefines DEF Fifo!Next
  <2>7. CASE Reset /\ call' = <<"reset">>
    <3>1. Contents' = <<>> /\ out' = <<>> /\ status' = 0
      BY <2>7 DEF Reset, Contents
    <3>2. QED
      BY <2>7, <3>1 DEF Fifo!Next, Fifo!Reset
  <2>8. CASE UNCHANGED vars
    <3>1. Contents' = Contents
      BY <2>8, ContentsUnchanged DEF vars, ring
    <3>2. QED
      BY <2>8, <3>1 DEF vars, Fifo!fvars
  <2>9. QED
    BY <2>1, <2>2, <2>3, <2>4, <2>5, <2>6, <2>7, <2>8 DEF Next
<1>3. QED
  BY <1>1, <1>2, RingInvariant, PTL DEF Spec, ImplementsFifo, Fifo!Spec
=============================================================================
