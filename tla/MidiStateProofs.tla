-------------------------- MODULE MidiStateProofs ---------------------------
(***************************************************************************)
(* The parser hands on what was sent, for every set of well-formed         *)
(* messages and delta times, every size of the ring and any number of      *)
(* messages.  What is in the ring or the packet is a walk of the encoder,  *)
(* from point to point of its stream; the parser is at the first of them,  *)
(* the encoder at the last, and reading a byte takes a point off the walk. *)
(***************************************************************************)
EXTENDS MidiState, SequenceTheorems, TLAPS

\* The MIDI list of an RTP packet holds no real-time message (MidiRtpRealTime shows what
\* happens otherwise).
ListsWithoutRealTime == "RTP" \in Modes => \A m \in Message : ~IsRealTime(m[1])

Byte == 0..255

-----------------------------------------------------------------------------
\* A point of the stream: of the message open the last left bytes are still to come, after
\* the bytes delta; what was sent before, and the encoder's status.
Point == [open : Message \cup {<<>>}, left : Nat, delta : Seq(Byte), running : Byte,
          partial : BOOLEAN, sent : Seq(Seq(Byte))]

DeltaLeft(d) == d = <<>> \/ (Last(d) < 128 /\ \A i \in 1..(Len(d) - 1) : d[i] >= 128)

Placed(e) ==
    /\ e.open = <<>> <=> e.left = 0
    /\ e.left <= Len(e.open)
    /\ e.left = 0 => e.delta = <<>>
    /\ DeltaLeft(e.delta)
    /\ mode = "SIMPLE" => e.delta = <<>>

\* The points where nothing of the message has been put, but for the status byte it may
\* go without, and those in the message.
Whole(e)   == e.left = Len(e.open)
Running(e) == e.left = Len(e.open) - 1 /\ IsChannel(e.open[1])
IsSysEx(m) == m[1] \in {240, 247}

\* The byte b leads from e to g.
PutDelta(e, b, g) ==
    /\ e.delta # <<>> /\ b = Head(e.delta)
    /\ g = [e EXCEPT !.delta = Tail(e.delta)]
PutInner(e, b, g) ==
    /\ e.delta = <<>> /\ e.left > 1 /\ b = e.open[Len(e.open) - e.left + 1]
    /\ g = [e EXCEPT !.left = e.left - 1]
PutLast(e, b, g) ==
    /\ e.delta = <<>> /\ e.left = 1 /\ b = e.open[Len(e.open)]
    /\ g = [e EXCEPT !.left = 0, !.open = <<>>, !.sent = Append(e.sent, e.open)]
PutAlone(e, b, g) ==
    /\ mode = "SIMPLE" /\ b \in RealTimeByte
    /\ g = [e EXCEPT !.sent = Append(e.sent, <<b>>)]
PutData(e, b, g) ==
    /\ mode = "SIMPLE" /\ b = 1 /\ e.sent = <<>> /\ e.open = <<>> /\ g = e

Put(e, b, g) == \/ PutDelta(e, b, g) \/ PutInner(e, b, g) \/ PutLast(e, b, g)
                \/ PutAlone(e, b, g) \/ PutData(e, b, g)

\* At g a message begins, with f before its first byte.
Begun(g, f) ==
    /\ g.left = 0 /\ f.open \in Message /\ f.sent = g.sent
    /\ Whole(f) \/ (Running(f) /\ f.open[1] = g.running)
    /\ IF g.partial THEN Continues(f.open) ELSE ~Continues(f.open)
    /\ f.running = IF IsChannel(f.open[1]) THEN f.open[1]
                   ELSE IF IsRealTime(f.open[1]) THEN g.running ELSE 0
    /\ f.partial = IF IsSysEx(f.open) THEN Last(f.open) = 240 ELSE g.partial

\* From one point of the walk to the next.
Follows(e, b, f) ==
    \E g \in Point : /\ Placed(g) /\ Put(e, b, g)
                     /\ f = g \/ (Begun(g, f) /\ (mode = "RTP" => f.delta # <<>>))

-----------------------------------------------------------------------------
\* The parser is at the point e: between two messages, or within one.
RunningAgrees(e) == e.running # 0 => running_status = e.running
PartialAgrees(e) == IF mode = "SIMPLE" THEN partial_sysex = e.partial
                                       ELSE e.partial => partial_sysex

\* A delta time comes next.
Due == IF sending THEN Entry = "WAIT_DELTA" ELSE z

Idle(e) ==
    /\ RunningAgrees(e) /\ PartialAgrees(e)
    /\ mode = "RTP" /\ sending => status = "INIT" /\ get_delta
    /\ e.sent = <<>> => running_status = 0

Ahead(e) ==
    /\ e.delta # <<>> <=> Due
    /\ \/ Whole(e) /\ (IsRealTime(e.open[1]) => RunningAgrees(e))
       \/ Running(e) /\ running_status = e.open[1]
    /\ IsChannel(e.open[1]) => e.running = e.open[1]
    /\ e.open[1] \in 240..247 => e.running = 0
    /\ IF IsSysEx(e.open)
       THEN (e.open[1] = 247 => partial_sysex) /\ (e.partial <=> Last(e.open) = 240)
       ELSE PartialAgrees(e)

Between(e) ==
    /\ hold = <<>> /\ status \in {"INIT", "WAIT_DELTA", "WAIT_COMMAND"}
    /\ e.left = 0 => Idle(e)
    /\ e.left # 0 => Ahead(e)

InChannel(e) ==
    /\ IsChannel(e.open[1]) /\ e.running = e.open[1] /\ running_status = e.open[1]
    /\ status = IF e.left = 1 THEN "WAIT_BYTE_1" ELSE "WAIT_BYTE_2"
    /\ PartialAgrees(e)

InSysEx(e) ==
    /\ IsSysEx(e.open) /\ e.running = 0
    /\ status = "WAIT_END_SYSEX" /\ running_status = 0
    /\ e.open[1] = 247 => partial_sysex
    /\ e.partial <=> Last(e.open) = 240

Within(e) ==
    /\ e.left \in 1..(Len(e.open) - 1) /\ e.delta = <<>>
    /\ hold = SubSeq(e.open, 1, Len(e.open) - e.left)
    /\ InChannel(e) \/ InSysEx(e)

Match(e) == Between(e) \/ Within(e)

\* The encoder is at the point e.
Current(e) ==
    /\ open = e.open /\ encRunning = e.running /\ encPartial = e.partial /\ sent = e.sent
    /\ rest = e.delta \o SubSeq(e.open, Len(e.open) - e.left + 1, Len(e.open))

\* The bytes between the two.
Stream == IF sending THEN ring ELSE packet

Walk(path) ==
    /\ Len(path) = Len(Stream) + 1
    /\ \A i \in 1..Len(path) : Placed(path[i]) /\ IsPrefix(path[i].sent, sent)
    /\ \A i \in 1..Len(Stream) : Follows(path[i], Stream[i], path[i + 1])
    /\ emitted = path[1].sent /\ Match(path[1])
    /\ Current(path[Len(path)])

\* Encoder and parser take turns, and a packet is never too long for the ring.
Turns ==
    /\ ~sending => ring = <<>>
    /\ sending => packet = <<>>
    /\ mode = "SIMPLE" => ~z /\ ~get_delta /\ status # "WAIT_DELTA"
    /\ mode = "RTP" /\ ~sending => status = "INIT" /\ hold = <<>>
    /\ mode = "RTP" /\ sending => rest = <<>>
    /\ Len(packet) <= Capacity[mode]

\* A walk leads from the parser to the encoder.
Tracked == \E path \in Seq(Point) : Walk(path)

\* The inductive invariant.
MidiInv == TypeOK /\ Turns /\ Tracked

-----------------------------------------------------------------------------
\* The kinds of bytes.
LEMMA Kinds ==
    ASSUME NEW b \in Byte
    PROVE  /\ IsChannel(b) <=> b \in 128..239
           /\ IsRealTime(b) <=> b \in 248..255
           /\ IsData(b) <=> b \in 0..127
           /\ IsChannel(b) => ~IsRealTime(b) /\ ~IsData(b) /\ b # 0 /\ b \notin 240..247
           /\ IsRealTime(b) => ~IsChannel(b) /\ ~IsData(b) /\ b \notin 240..247
           /\ IsData(b) => ~IsRealTime(b) /\ ~IsChannel(b) /\ b \notin 240..247
           /\ b \in 240..247 => ~IsRealTime(b) /\ ~IsChannel(b) /\ ~IsData(b)
<1>1. QED
  BY DEF IsChannel, IsRealTime, IsData, Byte

\* What a well-formed message is made of.
LEMMA MessageForm ==
    ASSUME NEW m \in Message
    PROVE  /\ m \in Seq(Byte) /\ m # <<>> /\ Len(m) \in Nat /\ Len(m) >= 1
           /\ \A i \in 1..Len(m) : m[i] \in Byte
           /\ \/ /\ IsChannel(m[1]) /\ Len(m) = 1 + BytesNeeded(m[1])
                 /\ \A i \in 2..Len(m) : IsData(m[i])
              \/ /\ IsSysEx(m) /\ Len(m) > 1
                 /\ \A i \in 2..(Len(m) - 1) : IsData(m[i])
                 /\ Last(m) \in {240, 247} \/ (m[1] = 247 /\ Last(m) = 244)
              \/ Len(m) = 1 /\ (m[1] \in 244..246 \/ IsRealTime(m[1]))
<1>1. WellFormed(m)
  BY MessageAssumption
<1>2. m \in Seq(Byte) /\ m # <<>>
  BY <1>1 DEF WellFormed, Byte
<1>3. Len(m) \in Nat /\ Len(m) >= 1 /\ \A i \in 1..Len(m) : m[i] \in Byte
  BY <1>2, EmptySeq, LenProperties, ElementOfSeq
<1>4. QED
  BY <1>1, <1>2, <1>3 DEF WellFormed, IsSysEx

\* midi_command_bytes_needed: one or two data bytes for the messages of a channel, and the
\* same for the upper half of their status byte; none for the others that come as they are.
LEMMA Needed ==
    ASSUME NEW b \in Byte
    PROVE  /\ IsChannel(b) => /\ BytesNeeded(b) \in {1, 2}
                              /\ BytesNeeded((b \div 16) * 16) = BytesNeeded(b)
           /\ b \in 244..246 => BytesNeeded((b \div 16) * 16) = 0
<1>1. CASE IsChannel(b)
  <2>1. b \div 16 \in 8..14 /\ ((b \div 16) * 16) \div 16 = b \div 16
    BY <1>1 DEF IsChannel, Byte
  <2>2. b \in 128..239 /\ (b \div 16) * 16 \in 128..239
    BY <1>1, <2>1 DEF IsChannel, Byte
  <2>3. CASE b \div 16 \in {8, 9, 10, 11, 14}
    BY <2>1, <2>2, <2>3, <1>1 DEF BytesNeeded, IsChannel
  <2>4. CASE b \div 16 \in {12, 13}
    BY <2>1, <2>2, <2>4, <1>1 DEF BytesNeeded, IsChannel
  <2>5. QED
    BY <2>1, <2>3, <2>4
<1>2. CASE b \in 244..246
  <2>1. (b \div 16) * 16 = 240
    BY <1>2
  <2>2. 240 \div 16 = 15
    OBVIOUS
  <2>3. QED
    BY <2>1, <2>2, <1>2 DEF BytesNeeded, IsChannel
<1>3. QED
  BY <1>1, <1>2

\* A prefix is the same sequence as far as it goes.
LEMMA PrefixIs ==
    ASSUME NEW S, NEW s \in Seq(S), NEW t \in Seq(S)
    PROVE  IsPrefix(s, t) <=> Len(s) <= Len(t) /\ \A i \in 1..Len(s) : s[i] = t[i]
<1>1. Len(s) \in Nat /\ Len(t) \in Nat
  BY LenProperties
<1>2. ASSUME Len(s) <= Len(t)
      PROVE  SubSeq(s, 1, Len(s)) = SubSeq(t, 1, Len(s)) <=> \A i \in 1..Len(s) : s[i] = t[i]
  <2>1. /\ SubSeq(s, 1, Len(s)) \in Seq(S) /\ Len(SubSeq(s, 1, Len(s))) = Len(s)
        /\ \A i \in 1..Len(s) : SubSeq(s, 1, Len(s))[i] = s[i]
    BY <1>1, SubSeqProperties, ElementOfSeq
  <2>2. \A i \in 1..Len(s) : t[i] \in S
    BY <1>1, <1>2, ElementOfSeq
  <2>3. /\ SubSeq(t, 1, Len(s)) \in Seq(S) /\ Len(SubSeq(t, 1, Len(s))) = Len(s)
        /\ \A i \in 1..Len(s) : SubSeq(t, 1, Len(s))[i] = t[i]
    BY <1>1, <2>2, SubSeqProperties
  <2>4. QED
    BY <2>1, <2>3, SeqEqual
<1>3. QED
  BY <1>2 DEF IsPrefix

\* Nothing that was a prefix ceases to be one when a message is added.
LEMMA PrefixStays ==
    ASSUME NEW S, NEW s \in Seq(S), NEW t \in Seq(S), NEW x \in S
    PROVE  /\ IsPrefix(t, t) /\ IsPrefix(t, Append(t, x))
           /\ IsPrefix(s, t) => IsPrefix(s, Append(t, x))
<1>1. /\ Append(t, x) \in Seq(S) /\ Len(Append(t, x)) = Len(t) + 1
      /\ \A i \in 1..Len(t) : Append(t, x)[i] = t[i]
  BY AppendProperties
<1>2. Len(s) \in Nat /\ Len(t) \in Nat
  BY LenProperties
<1>3. IsPrefix(t, t) /\ IsPrefix(t, Append(t, x))
  <2>1. IsPrefix(t, t)
    BY <1>2, PrefixIs
  <2>2. Len(t) <= Len(Append(t, x)) /\ \A i \in 1..Len(t) : t[i] = Append(t, x)[i]
    BY <1>1, <1>2
  <2>3. IsPrefix(t, Append(t, x)) <=> Len(t) <= Len(Append(t, x)) /\ \A i \in 1..Len(t) : t[i] = Append(t, x)[i]
    BY <1>1, PrefixIs
  <2>4. QED
    BY <2>1, <2>2, <2>3
<1>4. ASSUME IsPrefix(s, t) PROVE IsPrefix(s, Append(t, x))
  <2>1. Len(s) <= Len(t) /\ \A i \in 1..Len(s) : s[i] = t[i]
    BY <1>4, PrefixIs
  <2>2. Len(s) <= Len(Append(t, x)) /\ \A i \in 1..Len(s) : s[i] = Append(t, x)[i]
    BY <2>1, <1>1, <1>2
  <2>3. QED
    BY <1>1, <2>2, PrefixIs
<1>5. QED
  BY <1>3, <1>4

\* Taking the first byte off two sequences is taking it off the first.
LEMMA ConcatTail ==
    ASSUME NEW d \in Seq(Byte), NEW s \in Seq(Byte), d # <<>>
    PROVE  Head(d \o s) = Head(d) /\ Tail(d \o s) = Tail(d) \o s
<1>1. /\ Len(d) \in Nat /\ Len(s) \in Nat /\ Len(d) >= 1
      /\ Head(d) = d[1] /\ Tail(d) \in Seq(Byte) /\ Len(Tail(d)) = Len(d) - 1
      /\ \A i \in 1..Len(Tail(d)) : Tail(d)[i] = d[i + 1]
  BY HeadTailProperties, LenProperties, EmptySeq
<1> DEFINE r == d \o s
           t == Tail(d)
           u == t \o s
<1>2. /\ r \in Seq(Byte) /\ Len(r) = Len(d) + Len(s)
      /\ \A i \in 1..(Len(d) + Len(s)) : r[i] = IF i <= Len(d) THEN d[i] ELSE s[i - Len(d)]
  BY ConcatProperties
<1>3. t \in Seq(Byte) /\ Len(t) = Len(d) - 1 /\ \A i \in 1..Len(t) : t[i] = d[i + 1]
  BY <1>1
<1> HIDE DEF r, t
<1>4. /\ u \in Seq(Byte) /\ Len(u) = Len(t) + Len(s)
      /\ \A i \in 1..(Len(t) + Len(s)) : u[i] = IF i <= Len(t) THEN t[i] ELSE s[i - Len(t)]
  BY <1>3, ConcatProperties
<1> HIDE DEF u
<1>5. r # <<>>
  BY <1>1, <1>2, EmptySeq
<1>6. /\ Head(r) = r[1] /\ Tail(r) \in Seq(Byte) /\ Len(Tail(r)) = Len(r) - 1
      /\ \A i \in 1..Len(Tail(r)) : Tail(r)[i] = r[i + 1]
  BY <1>2, <1>5, HeadTailProperties
<1>7. \A i \in 1..Len(u) : Tail(r)[i] = u[i]
  <2> TAKE i \in 1..Len(u)
  <2>1. Len(u) = Len(d) - 1 + Len(s) /\ Tail(r)[i] = r[i + 1]
    BY <1>1, <1>2, <1>3, <1>4, <1>6
  <2>2. CASE i <= Len(d) - 1
    BY <2>1, <2>2, <1>1, <1>2, <1>3, <1>4
  <2>3. CASE i > Len(d) - 1
    <3>1. i + 1 - Len(d) = i - Len(t)
      BY <1>1, <1>3
    <3>2. r[i + 1] = s[i + 1 - Len(d)]
      BY <2>1, <2>3, <1>1, <1>2
    <3>3. u[i] = s[i - Len(t)]
      BY <2>1, <2>3, <1>1, <1>3, <1>4
    <3>4. QED
      BY <2>1, <3>1, <3>2, <3>3
  <2>4. Len(u) \in Nat
    BY <1>1, <1>3, <1>4
  <2>5. i <= Len(d) - 1 \/ i > Len(d) - 1
    BY <2>4, <1>1
  <2>6. QED
    BY <2>2, <2>3, <2>5
<1>8. Tail(r) = u
  BY <1>1, <1>2, <1>3, <1>4, <1>6, <1>7, SeqEqual
<1>9. Head(r) = Head(d)
  BY <1>1, <1>2, <1>6
<1>10. QED
  BY <1>8, <1>9 DEF r, u, t

\* What is left to put of the message of a point.
Rest(e) == e.delta \o SubSeq(e.open, Len(e.open) - e.left + 1, Len(e.open))

LEMMA PointForm ==
    ASSUME NEW e \in Point, Placed(e)
    PROVE  /\ e.open \in Seq(Byte) /\ Len(e.open) \in Nat /\ e.left \in Nat /\ e.left <= Len(e.open)
           /\ e.delta \in Seq(Byte) /\ e.running \in Byte /\ e.partial \in BOOLEAN
           /\ e.sent \in Seq(Seq(Byte))
           /\ e.left # 0 => e.open \in Message
           /\ e.left = 0 <=> e.open = <<>>
           /\ e.left = 0 => e.delta = <<>>
<1>1. /\ e.open \in Message \cup {<<>>} /\ e.left \in Nat
      /\ e.delta \in Seq(Byte) /\ e.running \in Byte /\ e.partial \in BOOLEAN
      /\ e.sent \in Seq(Seq(Byte))
  BY DEF Point
<1>2. e.open \in Seq(Byte)
  BY <1>1, MessageForm, EmptySeq
<1>3. Len(e.open) \in Nat
  BY <1>2, LenProperties
<1>4. QED
  BY <1>1, <1>2, <1>3 DEF Placed

\* The end of a message from a byte on.
LEMMA Suffix ==
    ASSUME NEW m \in Seq(Byte), NEW k \in 1..Len(m)
    PROVE  LET s == SubSeq(m, Len(m) - k + 1, Len(m))
           IN  /\ s \in Seq(Byte) /\ Len(s) = k /\ s # <<>>
               /\ Head(s) = m[Len(m) - k + 1]
               /\ Tail(s) = SubSeq(m, Len(m) - (k - 1) + 1, Len(m))
<1> DEFINE s == SubSeq(m, Len(m) - k + 1, Len(m))
           t == SubSeq(m, Len(m) - (k - 1) + 1, Len(m))
<1>1. Len(m) \in Nat /\ \A i \in 1..Len(m) : m[i] \in Byte
  BY LenProperties, ElementOfSeq
<1>2. /\ s \in Seq(Byte) /\ Len(s) = k
      /\ \A i \in 1..k : s[i] = m[Len(m) - k + i]
  <2>1. \A i \in (Len(m) - k + 1)..Len(m) : m[i] \in Byte
    BY <1>1
  <2>2. /\ s \in Seq(Byte)
        /\ Len(s) = IF Len(m) - k + 1 <= Len(m) THEN Len(m) - (Len(m) - k + 1) + 1 ELSE 0
        /\ \A i \in 1..(Len(m) - (Len(m) - k + 1) + 1) : s[i] = m[(Len(m) - k + 1) + i - 1]
    BY <1>1, <2>1, SubSeqProperties
  <2>3. QED
    BY <1>1, <2>2
<1>3. /\ t \in Seq(Byte) /\ Len(t) = k - 1
      /\ \A i \in 1..(k - 1) : t[i] = m[Len(m) - k + 1 + i]
  <2>1. \A i \in (Len(m) - (k - 1) + 1)..Len(m) : m[i] \in Byte
    BY <1>1
  <2>2. /\ t \in Seq(Byte)
        /\ Len(t) = IF Len(m) - (k - 1) + 1 <= Len(m) THEN Len(m) - (Len(m) - (k - 1) + 1) + 1 ELSE 0
        /\ \A i \in 1..(Len(m) - (Len(m) - (k - 1) + 1) + 1) : t[i] = m[(Len(m) - (k - 1) + 1) + i - 1]
    BY <1>1, <2>1, SubSeqProperties
  <2>3. QED
    BY <1>1, <2>2
<1> HIDE DEF s, t
<1>4. s # <<>>
  BY <1>1, <1>2, EmptySeq
<1>5. /\ Head(s) = s[1] /\ Tail(s) \in Seq(Byte) /\ Len(Tail(s)) = k - 1
      /\ \A i \in 1..(k - 1) : Tail(s)[i] = s[i + 1]
  <2>1. /\ Head(s) = s[1] /\ Tail(s) \in Seq(Byte) /\ Len(Tail(s)) = Len(s) - 1
        /\ \A i \in 1..Len(Tail(s)) : Tail(s)[i] = s[i + 1]
    BY <1>2, <1>4, HeadTailProperties
  <2>2. QED
    BY <2>1, <1>2
<1>6. \A i \in 1..(k - 1) : Tail(s)[i] = t[i]
  <2> TAKE i \in 1..(k - 1)
  <2>1. Tail(s)[i] = m[Len(m) - k + (i + 1)]
    BY <1>1, <1>2, <1>5
  <2>2. t[i] = m[Len(m) - k + 1 + i]
    BY <1>3
  <2>3. Len(m) - k + (i + 1) = Len(m) - k + 1 + i
    BY <1>1
  <2>4. QED
    BY <2>1, <2>2, <2>3
<1>7. Tail(s) = t
  BY <1>3, <1>5, <1>6, SeqEqual
<1>8. Head(s) = m[Len(m) - k + 1]
  BY <1>1, <1>2, <1>5
<1>9. QED
  BY <1>2, <1>4, <1>7, <1>8 DEF s, t

\* The byte that comes next, and what is left after it.
LEMMA RestStep ==
    ASSUME NEW e \in Point, Placed(e)
    PROVE  /\ Rest(e) \in Seq(Byte) /\ Len(Rest(e)) = Len(e.delta) + e.left
           /\ e.delta = <<>> /\ e.left > 0 =>
                /\ Head(Rest(e)) = e.open[Len(e.open) - e.left + 1]
                /\ Tail(Rest(e)) = SubSeq(e.open, Len(e.open) - (e.left - 1) + 1, Len(e.open))
           /\ e.delta # <<>> =>
                /\ Head(Rest(e)) = Head(e.delta)
                /\ Tail(Rest(e)) = Tail(e.delta) \o SubSeq(e.open, Len(e.open) - e.left + 1, Len(e.open))
<1> DEFINE s == SubSeq(e.open, Len(e.open) - e.left + 1, Len(e.open))
<1>1. s \in Seq(Byte) /\ Len(s) = e.left
  <2>1. CASE e.left = 0
    <3>1. s = <<>>
      BY <2>1, PointForm, SubSeqEmpty
    <3>2. QED
      BY <3>1, <2>1, EmptySeq
  <2>2. CASE e.left # 0
    <3>1. e.left \in 1..Len(e.open) /\ e.open \in Seq(Byte)
      BY <2>2, PointForm
    <3>2. QED
      BY <3>1, Suffix
  <2>3. QED
    BY <2>1, <2>2
<1>2. e.delta \in Seq(Byte) /\ Len(e.delta) \in Nat
  BY PointForm, LenProperties
<1>3. /\ Rest(e) \in Seq(Byte) /\ Len(Rest(e)) = Len(e.delta) + e.left
      /\ \A i \in 1..(Len(e.delta) + e.left) : Rest(e)[i] = IF i <= Len(e.delta) THEN e.delta[i] ELSE s[i - Len(e.delta)]
  <2> DEFINE d == e.delta
             l == e.left
  <2>1. Rest(e) = d \o s
    BY DEF Rest
  <2>2. d \in Seq(Byte) /\ s \in Seq(Byte) /\ Len(s) = l
    BY <1>1, <1>2
  <2> HIDE DEF d, s, l
  <2>3. /\ d \o s \in Seq(Byte) /\ Len(d \o s) = Len(d) + l
        /\ \A i \in 1..(Len(d) + l) : (d \o s)[i] = IF i <= Len(d) THEN d[i] ELSE s[i - Len(d)]
    BY <2>2, ConcatProperties
  <2>4. QED
    BY <2>1, <2>3, Zenon DEF d, l
<1>4. ASSUME e.delta = <<>>, e.left > 0
      PROVE  /\ Head(Rest(e)) = e.open[Len(e.open) - e.left + 1]
             /\ Tail(Rest(e)) = SubSeq(e.open, Len(e.open) - (e.left - 1) + 1, Len(e.open))
  <2>1. Rest(e) = s
    BY <1>4, <1>1, ConcatEmptySeq DEF Rest
  <2>2. e.left \in 1..Len(e.open) /\ e.open \in Seq(Byte)
    BY <1>4, PointForm
  <2>3. QED
    BY <2>1, <2>2, Suffix
<1> HIDE DEF s
<1>5. ASSUME e.delta # <<>>
      PROVE  /\ Head(Rest(e)) = Head(e.delta)
             /\ Tail(Rest(e)) = Tail(e.delta) \o s
  <2>1. Rest(e) = e.delta \o s
    BY DEF Rest, s
  <2>2. QED
    BY <1>1, <1>2, <1>5, <2>1, ConcatTail
<1>6. QED
  BY <1>3, <1>4, <1>5 DEF s

\* What is held of a message, byte by byte.
LEMMA Held ==
    ASSUME NEW m \in Seq(Byte)
    PROVE  /\ SubSeq(m, 1, 0) = <<>> /\ SubSeq(m, 1, Len(m)) = m
           /\ \A n \in 0..(Len(m) - 1) : Append(SubSeq(m, 1, n), m[n + 1]) = SubSeq(m, 1, n + 1)
           /\ Len(m) >= 2 => <<>> \o <<m[1], m[2]>> = SubSeq(m, 1, 2)
           /\ Len(m) >= 1 => Append(<<>>, m[1]) = SubSeq(m, 1, 1)
<1>1. Len(m) \in Nat /\ \A i \in 1..Len(m) : m[i] \in Byte
  BY LenProperties, ElementOfSeq
<1>2. ASSUME NEW n \in 0..Len(m)
      PROVE  /\ SubSeq(m, 1, n) \in Seq(Byte) /\ Len(SubSeq(m, 1, n)) = n
             /\ \A i \in 1..n : SubSeq(m, 1, n)[i] = m[i]
  <2>1. \A i \in 1..n : m[i] \in Byte
    BY <1>1
  <2>2. /\ SubSeq(m, 1, n) \in Seq(Byte)
        /\ Len(SubSeq(m, 1, n)) = IF 1 <= n THEN n - 1 + 1 ELSE 0
        /\ \A i \in 1..(n - 1 + 1) : SubSeq(m, 1, n)[i] = m[1 + i - 1]
    BY <1>1, <2>1, SubSeqProperties
  <2>3. QED
    BY <1>1, <2>2
<1>3. SubSeq(m, 1, 0) = <<>>
  BY SubSeqEmpty
<1>4. SubSeq(m, 1, Len(m)) = m
  <2>1. Len(m) \in 0..Len(m)
    BY <1>1
  <2>2. QED
    BY <1>2, <2>1, SeqEqual
<1>5. ASSUME NEW n \in 0..(Len(m) - 1)
      PROVE  Append(SubSeq(m, 1, n), m[n + 1]) = SubSeq(m, 1, n + 1)
  <2> DEFINE s == SubSeq(m, 1, n)
             t == SubSeq(m, 1, n + 1)
  <2>1. s \in Seq(Byte) /\ Len(s) = n /\ \A i \in 1..n : s[i] = m[i]
    BY <1>1, <1>2
  <2>2. t \in Seq(Byte) /\ Len(t) = n + 1 /\ \A i \in 1..(n + 1) : t[i] = m[i]
    <3>1. n + 1 \in 0..Len(m)
      BY <1>1
    <3>2. QED
      BY <3>1, <1>2
  <2>3. m[n + 1] \in Byte
    BY <1>1
  <2> HIDE DEF s, t
  <2>4. /\ Append(s, m[n + 1]) \in Seq(Byte) /\ Len(Append(s, m[n + 1])) = n + 1
        /\ \A i \in 1..n : Append(s, m[n + 1])[i] = m[i]
        /\ Append(s, m[n + 1])[n + 1] = m[n + 1]
    BY <2>1, <2>3, AppendProperties
  <2>5. \A i \in 1..(n + 1) : Append(s, m[n + 1])[i] = t[i]
    <3> TAKE i \in 1..(n + 1)
    <3>1. i \in 1..n \/ i = n + 1
      BY <1>1
    <3>2. QED
      BY <3>1, <2>2, <2>4
  <2>6. Append(s, m[n + 1]) = t
    BY <2>2, <2>4, <2>5, SeqEqual
  <2>7. QED
    BY <2>6 DEF s, t
<1>6. ASSUME Len(m) >= 1 PROVE Append(<<>>, m[1]) = SubSeq(m, 1, 1)
  <2>1. 0 \in 0..(Len(m) - 1) /\ 0 + 1 = 1
    BY <1>1, <1>6
  <2>2. QED
    BY <1>3, <1>5, <2>1
<1>7. ASSUME Len(m) >= 2 PROVE <<>> \o <<m[1], m[2]>> = SubSeq(m, 1, 2)
  <2>1. m[1] \in Byte /\ m[2] \in Byte
    BY <1>1, <1>7
  <2>2. <<m[1], m[2]>> \in Seq(Byte) /\ Len(<<m[1], m[2]>>) = 2
    BY <2>1
  <2>3. <<>> \o <<m[1], m[2]>> = <<m[1], m[2]>>
    BY <2>2, ConcatEmptySeq
  <2>4. SubSeq(m, 1, 2) \in Seq(Byte) /\ Len(SubSeq(m, 1, 2)) = 2 /\ \A i \in 1..2 : SubSeq(m, 1, 2)[i] = m[i]
    <3>1. 2 \in 0..Len(m)
      BY <1>1, <1>7
    <3>2. QED
      BY <3>1, <1>2
  <2>5. \A i \in 1..2 : SubSeq(m, 1, 2)[i] = <<m[1], m[2]>>[i]
    <3>1. SubSeq(m, 1, 2)[1] = m[1] /\ SubSeq(m, 1, 2)[2] = m[2]
      BY <2>4
    <3>2. QED
      BY <3>1
  <2>6. SubSeq(m, 1, 2) = <<m[1], m[2]>>
    BY <2>2, <2>4, <2>5, SeqEqual
  <2>7. QED
    BY <2>3, <2>6
<1>8. QED
  BY <1>3, <1>4, <1>5, <1>6, <1>7

\* A status byte that is neither 240 nor 247 begins no system exclusive.
LEMMA NoSysEx ==
    ASSUME NEW m, m[1] \notin 240..247 \/ m[1] \in 244..246
    PROVE  ~IsSysEx(m) /\ m[1] # 240 /\ m[1] # 247
<1> DEFINE x == m[1]
<1>1. x \notin 240..247 \/ x \in 244..246
  OBVIOUS
<1> HIDE DEF x
<1>2. x \notin {240, 247}
  BY <1>1
<1>3. QED
  BY <1>2 DEF x, IsSysEx

\* A channel message.
LEMMA ChannelForm ==
    ASSUME NEW m \in Message, IsChannel(m[1])
    PROVE  /\ m \in Seq(Byte) /\ Len(m) \in {2, 3} /\ Len(m) = 1 + BytesNeeded(m[1])
           /\ BytesNeeded(m[1]) \in {1, 2}
           /\ BytesNeeded((m[1] \div 16) * 16) = BytesNeeded(m[1])
           /\ m[1] \in Byte /\ m[1] # 0 /\ m[1] \notin 240..247
           /\ ~IsSysEx(m) /\ ~IsRealTime(m[1]) /\ ~IsData(m[1])
           /\ \A i \in 2..Len(m) : /\ m[i] \in Byte /\ IsData(m[i]) /\ ~IsRealTime(m[i])
                                   /\ m[i] \notin 240..247
<1>1. m \in Seq(Byte) /\ 1 \in 1..Len(m) /\ Len(m) \in Nat /\ \A i \in 1..Len(m) : m[i] \in Byte
  BY MessageForm
<1>2. m[1] \in Byte
  BY <1>1
<1>3. m[1] # 0 /\ m[1] \notin 240..247 /\ ~IsRealTime(m[1]) /\ ~IsData(m[1])
  BY <1>2, Kinds
<1>4. ~IsSysEx(m)
  BY <1>3, NoSysEx
<1>5. m[1] \notin 244..246
  BY <1>3
<1>6. Len(m) = 1 + BytesNeeded(m[1]) /\ \A i \in 2..Len(m) : IsData(m[i])
  BY <1>3, <1>4, <1>5, MessageForm
<1>7. /\ BytesNeeded(m[1]) \in {1, 2}
      /\ BytesNeeded((m[1] \div 16) * 16) = BytesNeeded(m[1])
  BY <1>2, Needed
<1>8. Len(m) \in {2, 3}
  <2> DEFINE n == BytesNeeded(m[1])
             l == Len(m)
  <2>1. l = 1 + n /\ n \in {1, 2}
    BY <1>6, <1>7
  <2> HIDE DEF n, l
  <2>2. l \in {2, 3}
    BY <2>1
  <2>3. QED
    BY <2>2 DEF l
<1>9. \A i \in 2..Len(m) : m[i] \in Byte /\ IsData(m[i]) /\ ~IsRealTime(m[i]) /\ m[i] \notin 240..247
  <2> TAKE i \in 2..Len(m)
  <2>1. i \in 1..Len(m)
    BY <1>1
  <2>2. m[i] \in Byte /\ IsData(m[i])
    BY <1>1, <1>6, <2>1
  <2>3. QED
    BY <2>2, Kinds
<1>10. QED
  BY <1>1, <1>2, <1>3, <1>4, <1>6, <1>7, <1>8, <1>9

\* A segment of a system exclusive.
LEMMA SysExForm ==
    ASSUME NEW m \in Message, IsSysEx(m)
    PROVE  /\ m \in Seq(Byte) /\ Len(m) \in Nat /\ Len(m) > 1 /\ m[1] \in {240, 247}
           /\ m[1] \in 240..247 /\ ~IsData(m[1]) /\ ~IsRealTime(m[1]) /\ ~IsChannel(m[1])
           /\ \A i \in 2..(Len(m) - 1) : m[i] \in Byte /\ ~IsRealTime(m[i]) /\ m[i] \notin 240..247
           /\ m[Len(m)] \in Byte /\ m[Len(m)] \in 240..247 /\ ~IsRealTime(m[Len(m)])
           /\ m[Len(m)] \in {240, 247} \/ (m[1] = 247 /\ m[Len(m)] = 244)
<1>1. m \in Seq(Byte) /\ 1 \in 1..Len(m) /\ Len(m) \in Nat /\ \A i \in 1..Len(m) : m[i] \in Byte
  BY MessageForm
<1>2. m[1] \in Byte /\ m[1] \in {240, 247}
  BY <1>1 DEF IsSysEx
<1>3. m[1] \in 240..247 /\ m[1] \notin 244..246
  <2> DEFINE x == m[1]
  <2>1. x \in {240, 247}
    BY <1>2
  <2> HIDE DEF x
  <2>2. x \in 240..247 /\ x \notin 244..246
    BY <2>1
  <2>3. QED
    BY <2>2 DEF x
<1>4. ~IsData(m[1]) /\ ~IsRealTime(m[1]) /\ ~IsChannel(m[1])
  BY <1>2, <1>3, Kinds
<1>5. /\ Len(m) > 1 /\ \A i \in 2..(Len(m) - 1) : IsData(m[i])
      /\ m[Len(m)] \in {240, 247} \/ (m[1] = 247 /\ m[Len(m)] = 244)
  BY <1>3, <1>4, MessageForm DEF Last
<1>6. \A i \in 2..(Len(m) - 1) : m[i] \in Byte /\ ~IsRealTime(m[i]) /\ m[i] \notin 240..247
  <2> TAKE i \in 2..(Len(m) - 1)
  <2>1. i \in 1..Len(m)
    BY <1>1
  <2>2. m[i] \in Byte /\ IsData(m[i])
    BY <1>1, <1>5, <2>1
  <2>3. QED
    BY <2>2, Kinds
<1>7. m[Len(m)] \in Byte /\ m[Len(m)] \in 240..247 /\ ~IsRealTime(m[Len(m)])
  <2> DEFINE x == m[Len(m)]
  <2>1. Len(m) \in 1..Len(m)
    BY <1>1, <1>5
  <2>2. x \in Byte /\ x \in {240, 244, 247}
    BY <1>1, <1>5, <2>1
  <2> HIDE DEF x
  <2>3. x \in 240..247
    BY <2>2
  <2>4. ~IsRealTime(x)
    BY <2>2, <2>3, Kinds
  <2>5. QED
    BY <2>2, <2>3, <2>4 DEF x
<1>8. QED
  BY <1>1, <1>2, <1>3, <1>4, <1>5, <1>6, <1>7

\* A message of one byte.
LEMMA SingleForm ==
    ASSUME NEW m \in Message, m[1] \in 244..246 \/ IsRealTime(m[1])
    PROVE  /\ m \in Seq(Byte) /\ Len(m) = 1 /\ m[1] \in Byte /\ m = <<m[1]>>
           /\ Append(<<>>, m[1]) = m
           /\ ~IsChannel(m[1]) /\ ~IsSysEx(m) /\ ~IsData(m[1]) /\ m[1] # 240 /\ m[1] # 247
           /\ m[1] \in 244..246 => ~IsRealTime(m[1])
<1>1. m \in Seq(Byte) /\ 1 \in 1..Len(m) /\ m[1] \in Byte
  BY MessageForm
<1>2. m[1] \in 244..246 => m[1] \in 240..247
  <2> DEFINE x == m[1]
  <2> HIDE DEF x
  <2>1. x \in 244..246 => x \in 240..247
    OBVIOUS
  <2>2. QED
    BY <2>1 DEF x
<1>3. /\ ~IsChannel(m[1]) /\ ~IsData(m[1])
      /\ m[1] \in 244..246 => ~IsRealTime(m[1])
      /\ m[1] \notin 240..247 \/ m[1] \in 244..246
  <2>1. CASE m[1] \in 244..246
    <3>1. m[1] \in Byte /\ m[1] \in 240..247
      BY <1>1, <1>2, <2>1
    <3>2. ~IsChannel(m[1]) /\ ~IsData(m[1]) /\ ~IsRealTime(m[1])
      BY <3>1, Kinds
    <3>3. QED
      BY <2>1, <3>2
  <2>2. CASE IsRealTime(m[1])
    <3>1. ~IsChannel(m[1]) /\ ~IsData(m[1]) /\ m[1] \notin 240..247
      BY <1>1, <2>2, Kinds
    <3>2. m[1] \notin 244..246
      BY <1>2, <3>1
    <3>3. QED
      BY <3>1, <3>2
  <2>3. QED
    BY <2>1, <2>2
<1>4. ~IsSysEx(m) /\ m[1] # 240 /\ m[1] # 247
  BY <1>3, NoSysEx
<1>5. Len(m) = 1
  BY <1>3, <1>4, MessageForm
<1>6. Append(<<>>, m[1]) = SubSeq(m, 1, 1) /\ SubSeq(m, 1, Len(m)) = m
  BY <1>1, <1>5, Held
<1>7. m = <<m[1]>>
  <2>1. <<m[1]>> \in Seq(Byte) /\ Len(<<m[1]>>) = 1 /\ <<m[1]>>[1] = m[1]
    BY <1>1
  <2>2. \A i \in 1..1 : m[i] = <<m[1]>>[i]
    BY <2>1
  <2>3. QED
    BY <1>1, <1>5, <2>1, <2>2, SeqEqual
<1>8. QED
  BY <1>1, <1>3, <1>4, <1>5, <1>6, <1>7

-----------------------------------------------------------------------------
\* While the parser runs, it is at e, and it goes to g.
At(e)  == sending /\ TypeOK /\ Turns /\ Placed(e) /\ Match(e) /\ emitted = e.sent
To(g)  == Match(g)' /\ emitted' = g.sent

\* What every way round the loop leaves alone.
LEMMA ReadLeaves ==
    ASSUME NEW b, ReadByte(b)
    PROVE  /\ sending /\ ring # <<>> /\ b = Head(ring) /\ ring' = Tail(ring)
           /\ sending' = sending /\ UNCHANGED encoderVars
<1>1. QED
  BY DEF ReadByte, Read, ReadDelta, RealTime, IgnoreData, RunningData, SysExStart, StatusByte,
         DataByte2, DataByte1, SysExByte, encoderVars

\* What is left of a delta time, byte by byte.
LEMMA DeltaStep ==
    ASSUME NEW d \in Seq(Byte), d # <<>>, DeltaLeft(d)
    PROVE  /\ IsData(Head(d)) <=> Tail(d) = <<>>
           /\ DeltaLeft(Tail(d)) /\ Tail(d) \in Seq(Byte)
<1> DEFINE t == Tail(d)
           h == Head(d)
<1>1. /\ Len(d) \in Nat /\ Len(d) >= 1 /\ h = d[1] /\ t \in Seq(Byte)
      /\ Len(t) = Len(d) - 1 /\ \A i \in 1..(Len(d) - 1) : t[i] = d[i + 1]
      /\ \A i \in 1..Len(d) : d[i] \in 0..255
  BY HeadTailProperties, LenProperties, EmptySeq, ElementOfSeq DEF Byte
<1> HIDE DEF t, h
<1>2. d[Len(d)] < 128 /\ \A i \in 1..(Len(d) - 1) : d[i] >= 128
  BY DEF DeltaLeft, Last
<1>3. CASE Len(d) = 1
  <2>1. t = <<>>
    BY <1>1, <1>3, EmptySeq
  <2>2. h < 128
    BY <1>1, <1>2, <1>3
  <2>3. QED
    BY <2>1, <2>2, <1>1 DEF IsData, DeltaLeft, t, h
<1>4. CASE Len(d) > 1
  <2>1. t # <<>>
    BY <1>1, <1>4, EmptySeq
  <2>2. ~(h < 128)
    <3>1. 1 \in 1..(Len(d) - 1) /\ h \in 0..255
      BY <1>1, <1>4
    <3>2. h >= 128
      BY <3>1, <1>1, <1>2
    <3>3. QED
      BY <3>1, <3>2
  <2>3. t[Len(t)] = d[Len(d)]
    BY <1>1, <1>4
  <2>4. \A i \in 1..(Len(t) - 1) : t[i] >= 128
    BY <1>1, <1>2, <1>4
  <2>5. QED
    BY <2>1, <2>2, <2>3, <2>4, <1>1, <1>2 DEF DeltaLeft, Last, IsData, t, h
<1>5. QED
  BY <1>1, <1>3, <1>4

\* A byte of a delta time.
LEMMA ReadsDelta ==
    ASSUME NEW e \in Point, NEW g \in Point, NEW b, At(e), ReadByte(b), PutDelta(e, b, g)
    PROVE  To(g)
<1>1. /\ e.delta # <<>> /\ b = Head(e.delta) /\ g = [e EXCEPT !.delta = Tail(e.delta)]
      /\ mode = "RTP" /\ e.left # 0 /\ sending /\ sending' /\ mode' = mode
  BY PointForm, ModesAssumption, ReadLeaves DEF PutDelta, At, Placed, TypeOK, encoderVars
<1>2. /\ g.delta = Tail(e.delta) /\ g.left = e.left /\ g.open = e.open /\ g.running = e.running
      /\ g.partial = e.partial /\ g.sent = e.sent
  BY <1>1 DEF Point
<1>3. Between(e) /\ Ahead(e) /\ Entry = "WAIT_DELTA"
  BY <1>1 DEF At, Match, Within, Between, Ahead, Due
<1>4. ReadDelta(b)
  BY <1>3 DEF ReadByte, Read, ReadDelta, RealTime, IgnoreData, RunningData, SysExStart, StatusByte,
              DataByte2, DataByte1, SysExByte, NotDelta, Status
<1>5. /\ status' = IF IsData(b) THEN "WAIT_COMMAND" ELSE "WAIT_DELTA"
      /\ hold' = hold /\ emitted' = emitted
      /\ UNCHANGED <<running_status, partial_sysex, get_delta>>
  BY <1>4 DEF ReadDelta, Wait
<1>6. IsData(b) <=> g.delta = <<>>
  BY <1>1, <1>2, DeltaStep, PointForm DEF At, Placed
<1>7. Entry' = status'
  BY <1>5 DEF Entry
<1>8. g.delta # <<>> <=> Due'
  BY <1>1, <1>5, <1>6, <1>7 DEF Due
<1>9. Ahead(g)'
  BY <1>1, <1>2, <1>3, <1>5, <1>8 DEF Ahead, Whole, Running, RunningAgrees, PartialAgrees
<1>10. Between(g)'
  BY <1>1, <1>2, <1>3, <1>5, <1>9 DEF Between
<1>11. QED
  BY <1>2, <1>5, <1>10 DEF To, At, Match

\* In simple mode the parser never waits for a delta time.
LEMMA SimpleEntry ==
    ASSUME TypeOK, Turns, mode = "SIMPLE"
    PROVE  Entry \in NotDelta /\ Entry = IF status = "INIT" THEN "WAIT_COMMAND" ELSE status
<1>1. QED
  BY DEF TypeOK, Turns, Entry, NotDelta, Status

\* A real-time message between any two bytes.
LEMMA ReadsAlone ==
    ASSUME NEW e \in Point, NEW g \in Point, NEW b, At(e), ReadByte(b), PutAlone(e, b, g)
    PROVE  To(g)
<1>1. /\ mode = "SIMPLE" /\ b \in 248..255 /\ g = [e EXCEPT !.sent = Append(e.sent, <<b>>)]
      /\ mode' = mode /\ sending /\ sending' = sending
  BY RealTimeAssumption, ReadLeaves DEF PutAlone, encoderVars
<1>2. /\ g.sent = Append(e.sent, <<b>>) /\ g.left = e.left /\ g.open = e.open
      /\ g.running = e.running /\ g.partial = e.partial /\ g.delta = e.delta
  BY <1>1 DEF Point
<1>3. /\ TypeOK /\ Turns /\ Entry \in NotDelta
      /\ Entry = IF status = "INIT" THEN "WAIT_COMMAND" ELSE status
  BY <1>1, SimpleEntry DEF At
<1>4. IsRealTime(b) /\ ~IsData(b) /\ b # 240 /\ b # 247
  BY <1>1 DEF IsRealTime, IsData
<1>5. RealTime(b)
  BY <1>3, <1>4 DEF ReadByte, Read, ReadDelta, RealTime, IgnoreData, RunningData, SysExStart, StatusByte,
              DataByte2, DataByte1, SysExByte, NotDelta, Status
<1>6. /\ status' = Entry /\ emitted' = Append(emitted, <<b>>)
      /\ UNCHANGED <<get_delta, hold, running_status, partial_sysex>>
  BY <1>5 DEF RealTime
<1>7. g.sent # <<>>
  <2>1. <<b>> \in Seq(Byte) /\ e.sent \in Seq(Seq(Byte))
    BY <1>1, PointForm DEF At, Byte
  <2> DEFINE x == <<b>>
             t == e.sent
  <2>2. Append(e.sent, x) # <<>>
    <3>1. x \in Seq(Byte) /\ t \in Seq(Seq(Byte))
      BY <2>1
    <3> HIDE DEF x, t
    <3>2. Append(t, x) # <<>>
      BY <3>1, AppendProperties
    <3>3. QED
      BY <3>2 DEF t
  <2>3. QED
    BY <1>2, <2>2
<1>8. ~Due /\ ~Due'
  BY <1>1, <1>3, <1>6 DEF Due, Entry, Turns, TypeOK, NotDelta
<1>9. CASE Between(e)
  <2>1. status' = "WAIT_COMMAND" /\ hold' = <<>>
    BY <1>3, <1>6, <1>9 DEF Between, Turns, NotDelta
  <2>2. e.left = 0 => Idle(g)'
    BY <1>1, <1>2, <1>6, <1>7, <1>9 DEF Between, Idle, RunningAgrees, PartialAgrees
  <2>3. e.left # 0 => Ahead(g)'
    BY <1>1, <1>2, <1>6, <1>8, <1>9 DEF Between, Ahead, Whole, Running, RunningAgrees, PartialAgrees
  <2>4. QED
    BY <1>2, <1>6, <2>1, <2>2, <2>3 DEF To, At, Match, Between
<1>10. CASE Within(e)
  <2>1. status' = status
    BY <1>3, <1>6, <1>10 DEF Within, InChannel, InSysEx
  <2>2. InChannel(e) => InChannel(g)'
    BY <1>1, <1>2, <1>6, <2>1 DEF InChannel, PartialAgrees
  <2>3. InSysEx(e) => InSysEx(g)'
    BY <1>1, <1>2, <1>6, <2>1 DEF InSysEx
  <2>4. Within(g)'
    BY <1>1, <1>2, <1>6, <1>10, <2>2, <2>3 DEF Within
  <2>5. QED
    BY <1>2, <1>6, <2>4 DEF To, At, Match
<1>11. QED
  BY <1>9, <1>10 DEF At, Match

\* Data before the first status byte.
LEMMA ReadsData ==
    ASSUME NEW e \in Point, NEW g \in Point, NEW b, At(e), ReadByte(b), PutData(e, b, g)
    PROVE  To(g)
<1>1. /\ mode = "SIMPLE" /\ b = 1 /\ e.sent = <<>> /\ e.left = 0 /\ g = e
      /\ mode' = mode /\ sending /\ sending' = sending
  BY PointForm, ReadLeaves DEF PutData, encoderVars, At
<1>2. /\ TypeOK /\ Turns /\ Entry \in NotDelta
      /\ Entry = IF status = "INIT" THEN "WAIT_COMMAND" ELSE status
  BY <1>1, SimpleEntry DEF At
<1>3. Between(e) /\ Idle(e) /\ running_status = 0
  BY <1>1 DEF At, Match, Within, Between, Idle
<1>4. Entry = "WAIT_COMMAND" /\ IsData(b) /\ ~IsRealTime(b) /\ b # 240 /\ b # 247
  BY <1>1, <1>2, <1>3 DEF IsData, IsRealTime, Between, NotDelta
<1>5. IgnoreData(b)
  BY <1>3, <1>4 DEF ReadByte, Read, ReadDelta, RealTime, IgnoreData, RunningData, SysExStart, StatusByte,
              DataByte2, DataByte1, SysExByte, NotDelta, Status
<1>6. /\ status' = "WAIT_COMMAND" /\ hold' = hold
      /\ UNCHANGED <<get_delta, emitted, running_status, partial_sysex>>
  BY <1>5 DEF IgnoreData, Wait
<1>7. Idle(g)' /\ Between(g)'
  BY <1>1, <1>3, <1>6 DEF Idle, Between, RunningAgrees, PartialAgrees
<1>8. QED
  BY <1>1, <1>6, <1>7 DEF To, At, Match

\* Of a delta time nothing is left.
PutByteOf(e, b, g) == PutInner(e, b, g) \/ PutLast(e, b, g)

\* The byte of a message, and the point after it.
LEMMA PutsByte ==
    ASSUME NEW e \in Point, NEW g \in Point, NEW b, Placed(e), PutByteOf(e, b, g)
    PROVE  /\ e.delta = <<>> /\ e.left \in 1..Len(e.open) /\ e.open \in Message
           /\ b = e.open[Len(e.open) - e.left + 1] /\ b \in Byte
           /\ g.delta = <<>> /\ g.left = e.left - 1 /\ g.running = e.running /\ g.partial = e.partial
           /\ e.left > 1 => g.open = e.open /\ g.sent = e.sent
           /\ e.left = 1 => g.open = <<>> /\ g.sent = Append(e.sent, e.open) /\ g.sent # <<>>
<1>1. e.delta = <<>> /\ e.left \in 1..Len(e.open) /\ e.open \in Message /\ e.open \in Seq(Byte)
  BY PointForm DEF PutByteOf, PutInner, PutLast
<1>2. Len(e.open) \in Nat
  BY PointForm
<1>3. b = e.open[Len(e.open) - e.left + 1]
  BY <1>1, <1>2 DEF PutByteOf, PutInner, PutLast
<1>4. b \in Byte
  <2>1. Len(e.open) - e.left + 1 \in 1..Len(e.open)
    BY <1>1, <1>2
  <2>2. QED
    BY <1>1, <1>3, <2>1, ElementOfSeq
<1>5. CASE e.left > 1
  <2>1. g = [e EXCEPT !.left = e.left - 1]
    BY <1>1, <1>5 DEF PutByteOf, PutInner, PutLast
  <2>2. /\ g.delta = e.delta /\ g.left = e.left - 1 /\ g.running = e.running
        /\ g.partial = e.partial /\ g.open = e.open /\ g.sent = e.sent
    BY <2>1 DEF Point
  <2>3. QED
    BY <1>1, <1>3, <1>4, <1>5, <2>2
<1>6. CASE e.left = 1
  <2>1. g = [e EXCEPT !.left = 0, !.open = <<>>, !.sent = Append(e.sent, e.open)]
    BY <1>6 DEF PutByteOf, PutInner, PutLast
  <2>2. /\ g.delta = e.delta /\ g.left = 0 /\ g.running = e.running
        /\ g.partial = e.partial /\ g.open = <<>> /\ g.sent = Append(e.sent, e.open)
    BY <2>1 DEF Point
  <2>3. e.sent \in Seq(Seq(Byte))
    BY PointForm
  <2>4. Append(e.sent, e.open) # <<>>
    BY <1>1, <2>3, AppendProperties
  <2>5. QED
    BY <1>1, <1>3, <1>4, <1>6, <2>2, <2>4
<1>7. QED
  BY <1>1, <1>2, <1>5, <1>6

\* Between messages the parser waits for a command, unless a delta time is due.
LEMMA AwaitsCommand ==
    ASSUME NEW e \in Point, At(e), Between(e), e.left # 0, e.delta = <<>>
    PROVE  Entry = "WAIT_COMMAND" /\ Ahead(e) /\ hold = <<>>
<1>1. Ahead(e) /\ ~Due /\ hold = <<>>
  BY DEF Between, Ahead
<1>2. Entry # "WAIT_DELTA"
  BY <1>1 DEF Due, At
<1>3. QED
  BY <1>1, <1>2 DEF Entry, Between

\* The message is complete when its last byte has been read.
LEMMA Completed ==
    ASSUME NEW e \in Point, NEW g \in Point, NEW b, At(e), ReadByte(b), PutByteOf(e, b, g),
           NEW held, Received(held), held = e.open, e.left = 1,
           (RunningAgrees(g) /\ PartialAgrees(g))'
    PROVE  To(g)
<1>1. /\ g.left = 0 /\ g.sent = Append(e.sent, e.open) /\ g.sent # <<>>
  BY PutsByte DEF At
<1>2. /\ status' = "INIT" /\ hold' = <<>> /\ emitted' = Append(emitted, held)
      /\ mode = "RTP" => get_delta'
      /\ mode' = mode
  BY ReadLeaves DEF Received, encoderVars, TypeOK, At
<1>3. Idle(g)'
  BY <1>1, <1>2 DEF Idle, RunningAgrees, PartialAgrees
<1>4. Between(g)'
  BY <1>1, <1>2, <1>3 DEF Between
<1>5. QED
  BY <1>1, <1>2, <1>4 DEF To, At, Match

\* The first byte of a channel message.
LEMMA ReadsChannelStatus ==
    ASSUME NEW e \in Point, NEW g \in Point, NEW b, At(e), ReadByte(b), PutByteOf(e, b, g),
           Between(e), Whole(e), IsChannel(e.open[1])
    PROVE  To(g)
<1> DEFINE m == e.open
<1>1. /\ m \in Message /\ m \in Seq(Byte) /\ Len(m) \in {2, 3} /\ Len(m) = 1 + BytesNeeded(m[1])
      /\ BytesNeeded(m[1]) \in {1, 2}
      /\ BytesNeeded((m[1] \div 16) * 16) = BytesNeeded(m[1])
      /\ ~IsSysEx(m) /\ ~IsData(m[1]) /\ ~IsRealTime(m[1]) /\ m[1] \notin 240..247
  BY PutsByte, ChannelForm DEF At
<1>2. /\ b = m[1] /\ e.left = Len(m) /\ e.left > 1 /\ g.left = BytesNeeded(m[1])
      /\ g.open = m /\ g.delta = <<>> /\ g.sent = e.sent /\ g.running = e.running /\ g.partial = e.partial
      /\ e.delta = <<>>
  <2>1. e.left = Len(m) /\ e.left > 1 /\ Len(m) - e.left + 1 = 1 /\ e.left - 1 = BytesNeeded(m[1])
    <3> DEFINE n == BytesNeeded(m[1])
               l == Len(m)
    <3>1. e.left = l /\ l = 1 + n /\ n \in {1, 2}
      BY <1>1 DEF Whole
    <3> HIDE DEF n, l
    <3>2. e.left = l /\ e.left > 1 /\ l - e.left + 1 = 1 /\ e.left - 1 = n
      BY <3>1
    <3>3. QED
      BY <3>2 DEF n, l
  <2>2. QED
    BY <2>1, PutsByte DEF At
<1>3. /\ Entry = "WAIT_COMMAND" /\ Ahead(e) /\ hold = <<>> /\ mode' = mode
      /\ ~IsData(b) /\ ~IsRealTime(b) /\ b # 240 /\ b # 247
  <2>1. ~IsData(b) /\ ~IsRealTime(b) /\ b # 240 /\ b # 247
    BY <1>1, <1>2
  <2>2. e.left # 0 /\ e.delta = <<>>
    BY <1>2
  <2>3. QED
    BY <2>1, <2>2, AwaitsCommand, ReadLeaves DEF encoderVars
<1>4. StatusByte(b)
  BY <1>3 DEF ReadByte, Read, ReadDelta, RealTime, IgnoreData, RunningData, SysExStart, StatusByte,
              DataByte2, DataByte1, SysExByte, NotDelta, Status
<1>5. Wait(IF BytesNeeded(b) = 1 THEN "WAIT_BYTE_1" ELSE "WAIT_BYTE_2", Append(hold, b))
  BY <1>1, <1>2, <1>4 DEF StatusByte, AfterStatus
<1>6. /\ status' = IF BytesNeeded(b) = 1 THEN "WAIT_BYTE_1" ELSE "WAIT_BYTE_2"
      /\ hold' = SubSeq(m, 1, 1) /\ emitted' = emitted
      /\ running_status' = b /\ partial_sysex' = partial_sysex
  BY <1>1, <1>2, <1>3, <1>4, <1>5, Held DEF Wait, StatusByte
<1>7. e.running = m[1] /\ PartialAgrees(e)
  BY <1>1, <1>3 DEF Ahead, IsSysEx
<1>8. InChannel(g)'
  BY <1>1, <1>2, <1>3, <1>6, <1>7 DEF InChannel, PartialAgrees
<1>9. Within(g)'
  <2>1. Len(m) - g.left = 1 /\ g.left \in 1..(Len(m) - 1)
    BY <1>1, <1>2
  <2>2. QED
    BY <1>2, <1>6, <1>8, <2>1 DEF Within
<1>10. QED
  BY <1>2, <1>6, <1>9 DEF To, At, Match

\* The first byte of a segment of a system exclusive.
LEMMA ReadsSysExStatus ==
    ASSUME NEW e \in Point, NEW g \in Point, NEW b, At(e), ReadByte(b), PutByteOf(e, b, g),
           Between(e), Whole(e), IsSysEx(e.open)
    PROVE  To(g)
<1> DEFINE m == e.open
<1>1. /\ m \in Message /\ m \in Seq(Byte) /\ Len(m) \in Nat /\ Len(m) > 1 /\ m[1] \in {240, 247}
      /\ ~IsData(m[1]) /\ ~IsRealTime(m[1])
  BY PutsByte, SysExForm DEF At
<1>2. /\ b = m[1] /\ e.left = Len(m) /\ e.left > 1 /\ g.left = Len(m) - 1
      /\ g.open = m /\ g.delta = <<>> /\ g.sent = e.sent /\ g.running = e.running /\ g.partial = e.partial
      /\ e.delta = <<>>
  BY <1>1, PutsByte DEF At, Whole
<1>3. /\ Entry = "WAIT_COMMAND" /\ Ahead(e) /\ hold = <<>> /\ mode' = mode
      /\ ~IsData(b) /\ ~IsRealTime(b)
  <2>1. e.left # 0 /\ e.delta = <<>>
    BY <1>1, <1>2
  <2>2. QED
    BY <1>1, <1>2, <2>1, AwaitsCommand, ReadLeaves DEF encoderVars
<1>4. /\ m[1] = 247 => partial_sysex
      /\ e.partial <=> Last(m) = 240
      /\ e.running = 0
  BY <1>1, <1>3 DEF Ahead, IsSysEx
<1>5. SysExStart(b)
  BY <1>1, <1>2, <1>3, <1>4 DEF ReadByte, Read, ReadDelta, RealTime, IgnoreData, RunningData, SysExStart, StatusByte,
              DataByte2, DataByte1, SysExByte, NotDelta, Status
<1>6. /\ status' = "WAIT_END_SYSEX" /\ hold' = SubSeq(m, 1, 1) /\ emitted' = emitted
      /\ running_status' = 0 /\ partial_sysex' = partial_sysex
  BY <1>1, <1>2, <1>3, <1>5, Held DEF Wait, SysExStart
<1>7. InSysEx(g)'
  BY <1>1, <1>2, <1>4, <1>6 DEF InSysEx, IsSysEx
<1>8. Within(g)'
  BY <1>1, <1>2, <1>6, <1>7 DEF Within
<1>9. QED
  BY <1>2, <1>6, <1>8 DEF To, At, Match

\* A message of one byte.
LEMMA ReadsSingle ==
    ASSUME NEW e \in Point, NEW g \in Point, NEW b, At(e), ReadByte(b), PutByteOf(e, b, g),
           Between(e), Whole(e), e.open[1] \in 244..246 \/ IsRealTime(e.open[1]),
           ListsWithoutRealTime
    PROVE  To(g)
<1> DEFINE m == e.open
<1>1. /\ m \in Message /\ m \in Seq(Byte) /\ Len(m) = 1 /\ m[1] \in Byte /\ m = <<m[1]>>
      /\ ~IsChannel(m[1]) /\ ~IsSysEx(m) /\ ~IsData(m[1]) /\ m[1] # 240 /\ m[1] # 247
      /\ Append(<<>>, m[1]) = m /\ (m[1] \in 244..246 => ~IsRealTime(m[1]))
  BY PutsByte, SingleForm DEF At
<1>2. /\ b = m[1] /\ e.left = 1 /\ g.left = 0 /\ g.running = e.running /\ g.partial = e.partial
      /\ e.delta = <<>> /\ g.sent = Append(e.sent, m) /\ g.sent # <<>>
  BY <1>1, PutsByte DEF At, Whole
<1>3. /\ Entry = "WAIT_COMMAND" /\ Ahead(e) /\ hold = <<>> /\ mode' = mode
      /\ ~IsData(b) /\ b # 240 /\ b # 247
  <2>1. ~IsData(b) /\ b # 240 /\ b # 247
    BY <1>1, <1>2
  <2>2. e.left # 0 /\ e.delta = <<>>
    BY <1>2
  <2>3. QED
    BY <2>1, <2>2, AwaitsCommand, ReadLeaves DEF encoderVars
<1>4. PartialAgrees(e)
  BY <1>1, <1>3 DEF Ahead
<1>5. Append(<<>>, b) = m /\ m = <<b>>
  BY <1>1, <1>2
<1>6. CASE m[1] \in 244..246
  <2>1. StatusByte(b)
    BY <1>1, <1>2, <1>3, <1>6 DEF ReadByte, Read, ReadDelta, RealTime, IgnoreData, RunningData, SysExStart, StatusByte,
              DataByte2, DataByte1, SysExByte, NotDelta, Status
  <2>2. BytesNeeded((b \div 16) * 16) = 0
    BY <1>1, <1>2, <1>6, Needed
  <2>3. Received(m) /\ running_status' = b /\ partial_sysex' = partial_sysex
    BY <1>3, <1>5, <2>1, <2>2 DEF StatusByte, AfterStatus
  <2>4. e.running = 0
    BY <1>3, <1>6 DEF Ahead
  <2>5. (RunningAgrees(g) /\ PartialAgrees(g))'
    BY <1>2, <1>3, <1>4, <2>3, <2>4 DEF RunningAgrees, PartialAgrees
  <2>6. QED
    BY <1>2, <2>3, <2>5, Completed
<1>7. CASE IsRealTime(m[1])
  <2>1. mode = "SIMPLE"
    BY <1>1, <1>7, ModesAssumption DEF ListsWithoutRealTime, At, TypeOK
  <2>2. RealTime(b)
    BY <1>2, <1>3, <1>7 DEF ReadByte, Read, ReadDelta, RealTime, IgnoreData, RunningData, SysExStart, StatusByte,
              DataByte2, DataByte1, SysExByte, NotDelta, Status
  <2>3. /\ status' = "WAIT_COMMAND" /\ emitted' = Append(emitted, m) /\ hold' = <<>>
        /\ running_status' = running_status /\ partial_sysex' = partial_sysex
    BY <1>3, <1>5, <2>2 DEF RealTime
  <2>4. RunningAgrees(e)
    BY <1>1, <1>2, <1>3, <1>7 DEF Ahead, Running, Whole
  <2>5. Idle(g)'
    BY <1>2, <1>3, <1>4, <2>1, <2>3, <2>4 DEF Idle, RunningAgrees, PartialAgrees
  <2>6. Between(g)'
    BY <1>2, <2>3, <2>5 DEF Between
  <2>7. QED
    BY <1>2, <2>3, <2>6 DEF To, At, Match
<1>8. QED
  BY <1>6, <1>7

\* The first data byte under running status.
LEMMA ReadsRunning ==
    ASSUME NEW e \in Point, NEW g \in Point, NEW b, At(e), ReadByte(b), PutByteOf(e, b, g),
           Between(e), Running(e), ~Whole(e)
    PROVE  To(g)
<1> DEFINE m == e.open
           n == BytesNeeded(m[1])
           l == Len(m)
<1>1. /\ m \in Message /\ m \in Seq(Byte) /\ l \in {2, 3} /\ l = 1 + n /\ n \in {1, 2}
      /\ IsChannel(m[1]) /\ ~IsSysEx(m) /\ ~IsRealTime(m[1]) /\ m[1] # 0
      /\ \A i \in 2..l : m[i] \in Byte /\ IsData(m[i]) /\ ~IsRealTime(m[i]) /\ m[i] \notin 240..247
  <2>1. m \in Message /\ IsChannel(m[1])
    BY PutsByte DEF At, Running
  <2>2. QED
    BY <2>1, ChannelForm
<1>2. e.left = n /\ l - e.left + 1 = 2 /\ 2 \in 2..l /\ l >= 2
  <2>1. e.left = l - 1
    BY DEF Running
  <2> HIDE DEF n, l
  <2>2. QED
    BY <1>1, <2>1
<1>3. /\ b = m[2] /\ IsData(b) /\ ~IsRealTime(b) /\ b \notin 240..247
      /\ g.delta = <<>> /\ g.left = n - 1 /\ g.running = e.running /\ g.partial = e.partial
      /\ n = 2 => g.open = m /\ g.sent = e.sent
      /\ n = 1 => g.sent = Append(e.sent, m)
      /\ e.left # 0 /\ e.delta = <<>>
  <2>1. (n = 2 => e.left > 1) /\ (n = 1 => e.left = 1) /\ e.left # 0
    <3> HIDE DEF n, l
    <3>1. QED
      BY <1>1, <1>2
  <2>2. b = m[2]
    BY <1>2, PutsByte DEF At
  <2>3. IsData(b) /\ ~IsRealTime(b) /\ b \notin 240..247
    BY <1>1, <1>2, <2>2, ZenonT(60)
  <2>4. /\ g.delta = <<>> /\ g.left = e.left - 1 /\ g.running = e.running /\ g.partial = e.partial
        /\ e.left > 1 => g.open = m /\ g.sent = e.sent
        /\ e.left = 1 => g.sent = Append(e.sent, m)
        /\ e.delta = <<>>
    BY PutsByte DEF At
  <2>5. g.left = n - 1
    BY <1>2, <2>4
  <2>6. QED
    BY <2>1, <2>2, <2>3, <2>4, <2>5
<1>4. b # 240 /\ b # 247
  BY <1>3
<1>5. /\ Entry = "WAIT_COMMAND" /\ Ahead(e) /\ hold = <<>> /\ mode' = mode
  BY <1>3, AwaitsCommand, ReadLeaves DEF encoderVars
<1>6. running_status = m[1] /\ running_status # 0 /\ e.running = m[1] /\ PartialAgrees(e)
  BY <1>1, <1>5 DEF Ahead, Whole
<1>7. RunningData(b)
  BY <1>3, <1>4, <1>5, <1>6 DEF ReadByte, Read, ReadDelta, RealTime, IgnoreData, RunningData, SysExStart, StatusByte,
              DataByte2, DataByte1, SysExByte, NotDelta, Status
<1>8. hold \o <<running_status, b>> = SubSeq(m, 1, 2)
  <2>1. <<>> \o <<m[1], m[2]>> = SubSeq(m, 1, 2)
    BY <1>1, <1>2, Held
  <2>2. QED
    BY <2>1, <1>3, <1>5, <1>6
<1>9. running_status' = running_status /\ partial_sysex' = partial_sysex
  BY <1>7 DEF RunningData
<1>10. (RunningAgrees(g) /\ PartialAgrees(g))'
  BY <1>3, <1>5, <1>6, <1>9 DEF RunningAgrees, PartialAgrees
<1>11. CASE n = 1
  <2>1. Received(SubSeq(m, 1, 2))
    <3>1. BytesNeeded(running_status) = 1
      BY <1>6, <1>11
    <3>2. Received(hold \o <<running_status, b>>)
      BY <1>7, <3>1 DEF RunningData, Received, Wait
    <3>3. QED
      BY <1>8, <3>2
  <2>2. SubSeq(m, 1, 2) = m
    <3>1. l = 2
      BY <1>1, <1>11
    <3>2. SubSeq(m, 1, l) = m
      BY <1>1, Held
    <3>3. QED
      BY <3>1, <3>2
  <2>3. e.left = 1
    BY <1>2, <1>11
  <2>4. QED
    BY <2>1, <2>2, <2>3, <1>10, Completed
<1>12. CASE n = 2
  <2>1. Wait("WAIT_BYTE_1", SubSeq(m, 1, 2))
    <3>1. BytesNeeded(running_status) = 2
      BY <1>6, <1>12
    <3>2. Wait("WAIT_BYTE_1", hold \o <<running_status, b>>)
      BY <1>7, <3>1 DEF RunningData, Received, Wait
    <3>3. QED
      BY <1>8, <3>2
  <2>2. /\ status' = "WAIT_BYTE_1" /\ hold' = SubSeq(m, 1, 2) /\ emitted' = emitted
    BY <2>1 DEF Wait
  <2>3. g.left = 1 /\ l - g.left = 2 /\ g.left \in 1..(l - 1) /\ g.open = m
    BY <1>1, <1>3, <1>12
  <2>4. InChannel(g)'
    BY <1>1, <1>3, <1>6, <1>9, <1>10, <2>2, <2>3 DEF InChannel
  <2>5. Within(g)'
    BY <1>3, <2>2, <2>3, <2>4 DEF Within
  <2>6. QED
    BY <1>3, <1>12, <2>2, <2>5 DEF To, At, Match
<1>13. QED
  BY <1>1, <1>11, <1>12

\* What is held is one byte longer, and complete with the last.
LEMMA HeldOn ==
    ASSUME NEW e \in Point, NEW g \in Point, NEW b, At(e), PutByteOf(e, b, g), Within(e)
    PROVE  /\ Append(hold, b) = SubSeq(e.open, 1, Len(e.open) - g.left)
           /\ e.left = 1 => Append(hold, b) = e.open
           /\ e.left > 1 => g.left \in 1..(Len(e.open) - 1)
<1> DEFINE m == e.open
           l == Len(m)
           n == l - e.left
<1>1. /\ m \in Seq(Byte) /\ l \in Nat /\ e.left \in 1..(l - 1) /\ b = m[l - e.left + 1]
      /\ hold = SubSeq(m, 1, n) /\ g.left = e.left - 1
  BY PutsByte, PointForm DEF At, Within
<1> HIDE DEF l, m
<1>2. n \in 0..(l - 1) /\ l - g.left = n + 1 /\ (e.left = 1 => n + 1 = l)
  BY <1>1
<1>3. /\ Append(SubSeq(m, 1, n), m[n + 1]) = SubSeq(m, 1, n + 1)
      /\ SubSeq(m, 1, l) = m
  BY <1>1, <1>2, Held DEF l
<1>4. Append(hold, b) = SubSeq(m, 1, n + 1)
  BY <1>1, <1>3
<1>5. e.left > 1 => g.left \in 1..(l - 1)
  BY <1>1
<1>6. QED
  BY <1>2, <1>3, <1>4, <1>5 DEF l, m

\* The other data bytes of a channel message.
LEMMA ReadsChannelData ==
    ASSUME NEW e \in Point, NEW g \in Point, NEW b, At(e), ReadByte(b), PutByteOf(e, b, g),
           Within(e), InChannel(e)
    PROVE  To(g)
<1> DEFINE m == e.open
           l == Len(m)
<1>1. m \in Message /\ l \in {2, 3} /\ \A i \in 2..l : m[i] \in Byte /\ ~IsRealTime(m[i])
  <2>1. m \in Message /\ IsChannel(m[1])
    BY PutsByte DEF At, InChannel
  <2> HIDE DEF m
  <2>2. Len(m) \in {2, 3} /\ \A i \in 2..Len(m) : m[i] \in Byte /\ ~IsRealTime(m[i])
    BY <2>1, ChannelForm
  <2>3. QED
    BY <2>1, <2>2
<1>2. e.left \in 1..(l - 1) /\ l - e.left + 1 \in 2..l /\ e.left \in {1, 2}
  <2>1. e.left \in 1..(l - 1)
    BY DEF Within
  <2> HIDE DEF l
  <2>2. QED
    BY <1>1, <2>1
<1>3. ~IsRealTime(b)
  BY <1>1, <1>2, PutsByte DEF At
<1>4. /\ g.delta = <<>> /\ g.left = e.left - 1 /\ g.running = e.running /\ g.partial = e.partial
      /\ e.left > 1 => g.open = e.open /\ g.sent = e.sent
      /\ mode' = mode
  BY PutsByte, ReadLeaves DEF At, encoderVars
<1>5. CASE e.left = 2
  <2>1. Entry = "WAIT_BYTE_2"
    BY <1>5 DEF InChannel, Entry
  <2>2. DataByte2(b)
    BY <1>3, <2>1 DEF ReadByte, Read, ReadDelta, RealTime, IgnoreData, RunningData, SysExStart, StatusByte,
              DataByte2, DataByte1, SysExByte, NotDelta, Status
  <2>3. /\ status' = "WAIT_BYTE_1" /\ hold' = Append(hold, b) /\ emitted' = emitted
        /\ UNCHANGED <<running_status, partial_sysex>>
    BY <2>2 DEF DataByte2, Wait
  <2>4. g.open = m /\ g.sent = e.sent /\ g.left = 1
    BY <1>4, <1>5
  <2>5. InChannel(g)'
    BY <1>4, <2>3, <2>4 DEF InChannel, PartialAgrees
  <2>6. Within(g)'
    <3>1. e.left > 1
      BY <1>5
    <3>2. g.left \in 1..(Len(e.open) - 1) /\ Append(hold, b) = SubSeq(e.open, 1, Len(e.open) - g.left)
      BY <3>1, HeldOn
    <3>3. QED
      BY <1>4, <2>3, <2>4, <2>5, <3>2 DEF Within
  <2>7. QED
    BY <2>3, <2>4, <2>6 DEF To, At, Match
<1>6. CASE e.left = 1
  <2>1. Entry = "WAIT_BYTE_1"
    BY <1>6 DEF InChannel, Entry
  <2>2. DataByte1(b)
    BY <1>3, <2>1 DEF ReadByte, Read, ReadDelta, RealTime, IgnoreData, RunningData, SysExStart, StatusByte,
              DataByte2, DataByte1, SysExByte, NotDelta, Status
  <2>3. Received(Append(hold, b)) /\ UNCHANGED <<running_status, partial_sysex>>
    BY <2>2 DEF DataByte1
  <2>4. Append(hold, b) = e.open
    BY <1>6, HeldOn
  <2>5. (RunningAgrees(g) /\ PartialAgrees(g))'
    BY <1>4, <2>3 DEF InChannel, RunningAgrees, PartialAgrees
  <2>6. QED
    BY <1>6, <2>3, <2>4, <2>5, Completed
<1>7. QED
  BY <1>2, <1>5, <1>6

\* The bytes of a segment of a system exclusive, and what ends it.
LEMMA ReadsSysExData ==
    ASSUME NEW e \in Point, NEW g \in Point, NEW b, At(e), ReadByte(b), PutByteOf(e, b, g),
           Within(e), InSysEx(e)
    PROVE  To(g)
<1> DEFINE m == e.open
           l == Len(m)
<1>1. /\ m \in Message /\ l \in Nat /\ l > 1 /\ m[1] \in {240, 247}
      /\ \A i \in 2..(l - 1) : m[i] \in Byte /\ ~IsRealTime(m[i]) /\ m[i] \notin 240..247
      /\ m[l] \in {240, 247} \/ (m[1] = 247 /\ m[l] = 244)
      /\ ~IsRealTime(m[l])
  BY PutsByte, SysExForm DEF At, InSysEx
<1>2. e.left \in 1..(l - 1) /\ (e.left > 1 => l - e.left + 1 \in 2..(l - 1)) /\ (e.left = 1 => l - e.left + 1 = l)
  <2>1. e.left \in 1..(l - 1)
    BY DEF Within
  <2> HIDE DEF l
  <2>2. QED
    BY <1>1, <2>1
<1>3. /\ e.left > 1 => b \notin 240..247
      /\ e.left = 1 => b = m[l]
      /\ ~IsRealTime(b)
  <2>1. b = m[l - e.left + 1]
    BY PutsByte DEF At
  <2>2. \A i \in 2..(l - 1) : ~IsRealTime(m[i]) /\ m[i] \notin 240..247
    BY <1>1
  <2>3. CASE e.left > 1
    <3>1. l - e.left + 1 \in 2..(l - 1) /\ ~(e.left = 1)
      BY <1>2, <2>3
    <3>2. ~IsRealTime(b) /\ b \notin 240..247
      BY <2>1, <2>2, <3>1, Zenon
    <3>3. QED
      BY <3>1, <3>2
  <2>4. CASE e.left = 1
    <3>1. b = m[l] /\ ~(e.left > 1)
      BY <1>2, <2>1, <2>4
    <3>2. QED
      BY <1>1, <3>1
  <2>5. e.left > 1 \/ e.left = 1
    <3>1. e.left \in 1..(l - 1)
      BY <1>2
    <3> HIDE DEF l
    <3>2. QED
      BY <1>1, <3>1
  <2>6. QED
    BY <2>3, <2>4, <2>5
<1>4. /\ g.delta = <<>> /\ g.left = e.left - 1 /\ g.running = e.running /\ g.partial = e.partial
      /\ e.left > 1 => g.open = e.open /\ g.sent = e.sent
      /\ mode' = mode
  BY PutsByte, ReadLeaves DEF At, encoderVars
<1>5. Entry = "WAIT_END_SYSEX"
  BY DEF InSysEx, Entry
<1>6. SysExByte(b)
  BY <1>3, <1>5 DEF ReadByte, Read, ReadDelta, RealTime, IgnoreData, RunningData, SysExStart, StatusByte,
              DataByte2, DataByte1, SysExByte, NotDelta, Status
<1>7. /\ running_status' = 0 /\ partial_sysex \in BOOLEAN
      /\ m[1] = 247 => partial_sysex
      /\ e.running = 0 /\ (e.partial <=> m[l] = 240) /\ e.partial \in BOOLEAN
  BY <1>6, PointForm DEF SysExByte, InSysEx, Last, At, TypeOK
<1>8. CASE e.left > 1
  <2>1. b # 240 /\ b # 247 /\ b # 244
    BY <1>3, <1>8
  <2>2. /\ Wait("WAIT_END_SYSEX", Append(hold, b))
        /\ partial_sysex' = partial_sysex
    BY <1>6, <1>7, <2>1 DEF SysExByte
  <2>3. /\ status' = "WAIT_END_SYSEX" /\ hold' = Append(hold, b) /\ emitted' = emitted
    BY <2>2 DEF Wait
  <2>4. g.open = m /\ g.sent = e.sent
    BY <1>4, <1>8
  <2>5. InSysEx(g)'
    BY <1>4, <1>7, <2>2, <2>3, <2>4 DEF InSysEx
  <2>6. Within(g)'
    BY <1>4, <1>8, <2>3, <2>4, <2>5, HeldOn DEF Within
  <2>7. QED
    BY <2>3, <2>4, <2>6 DEF To, At, Match
<1>9. CASE e.left = 1
  <2>1. b = m[l] /\ (b \in {240, 247} \/ (m[1] = 247 /\ b = 244))
    BY <1>1, <1>3, <1>9
  <2>2. Received(Append(hold, b)) /\ (partial_sysex' <=> b = 240)
    BY <1>6, <1>7, <2>1 DEF SysExByte
  <2>3. partial_sysex' \in BOOLEAN
    BY <1>6, <1>7 DEF SysExByte
  <2>4. Append(hold, b) = e.open
    BY <1>9, HeldOn
  <2>5. (RunningAgrees(g) /\ PartialAgrees(g))'
    BY <1>4, <1>7, <2>1, <2>2, <2>3 DEF RunningAgrees, PartialAgrees
  <2>6. QED
    BY <1>9, <2>2, <2>4, <2>5, Completed
<1>10. QED
  BY <1>2, <1>8, <1>9


\* Whatever byte comes next, the parser goes with it.
LEMMA Reads ==
    ASSUME NEW e \in Point, NEW g \in Point, NEW b, At(e), ReadByte(b), Put(e, b, g),
           ListsWithoutRealTime
    PROVE  To(g)
<1>1. CASE PutDelta(e, b, g)
  BY <1>1, ReadsDelta
<1>2. CASE PutAlone(e, b, g)
  BY <1>2, ReadsAlone
<1>3. CASE PutData(e, b, g)
  BY <1>3, ReadsData
<1>4. CASE PutByteOf(e, b, g)
  <2>1. e.left # 0 /\ e.delta = <<>> /\ e.open \in Message
    BY <1>4, PutsByte DEF At
  <2>2. CASE Between(e)
    <3>1. Whole(e) \/ Running(e)
      BY <2>1, <2>2, AwaitsCommand DEF Ahead
    <3>2. \/ IsChannel(e.open[1]) \/ IsSysEx(e.open)
          \/ e.open[1] \in 244..246 \/ IsRealTime(e.open[1])
      BY <2>1, MessageForm
    <3>3. CASE Whole(e)
      BY <1>4, <2>2, <3>2, <3>3, ReadsChannelStatus, ReadsSysExStatus, ReadsSingle
    <3>4. CASE Running(e) /\ ~Whole(e)
      BY <1>4, <2>2, <3>4, ReadsRunning
    <3>5. QED
      BY <3>1, <3>3, <3>4
  <2>3. CASE Within(e)
    <3>1. InChannel(e) \/ InSysEx(e)
      BY <2>3 DEF Within
    <3>2. QED
      BY <1>4, <2>3, <3>1, ReadsChannelData, ReadsSysExData
  <2>4. QED
    BY <2>2, <2>3 DEF At, Match
<1>5. QED
  BY <1>1, <1>2, <1>3, <1>4 DEF Put, PutByteOf

\* What begins at g leaves the encoder as its status byte says.
LEMMA BegunForm ==
    ASSUME NEW g \in Point, NEW f \in Point, Placed(g), Placed(f), Begun(g, f)
    PROVE  /\ f.open \in Message /\ f.left # 0 /\ f.sent = g.sent
           /\ IsChannel(f.open[1]) => f.running = f.open[1] /\ f.open[1] # 0 /\ f.open[1] \notin 240..247
           /\ f.open[1] \in 240..247 => f.running = 0
           /\ IsRealTime(f.open[1]) => f.running = g.running
           /\ IsSysEx(f.open) => /\ f.partial <=> Last(f.open) = 240
                                 /\ f.open[1] = 247 => g.partial = TRUE
           /\ ~IsSysEx(f.open) => f.partial = g.partial
<1>1. f.open \in Message /\ f.sent = g.sent
  BY DEF Begun
<1>2. f.left # 0
  BY <1>1, PointForm, MessageForm
<1>3. ASSUME IsChannel(f.open[1])
      PROVE  f.running = f.open[1] /\ f.open[1] # 0 /\ f.open[1] \notin 240..247
  BY <1>1, <1>3, ChannelForm DEF Begun
<1>4. f.open[1] \in Byte
  BY <1>1, MessageForm
<1>5. ASSUME f.open[1] \in 240..247 PROVE f.running = 0
  BY <1>4, <1>5, Kinds DEF Begun
<1>6. ASSUME IsRealTime(f.open[1]) PROVE f.running = g.running
  <2>1. ~IsChannel(f.open[1])
    BY <1>4, <1>6, Kinds
  <2>2. QED
    BY <1>6, <2>1 DEF Begun
<1>7. ASSUME IsSysEx(f.open)
      PROVE  (f.partial <=> Last(f.open) = 240) /\ (f.open[1] = 247 => g.partial = TRUE)
  <2>1. Len(f.open) > 1
    BY <1>1, <1>7, SysExForm
  <2>2. f.open[1] = 247 => Continues(f.open)
    BY <2>1 DEF Continues
  <2>3. g.partial \in BOOLEAN
    BY DEF Point
  <2>4. QED
    BY <1>7, <2>2, <2>3 DEF Begun
<1>8. ~IsSysEx(f.open) => f.partial = g.partial
  BY DEF Begun
<1>9. QED
  BY <1>1, <1>2, <1>3, <1>5, <1>6, <1>7, <1>8

\* A parser that has finished a message is ready for the next.
LEMMA BeginMatch ==
    ASSUME NEW g \in Point, NEW f \in Point, mode' = mode, Placed(g), Placed(f), Match(g)',
           Begun(g, f), f.delta # <<>> <=> Due'
    PROVE  Match(f)'
<1>1. g.left = 0
  BY DEF Begun
<1>2. Between(g)' /\ Idle(g)'
  BY <1>1 DEF Match, Within, Between
<1>21. /\ f.open \in Message /\ f.left # 0 /\ f.sent = g.sent
       /\ IsChannel(f.open[1]) => f.running = f.open[1] /\ f.open[1] # 0 /\ f.open[1] \notin 240..247
       /\ f.open[1] \in 240..247 => f.running = 0
       /\ IsRealTime(f.open[1]) => f.running = g.running
       /\ IsSysEx(f.open) => /\ f.partial <=> Last(f.open) = 240
                             /\ f.open[1] = 247 => g.partial = TRUE
       /\ ~IsSysEx(f.open) => f.partial = g.partial
  BY BegunForm, ZenonT(60)
<1>22. /\ g.running # 0 => running_status' = g.running
       /\ g.partial = TRUE => partial_sysex' = TRUE
       /\ f.partial = g.partial => PartialAgrees(f)'
       /\ f.running = g.running => RunningAgrees(f)'
  BY <1>2 DEF Idle, RunningAgrees, PartialAgrees
<1>3. \/ Whole(f) /\ (IsRealTime(f.open[1]) => RunningAgrees(f)')
      \/ Running(f) /\ running_status' = f.open[1]
  <2>1. Whole(f) \/ (Running(f) /\ f.open[1] = g.running)
    BY DEF Begun
  <2>2. IsRealTime(f.open[1]) => RunningAgrees(f)'
    BY <1>21, <1>22
  <2>3. Running(f) /\ f.open[1] = g.running => running_status' = f.open[1]
    BY <1>21, <1>22 DEF Running
  <2>4. QED
    BY <2>1, <2>2, <2>3
<1>4. IF IsSysEx(f.open)
      THEN (f.open[1] = 247 => partial_sysex') /\ (f.partial <=> Last(f.open) = 240)
      ELSE PartialAgrees(f)'
  <2>1. CASE IsSysEx(f.open)
    BY <1>21, <1>22, <2>1
  <2>2. CASE ~IsSysEx(f.open)
    BY <1>21, <1>22, <2>2
  <2>3. QED
    BY <2>1, <2>2
<1>5. Ahead(f)'
  BY <1>3, <1>4, <1>21 DEF Ahead, Whole, Running
<1>6. QED
  BY <1>2, <1>5, <1>21 DEF Match, Between

-----------------------------------------------------------------------------
\* The fields of a parser and an encoder have their types at the start.
LEMMA InitType == Init => TypeOK /\ Turns
<1>1. SUFFICES ASSUME Init PROVE TypeOK /\ Turns
  OBVIOUS
<1>2. Capacity[mode] \in Nat
  BY <1>1, BoundsAssumption DEF Init
<1>3. Len(<<>>) = 0 /\ <<>> \in Seq(0..255) /\ <<>> \in Seq(Seq(0..255))
  BY EmptySeq
<1>4. TypeOK
  <2>1. /\ ring = <<>> /\ hold = <<>> /\ emitted = <<>> /\ packet = <<>> /\ rest = <<>> /\ open = <<>>
        /\ sent = <<>> /\ mode \in Modes /\ status = "INIT" /\ running_status = 0 /\ encRunning = 0
        /\ partial_sysex = FALSE /\ sending = FALSE /\ get_delta = FALSE /\ z = FALSE /\ encPartial = FALSE
    BY <1>1 DEF Init
  <2>2. Len(ring) <= Capacity[mode]
    BY <1>2, <1>3, <2>1
  <2>3. /\ hold \in Seq(0..255) /\ ring \in Seq(0..255) /\ packet \in Seq(0..255) /\ rest \in Seq(0..255)
        /\ open \in Seq(0..255) /\ emitted \in Seq(Seq(0..255)) /\ sent \in Seq(Seq(0..255))
    BY <1>3, <2>1
  <2>4. /\ status \in Status /\ running_status \in 0..255 /\ encRunning \in 0..255
        /\ partial_sysex \in BOOLEAN /\ sending \in BOOLEAN /\ get_delta \in BOOLEAN
        /\ z \in BOOLEAN /\ encPartial \in BOOLEAN /\ mode \in Modes
    <3>1. 0 \in 0..255 /\ "INIT" \in Status /\ FALSE \in BOOLEAN
      BY DEF Status
    <3>2. QED
      BY <2>1, <3>1, Zenon
  <2>5. QED
    BY <2>2, <2>3, <2>4 DEF TypeOK
<1>5. Turns
  BY <1>1, <1>2, <1>3 DEF Init, Turns
<1>6. QED
  BY <1>4, <1>5

\* A byte taken off the ring.
LEMMA RingStep ==
    ASSUME TypeOK, NEW b, ReadByte(b)
    PROVE  /\ b \in 0..255 /\ ring' \in Seq(0..255) /\ Len(ring') <= Capacity[mode]
           /\ Entry \in Status
<1>1. ring \in Seq(0..255) /\ ring # <<>> /\ b = Head(ring) /\ ring' = Tail(ring)
  BY ReadLeaves DEF TypeOK
<1>2. Len(ring) \in Nat /\ Len(ring) >= 1 /\ b \in 0..255 /\ Tail(ring) \in Seq(0..255)
      /\ Len(Tail(ring)) = Len(ring) - 1
  <2>1. Head(ring) \in 0..255 /\ Tail(ring) \in Seq(0..255) /\ Len(Tail(ring)) = Len(ring) - 1
    BY <1>1, HeadTailProperties
  <2>2. Len(ring) \in Nat /\ Len(ring) >= 1
    BY <1>1, LenProperties, EmptySeq
  <2>3. QED
    BY <1>1, <2>1, <2>2
<1>3. Capacity[mode] \in Nat
  BY BoundsAssumption DEF TypeOK
<1>4. QED
  BY <1>1, <1>2, <1>3 DEF TypeOK, Entry, Status

\* Handing on or waiting for more keeps the types.
LEMMA OutcomeType ==
    ASSUME TypeOK, NEW held \in Seq(0..255), NEW next \in Status,
           Wait(next, held) \/ Received(held)
    PROVE  /\ status' \in Status /\ hold' \in Seq(0..255) /\ get_delta' \in BOOLEAN
           /\ emitted' \in Seq(Seq(0..255))
<1>1. Append(emitted, held) \in Seq(Seq(0..255)) /\ <<>> \in Seq(0..255)
  BY AppendProperties, EmptySeq DEF TypeOK
<1>2. CASE Wait(next, held)
  BY <1>2 DEF Wait, TypeOK
<1>3. CASE Received(held)
  BY <1>1, <1>3 DEF Received, TypeOK, Status
<1>4. QED
  BY <1>2, <1>3

\* One way round the loop keeps the types.
LEMMA ReadType ==
    ASSUME TypeOK, NEW b, ReadByte(b)
    PROVE  TypeOK'
<1>1. /\ b \in 0..255 /\ ring' \in Seq(0..255) /\ Len(ring') <= Capacity[mode]
      /\ Entry \in Status
  BY RingStep
<1>2. UNCHANGED <<sending, mode, packet, z, rest, open, encRunning, encPartial, sent>>
  BY ReadLeaves DEF encoderVars
<1>3. /\ hold \in Seq(0..255) /\ running_status \in 0..255 /\ partial_sysex \in BOOLEAN
      /\ Append(hold, b) \in Seq(0..255) /\ <<b>> \in Seq(0..255)
      /\ hold \o <<running_status, b>> \in Seq(0..255)
      /\ 0 \in 0..255 /\ FALSE \in BOOLEAN
  <2>1. hold \in Seq(0..255) /\ running_status \in 0..255 /\ partial_sysex \in BOOLEAN
    BY DEF TypeOK
  <2>2. <<b>> \in Seq(0..255) /\ <<running_status, b>> \in Seq(0..255)
    BY <1>1, <2>1
  <2>3. Append(hold, b) \in Seq(0..255)
    BY <1>1, <2>1, AppendProperties
  <2>4. hold \o <<running_status, b>> \in Seq(0..255)
    BY <2>1, <2>2, ConcatProperties
  <2>5. QED
    BY <2>1, <2>2, <2>3, <2>4
<1> DEFINE Kept == /\ status' \in Status /\ hold' \in Seq(0..255) /\ get_delta' \in BOOLEAN
                   /\ emitted' \in Seq(Seq(0..255))
                   /\ running_status' \in 0..255 /\ partial_sysex' \in BOOLEAN
<1>4. {"WAIT_DELTA", "WAIT_COMMAND", "WAIT_BYTE_1", "WAIT_BYTE_2", "WAIT_END_SYSEX"} \subseteq Status
  BY DEF Status
<1>5. ASSUME ReadDelta(b) PROVE Kept
  <2>1. (IF IsData(b) THEN "WAIT_COMMAND" ELSE "WAIT_DELTA") \in Status
    BY <1>4
  <2>2. QED
    BY <1>3, <1>5, <2>1, OutcomeType DEF ReadDelta
<1>6. ASSUME RealTime(b) PROVE Kept
  <2>1. Append(emitted, <<b>>) \in Seq(Seq(0..255))
    BY <1>3, AppendProperties DEF TypeOK
  <2>2. QED
    BY <1>1, <1>3, <1>6, <2>1 DEF RealTime, TypeOK
<1>7. ASSUME IgnoreData(b) PROVE Kept
  BY <1>3, <1>4, <1>7, OutcomeType DEF IgnoreData
<1>8. ASSUME RunningData(b) PROVE Kept
  <2> DEFINE held == hold \o <<running_status, b>>
  <2>1. Wait("WAIT_BYTE_1", held) \/ Wait("WAIT_COMMAND", held) \/ Received(held)
    BY <1>8 DEF RunningData
  <2>2. held \in Seq(0..255)
    BY <1>3
  <2> HIDE DEF held
  <2>3. /\ status' \in Status /\ hold' \in Seq(0..255) /\ get_delta' \in BOOLEAN
        /\ emitted' \in Seq(Seq(0..255))
    BY <1>4, <2>1, <2>2, OutcomeType
  <2>4. QED
    BY <1>3, <1>8, <2>3 DEF RunningData
<1>9. ASSUME SysExStart(b) PROVE Kept
  BY <1>3, <1>4, <1>9, OutcomeType, ZenonT(60) DEF SysExStart
<1>10. ASSUME StatusByte(b) PROVE Kept
  <2>1. Wait("WAIT_BYTE_1", Append(hold, b)) \/ Wait("WAIT_BYTE_2", Append(hold, b)) \/ Received(Append(hold, b))
    BY <1>10 DEF StatusByte, AfterStatus
  <2>2. /\ status' \in Status /\ hold' \in Seq(0..255) /\ get_delta' \in BOOLEAN
        /\ emitted' \in Seq(Seq(0..255))
    BY <1>3, <1>4, <2>1, OutcomeType
  <2>3. QED
    BY <1>1, <1>3, <1>10, <2>2 DEF StatusByte
<1>11. ASSUME DataByte2(b) PROVE Kept
  BY <1>3, <1>4, <1>11, OutcomeType, ZenonT(60) DEF DataByte2
<1>12. ASSUME DataByte1(b) PROVE Kept
  BY <1>3, <1>4, <1>12, OutcomeType, ZenonT(60) DEF DataByte1
<1>13. ASSUME SysExByte(b) PROVE Kept
  <2>1. Wait("WAIT_END_SYSEX", Append(hold, b)) \/ Received(Append(hold, b))
    BY <1>13 DEF SysExByte
  <2>2. /\ status' \in Status /\ hold' \in Seq(0..255) /\ get_delta' \in BOOLEAN
        /\ emitted' \in Seq(Seq(0..255))
    BY <1>3, <1>4, <2>1, OutcomeType
  <2>3. running_status' = 0 /\ partial_sysex' \in BOOLEAN
    BY <1>13 DEF SysExByte
  <2>4. QED
    BY <1>3, <2>2, <2>3
<1>14. Kept
  BY <1>5, <1>6, <1>7, <1>8, <1>9, <1>10, <1>11, <1>12, <1>13 DEF ReadByte
<1>15. QED
  BY <1>1, <1>2, <1>14 DEF TypeOK

\* What a message adds to what is to be put.
LEMMA BeginType ==
    ASSUME NEW m \in Message, NEW d \in Delta \cup {<<>>}, NEW short \in BOOLEAN
    PROVE  /\ d \in Seq(Byte) /\ DeltaLeft(d)
           /\ Tail(m) \in Seq(Byte) /\ d \o (IF short THEN Tail(m) ELSE m) \in Seq(Byte)
           /\ Last(m) \in Byte /\ m[1] \in Byte /\ m \in Seq(Byte)
<1>1. d \in Seq(Byte) /\ DeltaLeft(d)
  BY DeltaAssumption, EmptySeq, ZenonT(60) DEF DeltaLeft, Byte
<1>2. /\ m \in Seq(Byte) /\ m # <<>> /\ m[1] \in Byte /\ m[Len(m)] \in Byte
  BY MessageForm
<1>3. Tail(m) \in Seq(Byte)
  BY <1>2, HeadTailProperties
<1>4. d \o (IF short THEN Tail(m) ELSE m) \in Seq(Byte)
  BY <1>1, <1>2, <1>3, ConcatProperties
<1>5. QED
  BY <1>1, <1>2, <1>3, <1>4 DEF Last

\* The encoder keeps the types.
LEMMA NextType == TypeOK /\ [Next]_vars => TypeOK'
<1> SUFFICES ASSUME TypeOK, [Next]_vars PROVE TypeOK'
  OBVIOUS
<1>1. ASSUME NEW m \in Message, NEW d \in Delta \cup {<<>>}, NEW short \in BOOLEAN, Begin(m, d, short)
      PROVE  TypeOK'
  <2>1. rest' \in Seq(0..255) /\ open' \in Seq(0..255)
    BY <1>1, BeginType DEF Begin, Byte
  <2>2. encRunning' = RunningAfter(m) /\ encPartial' = PartialAfter(m)
    BY <1>1 DEF Begin
  <2>3. RunningAfter(m) \in 0..255
    <3>1. m[1] \in 0..255 /\ encRunning \in 0..255
      BY BeginType DEF Byte, TypeOK
    <3>2. QED
      BY <3>1 DEF RunningAfter
  <2>4. PartialAfter(m) \in BOOLEAN
    BY DEF PartialAfter, TypeOK
  <2>5. QED
    BY <1>1, <2>1, <2>2, <2>3, <2>4 DEF Begin, TypeOK, parserVars
<1>2. CASE ChooseZ
  BY <1>2 DEF ChooseZ, TypeOK, parserVars
<1>3. CASE PutByte
  <2>1. rest \in Seq(0..255) /\ rest # <<>> /\ packet \in Seq(0..255) /\ sent \in Seq(Seq(0..255))
        /\ open \in Seq(0..255)
    BY <1>3 DEF PutByte, TypeOK
  <2>2. Head(rest) \in 0..255 /\ Tail(rest) \in Seq(0..255)
    BY <2>1, HeadTailProperties
  <2>3. Append(packet, Head(rest)) \in Seq(0..255) /\ Append(sent, open) \in Seq(Seq(0..255))
        /\ <<>> \in Seq(0..255)
    BY <2>1, <2>2, AppendProperties, EmptySeq
  <2>4. packet' \in Seq(0..255) /\ rest' \in Seq(0..255) /\ sent' \in Seq(Seq(0..255)) /\ open' \in Seq(0..255)
    BY <1>3, <2>1, <2>2, <2>3, ZenonT(60) DEF PutByte
  <2>5. QED
    BY <1>3, <2>4 DEF PutByte, TypeOK, parserVars
<1>4. ASSUME NEW b \in RealTimeByte, PutRealTime(b) PROVE TypeOK'
  <2>1. b \in 0..255
    BY RealTimeAssumption
  <2>2. packet \in Seq(0..255) /\ sent \in Seq(Seq(0..255)) /\ <<b>> \in Seq(0..255)
    BY <2>1 DEF TypeOK
  <2>3. packet' \in Seq(0..255) /\ sent' \in Seq(Seq(0..255))
    BY <1>4, <2>1, <2>2, AppendProperties DEF PutRealTime
  <2>4. QED
    BY <1>4, <2>3 DEF PutRealTime, TypeOK, parserVars
<1>5. CASE PutStray
  <2>1. packet \in Seq(0..255) /\ 1 \in 0..255
    BY DEF TypeOK
  <2>2. packet' \in Seq(0..255)
    BY <1>5, <2>1, AppendProperties DEF PutStray
  <2>3. QED
    BY <1>5, <2>2 DEF PutStray, TypeOK, parserVars
<1>6. CASE Deliver
  <2>1. /\ packet \in Seq(0..255) /\ ring \in Seq(0..255) /\ Len(ring) <= Capacity[mode]
        /\ Len(ring) \in Nat /\ Len(packet) \in Nat
    BY LenProperties DEF TypeOK
  <2>2. ring \o packet \in Seq(0..255) /\ Len(ring \o packet) = Len(ring) + Len(packet)
    BY <2>1, ConcatProperties
  <2>3. ring' \in Seq(0..255) /\ Len(ring') <= Capacity[mode]
    BY <1>6, <2>1, <2>2 DEF Deliver
  <2>4. <<>> \in Seq(0..255)
    BY EmptySeq
  <2>5. QED
    BY <1>6, <2>3, <2>4 DEF Deliver, TypeOK, parserVars
<1>7. CASE Reset
  <2>1. Capacity[mode] \in Nat
    BY BoundsAssumption DEF TypeOK
  <2>2. Len(<<>>) = 0 /\ <<>> \in Seq(0..255) /\ <<>> \in Seq(Seq(0..255))
    BY EmptySeq
  <2>3. /\ ring' = <<>> /\ hold' = <<>> /\ emitted' = <<>> /\ packet' = <<>> /\ rest' = <<>>
        /\ open' = <<>> /\ sent' = <<>> /\ status' = "INIT" /\ running_status' = 0 /\ encRunning' = 0
        /\ z' = FALSE /\ encPartial' = FALSE
        /\ UNCHANGED <<mode, partial_sysex, sending, get_delta>>
    BY <1>7 DEF Reset
  <2>4. Len(ring') <= Capacity[mode]
    BY <2>1, <2>2, <2>3
  <2>5. /\ hold' \in Seq(0..255) /\ ring' \in Seq(0..255) /\ packet' \in Seq(0..255)
        /\ rest' \in Seq(0..255) /\ open' \in Seq(0..255) /\ emitted' \in Seq(Seq(0..255))
        /\ sent' \in Seq(Seq(0..255))
    BY <2>2, <2>3
  <2>6. /\ status' \in Status /\ running_status' \in 0..255 /\ encRunning' \in 0..255
        /\ z' \in BOOLEAN /\ encPartial' \in BOOLEAN
    <3>1. 0 \in 0..255 /\ "INIT" \in Status /\ FALSE \in BOOLEAN
      BY DEF Status
    <3>2. QED
      BY <2>3, <3>1, Zenon
  <2>7. /\ partial_sysex' \in BOOLEAN /\ sending' \in BOOLEAN /\ get_delta' \in BOOLEAN
        /\ mode' \in Modes
    BY <2>3 DEF TypeOK
  <2>8. QED
    <3>1. mode' = mode
      BY <2>3
    <3>2. Len(ring') <= Capacity[mode']
      BY <2>4, <3>1
    <3>3. QED
      BY <2>5, <2>6, <2>7, <3>2, Zenon DEF TypeOK
<1>8. ASSUME NEW b \in Range(ring), ReadByte(b) PROVE TypeOK'
  BY <1>8, ReadType
<1>9. CASE Return
  BY <1>9 DEF Return, TypeOK, encoderVars, Status
<1>10. CASE UNCHANGED vars
  BY <1>10 DEF vars, TypeOK
<1>11. QED
  BY <1>1, <1>2, <1>3, <1>4, <1>5, <1>6, <1>7, <1>8, <1>9, <1>10 DEF Next

-----------------------------------------------------------------------------
\* Encoder and parser still take turns after a byte has been read.
LEMMA ReadTurns ==
    ASSUME TypeOK, Turns, NEW b, ReadByte(b)
    PROVE  Turns'
<1>1. /\ sending /\ sending' /\ UNCHANGED <<mode, packet, z, rest>>
  BY ReadLeaves DEF encoderVars
<1>2. ASSUME mode = "SIMPLE" PROVE ~get_delta' /\ status' # "WAIT_DELTA"
  <2>1. ~get_delta /\ Entry # "WAIT_DELTA" /\ mode # "RTP"
    BY <1>2, SimpleEntry DEF Turns, NotDelta
  <2>2. ~ReadDelta(b)
    BY <2>1 DEF ReadDelta, Read
  <2>3. QED
    BY <2>1, <2>2 DEF ReadByte, RealTime, IgnoreData, RunningData, SysExStart, StatusByte, AfterStatus,
                      DataByte2, DataByte1, SysExByte, Wait, Received
<1>3. QED
  BY <1>1, <1>2 DEF Turns

\* The points of a walk.
LEMMA WalkForm ==
    ASSUME TypeOK, NEW path \in Seq(Point), Walk(path)
    PROVE  /\ Stream \in Seq(Byte) /\ Len(Stream) \in Nat /\ Len(path) = Len(Stream) + 1
           /\ Len(path) \in Nat /\ Len(path) >= 1
           /\ \A i \in 1..Len(path) : /\ path[i] \in Point /\ Placed(path[i])
                                      /\ IsPrefix(path[i].sent, sent)
           /\ path[1] \in Point /\ Placed(path[1]) /\ Match(path[1]) /\ emitted = path[1].sent
           /\ path[Len(path)] \in Point /\ Placed(path[Len(path)]) /\ Current(path[Len(path)])
<1>1. Stream \in Seq(Byte)
  BY DEF Stream, TypeOK, Byte
<1>2. Len(Stream) \in Nat
  BY <1>1, LenProperties
<1>3. Len(path) = Len(Stream) + 1 /\ Len(path) \in Nat /\ Len(path) >= 1
  BY <1>2 DEF Walk
<1>4. 1 \in 1..Len(path) /\ Len(path) \in 1..Len(path)
  BY <1>3
<1>5. \A i \in 1..Len(path) : path[i] \in Point
  BY ElementOfSeq
<1>6. \A i \in 1..Len(path) : Placed(path[i]) /\ IsPrefix(path[i].sent, sent)
  BY DEF Walk
<1>7. /\ Match(path[1]) /\ emitted = path[1].sent /\ Current(path[Len(path)])
  BY DEF Walk
<1>8. QED
  BY <1>1, <1>2, <1>3, <1>4, <1>5, <1>6, <1>7

\* The parser takes the first byte of the walk and is at the second point.
LEMMA FirstMoves ==
    ASSUME TypeOK, Turns, NEW path \in Seq(Point), Walk(path), NEW b, ReadByte(b),
           ListsWithoutRealTime
    PROVE  Len(path) >= 2 /\ Match(path[2])' /\ emitted' = path[2].sent
<1>1. /\ sending /\ ring # <<>> /\ b = Head(ring) /\ ring \in Seq(0..255) /\ sending' /\ mode' = mode
  BY ReadLeaves DEF TypeOK, encoderVars
<1>2. Len(ring) \in Nat /\ Len(ring) >= 1 /\ b = ring[1]
  BY <1>1, HeadTailProperties, LenProperties, EmptySeq
<1>3. Stream = ring /\ 1 \in 1..Len(Stream) /\ Len(path) >= 2 /\ 2 \in 1..Len(path) /\ 1 \in 1..Len(path)
  <2>1. Stream = ring
    BY <1>1 DEF Stream
  <2>2. QED
    BY <1>2, <2>1, WalkForm
<1>4. path[1] \in Point /\ Placed(path[1]) /\ path[2] \in Point /\ Placed(path[2]) /\ At(path[1])
  BY <1>1, <1>3, WalkForm DEF At
<1>5. Follows(path[1], b, path[2])
  BY <1>2, <1>3 DEF Walk
<1>6. PICK g \in Point : /\ Placed(g) /\ Put(path[1], b, g)
                         /\ path[2] = g \/ (Begun(g, path[2]) /\ (mode = "RTP" => path[2].delta # <<>>))
  BY <1>5 DEF Follows
<1>7. To(g)
  BY <1>4, <1>6, Reads
<1>8. CASE path[2] = g
  BY <1>3, <1>7, <1>8 DEF To
<1>9. CASE Begun(g, path[2]) /\ (mode = "RTP" => path[2].delta # <<>>)
  <2>1. path[2].sent = g.sent /\ g.left = 0
    BY <1>9 DEF Begun
  <2>2. path[2].delta # <<>> <=> Due'
    <3>1. CASE mode = "RTP"
      <4>1. status' = "INIT" /\ get_delta'
        BY <1>1, <1>7, <2>1, <3>1 DEF To, Match, Within, Between, Idle
      <4>2. QED
        BY <1>1, <1>9, <3>1, <4>1 DEF Due, Entry
    <3>2. CASE mode = "SIMPLE"
      <4>1. ~get_delta' /\ status' # "WAIT_DELTA"
        BY <1>1, <3>2, ReadTurns DEF Turns
      <4>2. path[2].delta = <<>>
        BY <1>4, <3>2 DEF Placed
      <4>3. QED
        BY <1>1, <4>1, <4>2 DEF Due, Entry
    <3>3. QED
      BY <3>1, <3>2, ModesAssumption DEF TypeOK
  <2>3. Match(path[2])'
    BY <1>1, <1>4, <1>6, <1>7, <1>9, <2>2, BeginMatch DEF To
  <2>4. QED
    BY <1>3, <1>7, <2>1, <2>3 DEF To
<1>10. QED
  BY <1>6, <1>8, <1>9

\* Reading takes a point off the walk.
LEMMA WalkReads ==
    ASSUME TypeOK, Turns, NEW path \in Seq(Point), Walk(path), NEW b, ReadByte(b),
           ListsWithoutRealTime
    PROVE  \E p \in Seq(Point) : Walk(p)'
<1> DEFINE p == Tail(path)
           n == Len(ring)
<1>1. /\ sending /\ sending' /\ ring # <<>> /\ ring' = Tail(ring) /\ ring \in Seq(0..255)
      /\ UNCHANGED <<mode, rest, open, encRunning, encPartial, sent>>
  BY ReadLeaves DEF TypeOK, encoderVars
<1>2. /\ n \in Nat /\ n >= 1 /\ Len(ring') = n - 1
      /\ \A i \in 1..(n - 1) : ring'[i] = ring[i + 1]
  <2>1. /\ Len(Tail(ring)) = Len(ring) - 1
        /\ \A i \in 1..Len(Tail(ring)) : Tail(ring)[i] = ring[i + 1]
    BY <1>1, HeadTailProperties
  <2>2. n \in Nat /\ n >= 1
    BY <1>1, LenProperties, EmptySeq
  <2>3. QED
    BY <1>1, <2>1, <2>2
<1>3. Stream = ring /\ Stream' = ring'
  BY <1>1 DEF Stream
<1>4. Len(path) = n + 1
  BY <1>3, WalkForm
<1>5. p \in Seq(Point) /\ Len(p) = n /\ \A i \in 1..n : p[i] = path[i + 1]
  <2>1. path # <<>>
    BY <1>2, <1>4, EmptySeq
  <2>2. /\ p \in Seq(Point) /\ Len(p) = Len(path) - 1
        /\ \A i \in 1..Len(p) : p[i] = path[i + 1]
    BY <2>1, HeadTailProperties
  <2>3. Len(p) = n
    BY <1>2, <1>4, <2>2
  <2>4. QED
    BY <2>2, <2>3
<1> HIDE DEF p, n
<1>6. Len(p) = Len(Stream') + 1
  BY <1>2, <1>3, <1>5
<1>7. \A i \in 1..n : Placed(path[i + 1]) /\ IsPrefix(path[i + 1].sent, sent)
  <2> TAKE i \in 1..n
  <2>1. i + 1 \in 1..Len(path)
    BY <1>2, <1>4
  <2>2. QED
    BY <2>1, WalkForm
<1>8. \A i \in 1..Len(p) : Placed(p[i])' /\ IsPrefix(p[i].sent, sent')
  BY <1>1, <1>5, <1>7 DEF Placed
<1>9. \A i \in 1..(n - 1) : Follows(path[i + 1], ring[i + 1], path[i + 1 + 1])
  <2> TAKE i \in 1..(n - 1)
  <2>1. i + 1 \in 1..Len(Stream)
    BY <1>2, <1>3 DEF n
  <2>2. QED
    BY <1>3, <2>1 DEF Walk
<1>10. \A i \in 1..Len(Stream') : Follows(p[i], Stream[i], p[i + 1])'
  <2> TAKE i \in 1..Len(Stream')
  <2>1. i \in 1..(n - 1) /\ i \in 1..n /\ i + 1 \in 1..n
    BY <1>2, <1>3
  <2>2. p[i] = path[i + 1] /\ p[i + 1] = path[i + 1 + 1] /\ Stream'[i] = ring[i + 1]
    BY <1>2, <1>3, <1>5, <2>1
  <2>3. Follows(p[i], Stream'[i], p[i + 1])
    BY <1>9, <2>1, <2>2
  <2>4. QED
    BY <1>1, <2>3 DEF Follows, Put, PutDelta, PutInner, PutLast, PutAlone, PutData, Placed
<1>11. emitted' = p[1].sent /\ Match(p[1])'
  <2>1. p[1] = path[2]
    BY <1>2, <1>5
  <2>2. QED
    BY <2>1, FirstMoves
<1>12. Current(p[Len(p)])'
  <2>1. p[Len(p)] = path[Len(path)]
    BY <1>2, <1>4, <1>5
  <2>2. Current(path[Len(path)])
    BY WalkForm
  <2>3. QED
    BY <1>1, <2>1, <2>2 DEF Current
<1>13. Walk(p)'
  BY <1>6, <1>8, <1>10, <1>11, <1>12 DEF Walk
<1>14. QED
  BY <1>5, <1>13

-----------------------------------------------------------------------------
\* A walk that goes on where the encoder puts a byte.
LEMMA WalkExtends ==
    ASSUME TypeOK, Turns, NEW path \in Seq(Point), Walk(path), NEW b, NEW f \in Point,
           ~sending, packet' = Append(packet, b), b \in Byte,
           UNCHANGED <<mode, status, running_status, hold, partial_sysex, sending, get_delta, emitted, z>>,
           Follows(path[Len(path)], b, f), Placed(f), Current(f)',
           sent' = sent \/ \E m \in Seq(Byte) : sent' = Append(sent, m)
    PROVE  \E p \in Seq(Point) : Walk(p)'
<1> DEFINE p == Append(path, f)
           n == Len(packet)
           q == Append(packet, b)
<1>1. /\ Stream = packet /\ Stream' = packet' /\ packet \in Seq(Byte) /\ n \in Nat
      /\ Len(path) = n + 1
  <2>1. Stream = packet /\ Stream' = packet'
    BY DEF Stream
  <2>2. QED
    BY <2>1, WalkForm
<1>2. /\ packet' = q /\ Len(q) = n + 1 /\ q[n + 1] = b
      /\ \A i \in 1..n : q[i] = packet[i]
  BY <1>1, AppendProperties
<1>3. /\ p \in Seq(Point) /\ Len(p) = n + 2 /\ p[n + 2] = f
      /\ \A i \in 1..(n + 1) : p[i] = path[i]
  <2>1. /\ p \in Seq(Point) /\ Len(p) = Len(path) + 1 /\ p[Len(path) + 1] = f
        /\ \A i \in 1..Len(path) : p[i] = path[i]
    BY AppendProperties
  <2>2. Len(path) + 1 = n + 2
    BY <1>1
  <2>3. QED
    BY <1>1, <2>1, <2>2
<1> HIDE DEF p, q, n
<1>4. Len(p) = Len(Stream') + 1
  BY <1>1, <1>2, <1>3
<1>5. ASSUME NEW s \in Seq(Seq(Byte)), IsPrefix(s, sent) PROVE IsPrefix(s, sent')
  <2>1. sent \in Seq(Seq(Byte))
    BY DEF TypeOK, Byte
  <2>2. QED
    BY <1>5, <2>1, PrefixStays
<1>6. f.sent = sent' /\ f.sent \in Seq(Seq(Byte)) /\ IsPrefix(f.sent, sent')
  <2>1. f.sent = sent' /\ f.sent \in Seq(Seq(Byte))
    BY PointForm DEF Current
  <2>2. QED
    BY <2>1, PrefixStays, EmptySeq
<1>7. \A i \in 1..Len(p) : Placed(p[i])' /\ IsPrefix(p[i].sent, sent')
  <2> TAKE i \in 1..Len(p)
  <2>1. CASE i = n + 2
    BY <1>3, <1>6, <2>1 DEF Placed
  <2>2. CASE i # n + 2
    <3>1. i \in 1..(n + 1)
      BY <1>1, <1>3, <2>2
    <3>2. p[i] = path[i] /\ path[i] \in Point /\ Placed(path[i]) /\ IsPrefix(path[i].sent, sent)
      BY <1>1, <1>3, <3>1, WalkForm
    <3>3. path[i].sent \in Seq(Seq(Byte))
      BY <3>2, PointForm
    <3>4. QED
      BY <1>5, <3>2, <3>3 DEF Placed
  <2>3. QED
    BY <2>1, <2>2
<1>8. \A i \in 1..Len(Stream') : Follows(p[i], Stream[i], p[i + 1])'
  <2> TAKE i \in 1..Len(Stream')
  <2>1. Follows(p[i], Stream'[i], p[i + 1])
    <3>1. CASE i = n + 1
      <4>1. p[i] = path[Len(path)] /\ Stream'[i] = b /\ p[i + 1] = f
        BY <1>1, <1>2, <1>3, <3>1
      <4>2. QED
        BY <4>1
    <3>2. CASE i # n + 1
      <4>1. i \in 1..n /\ i \in 1..(n + 1) /\ i + 1 \in 1..(n + 1)
        BY <1>1, <1>2, <3>2
      <4>2. p[i] = path[i] /\ p[i + 1] = path[i + 1] /\ Stream'[i] = Stream[i]
        BY <1>1, <1>2, <1>3, <4>1
      <4>3. Follows(path[i], Stream[i], path[i + 1])
        BY <1>1, <4>1 DEF Walk, n
      <4>4. QED
        BY <4>2, <4>3
    <3>3. QED
      BY <3>1, <3>2
  <2>2. QED
    BY <2>1 DEF Follows, Put, PutDelta, PutInner, PutLast, PutAlone, PutData, Placed
<1>9. emitted' = p[1].sent /\ Match(p[1])'
  <2>1. p[1] = path[1] /\ emitted = path[1].sent /\ Match(path[1])
    BY <1>1, <1>3, WalkForm
  <2>2. Match(path[1])'
    BY <2>1 DEF Match, Between, Within, Idle, Ahead, InChannel, InSysEx, RunningAgrees, PartialAgrees,
                Due, Entry
  <2>3. QED
    BY <2>1, <2>2
<1>10. p[Len(p)] = f
  BY <1>3
<1>11. Walk(p)'
  BY <1>4, <1>7, <1>8, <1>9, <1>10 DEF Walk
<1>12. QED
  BY <1>3, <1>11

\* The encoder puts the next byte of the message.
LEMMA WalkPutByte ==
    ASSUME TypeOK, Turns, NEW path \in Seq(Point), Walk(path), PutByte
    PROVE  \E p \in Seq(Point) : Walk(p)'
<1> DEFINE e == path[Len(path)]
<1>1. e \in Point /\ Placed(e) /\ Current(e)
  BY WalkForm
<1> HIDE DEF e
<1>2. /\ open = e.open /\ encRunning = e.running /\ encPartial = e.partial /\ sent = e.sent
      /\ rest = Rest(e)
  BY <1>1 DEF Current, Rest
<1>3. /\ e.open \in Seq(Byte) /\ Len(e.open) \in Nat /\ e.left \in Nat /\ e.left <= Len(e.open)
      /\ e.delta \in Seq(Byte) /\ e.running \in Byte /\ e.partial \in BOOLEAN
      /\ e.sent \in Seq(Seq(Byte)) /\ (e.left # 0 => e.open \in Message)
      /\ (e.left = 0 <=> e.open = <<>>) /\ (e.left = 0 => e.delta = <<>>)
      /\ Len(e.delta) \in Nat
  BY <1>1, PointForm, LenProperties
<1>4. /\ ~sending /\ rest # <<>> /\ packet' = Append(packet, Head(rest)) /\ rest' = Tail(rest)
      /\ UNCHANGED <<mode, status, running_status, hold, partial_sysex, sending, get_delta, emitted, z,
                     encRunning, encPartial>>
      /\ Len(rest) = 1 => sent' = Append(sent, open) /\ open' = <<>>
      /\ Len(rest) # 1 => sent' = sent /\ open' = open
  BY DEF PutByte, parserVars
<1>5. rest \in Seq(Byte) /\ Len(rest) = Len(e.delta) + e.left /\ Head(rest) \in Byte
  <2>1. rest \in Seq(Byte) /\ Len(rest) = Len(e.delta) + e.left
    BY <1>1, <1>2, RestStep
  <2>2. Head(rest) \in Byte
    BY <1>4, <2>1, HeadTailProperties
  <2>3. QED
    BY <2>1, <2>2
<1>6. sent' = sent \/ \E m \in Seq(Byte) : sent' = Append(sent, m)
  BY <1>2, <1>3, <1>4
<1>7. SUFFICES \E f \in Point : Put(e, Head(rest), f) /\ Placed(f) /\ Current(f)'
  <2> SUFFICES ASSUME NEW f \in Point, Put(e, Head(rest), f), Placed(f), Current(f)'
               PROVE  \E p \in Seq(Point) : Walk(p)'
    OBVIOUS
  <2>1. Follows(e, Head(rest), f)
    BY DEF Follows
  <2>2. QED
    BY <1>4, <1>5, <1>6, <2>1, WalkExtends DEF e
<1>8. CASE e.delta # <<>>
  <2> DEFINE f == [e EXCEPT !.delta = Tail(e.delta)]
             d == e.delta
             t == Tail(e.delta)
  <2>1. DeltaLeft(t) /\ t \in Seq(Byte)
    BY <1>1, <1>3, <1>8, DeltaStep DEF Placed
  <2>2. /\ f \in Point /\ f.delta = t /\ f.left = e.left /\ f.open = e.open
        /\ f.running = e.running /\ f.partial = e.partial /\ f.sent = e.sent
    BY <1>1, <2>1 DEF Point
  <2>3. e.left # 0 /\ mode # "SIMPLE"
    BY <1>1, <1>3, <1>8 DEF Placed
  <2>4. Len(rest) # 1
    <3>1. Len(e.delta) >= 1
      BY <1>3, <1>8, EmptySeq
    <3>2. QED
      BY <1>3, <1>5, <2>3, <3>1
  <2>5. Head(rest) = Head(d) /\ Tail(rest) = t \o SubSeq(e.open, Len(e.open) - e.left + 1, Len(e.open))
    BY <1>1, <1>2, <1>8, RestStep
  <2>6. Put(e, Head(rest), f)
    BY <1>8, <2>5 DEF Put, PutDelta
  <2> HIDE DEF f, t
  <2>7. Placed(f)
    BY <1>1, <2>1, <2>2, <2>3 DEF Placed
  <2>8. Current(f)'
    BY <1>2, <1>4, <2>2, <2>4, <2>5 DEF Current
  <2>9. QED
    BY <2>2, <2>6, <2>7, <2>8
<1>9. CASE e.delta = <<>>
  <2>1. e.left > 0 /\ Len(rest) = e.left
    <3>1. Len(rest) = e.left
      BY <1>3, <1>5, <1>9, EmptySeq
    <3>2. Len(rest) # 0
      BY <1>4, <1>5, EmptySeq
    <3>3. QED
      BY <1>3, <3>1, <3>2
  <2>2. /\ Head(rest) = e.open[Len(e.open) - e.left + 1]
        /\ Tail(rest) = SubSeq(e.open, Len(e.open) - (e.left - 1) + 1, Len(e.open))
    BY <1>1, <1>2, <1>9, <2>1, RestStep
  <2>3. CASE e.left > 1
    <3> DEFINE f == [e EXCEPT !.left = e.left - 1]
    <3>1. e.left - 1 \in Nat /\ e.left - 1 # 0 /\ e.left - 1 <= Len(e.open)
      BY <1>3, <2>3
    <3>2. /\ f \in Point /\ f.delta = <<>> /\ f.left = e.left - 1 /\ f.open = e.open
          /\ f.running = e.running /\ f.partial = e.partial /\ f.sent = e.sent
      BY <1>1, <1>9, <3>1 DEF Point
    <3>3. Put(e, Head(rest), f)
      BY <1>9, <2>2, <2>3 DEF Put, PutInner
    <3> HIDE DEF f
    <3>4. Placed(f)
      BY <1>1, <1>3, <2>3, <3>1, <3>2 DEF Placed, DeltaLeft
    <3>5. SubSeq(f.open, Len(f.open) - f.left + 1, Len(f.open)) \in Seq(Byte)
      <4>1. f.open \in Seq(Byte) /\ f.left \in 1..Len(f.open)
        BY <1>3, <3>1, <3>2
      <4>2. QED
        BY <4>1, Suffix
    <3>6. Rest(f) = Tail(rest)
      BY <2>2, <3>2, <3>5, ConcatEmptySeq DEF Rest
    <3>7. sent' = sent /\ open' = open
      BY <1>4, <2>1, <2>3
    <3>8. Current(f)'
      BY <1>2, <1>4, <3>2, <3>6, <3>7 DEF Current, Rest
    <3>9. QED
      BY <3>2, <3>3, <3>4, <3>8
  <2>4. CASE e.left = 1
    <3> DEFINE f == [e EXCEPT !.left = 0, !.open = <<>>, !.sent = Append(e.sent, e.open)]
    <3>1. Append(e.sent, e.open) \in Seq(Seq(Byte))
      BY <1>3, AppendProperties
    <3>2. /\ f \in Point /\ f.delta = <<>> /\ f.left = 0 /\ f.open = <<>>
          /\ f.running = e.running /\ f.partial = e.partial /\ f.sent = Append(e.sent, e.open)
      BY <1>1, <1>9, <3>1 DEF Point
    <3>3. Put(e, Head(rest), f)
      <4>1. Len(e.open) - e.left + 1 = Len(e.open)
        BY <1>3, <2>4
      <4>2. QED
        BY <1>9, <2>2, <2>4, <4>1 DEF Put, PutLast
    <3> HIDE DEF f
    <3>4. Placed(f)
      BY <3>2, EmptySeq DEF Placed, DeltaLeft
    <3>5. Tail(rest) = <<>>
      <4>1. Tail(rest) \in Seq(Byte) /\ Len(Tail(rest)) = Len(rest) - 1
        BY <1>4, <1>5, HeadTailProperties
      <4>2. Len(Tail(rest)) = 0
        BY <2>1, <2>4, <4>1
      <4>3. QED
        BY <4>1, <4>2, EmptySeq
    <3>6. Rest(f) = <<>>
      <4>1. Rest(f) \in Seq(Byte) /\ Len(Rest(f)) = Len(f.delta) + f.left
        BY <3>2, <3>4, RestStep
      <4>2. Len(Rest(f)) = 0
        BY <3>2, <4>1, EmptySeq
      <4>3. QED
        BY <4>1, <4>2, EmptySeq
    <3>7. Current(f)'
      BY <1>2, <1>4, <2>1, <2>4, <3>2, <3>5, <3>6 DEF Current, Rest
    <3>8. QED
      BY <3>2, <3>3, <3>4, <3>7
  <2>5. QED
    BY <1>3, <2>1, <2>3, <2>4
<1>10. QED
  BY <1>8, <1>9

\* A real-time byte in between.
LEMMA WalkPutRealTime ==
    ASSUME TypeOK, Turns, NEW path \in Seq(Point), Walk(path), NEW b \in RealTimeByte, PutRealTime(b)
    PROVE  \E p \in Seq(Point) : Walk(p)'
<1> DEFINE e == path[Len(path)]
           x == <<b>>
           f == [e EXCEPT !.sent = Append(e.sent, x)]
<1>1. e \in Point /\ Placed(e) /\ Current(e)
  BY WalkForm
<1> HIDE DEF e
<1>2. b \in Byte /\ x \in Seq(Byte)
  BY RealTimeAssumption DEF Byte
<1>3. e.sent \in Seq(Seq(Byte))
  BY <1>1, PointForm
<1>4. Append(e.sent, x) \in Seq(Seq(Byte))
  BY <1>2, <1>3, AppendProperties
<1>5. /\ f \in Point /\ f.delta = e.delta /\ f.left = e.left /\ f.open = e.open
      /\ f.running = e.running /\ f.partial = e.partial /\ f.sent = Append(e.sent, x)
  BY <1>1, <1>4 DEF Point
<1>6. /\ ~sending /\ mode = "SIMPLE" /\ packet' = Append(packet, b) /\ sent' = Append(sent, x)
      /\ UNCHANGED <<mode, status, running_status, hold, partial_sysex, sending, get_delta, emitted, z,
                     encRunning, encPartial, rest, open>>
  BY DEF PutRealTime, parserVars
<1>7. Put(e, b, f)
  BY <1>6 DEF Put, PutAlone
<1> HIDE DEF f
<1>8. Placed(f)
  BY <1>1, <1>5 DEF Placed
<1>9. Current(f)'
  BY <1>1, <1>5, <1>6 DEF Current
<1>10. Follows(e, b, f)
  BY <1>5, <1>7, <1>8 DEF Follows
<1> HIDE DEF x
<1>11. QED
  BY <1>2, <1>5, <1>6, <1>8, <1>9, <1>10, WalkExtends DEF e

\* A data byte before anything else.
LEMMA WalkPutStray ==
    ASSUME TypeOK, Turns, NEW path \in Seq(Point), Walk(path), PutStray
    PROVE  \E p \in Seq(Point) : Walk(p)'
<1> DEFINE e == path[Len(path)]
<1>1. e \in Point /\ Placed(e) /\ Current(e)
  BY WalkForm
<1> HIDE DEF e
<1>2. /\ ~sending /\ mode = "SIMPLE" /\ packet' = Append(packet, 1) /\ sent = <<>> /\ open = <<>>
      /\ UNCHANGED <<mode, status, running_status, hold, partial_sysex, sending, get_delta, emitted, z,
                     encRunning, encPartial, rest, open, sent>>
  BY DEF PutStray, parserVars
<1>3. Put(e, 1, e)
  BY <1>1, <1>2 DEF Put, PutData, Current
<1>4. Follows(e, 1, e) /\ Current(e)' /\ 1 \in Byte
  <2>1. Follows(e, 1, e)
    BY <1>1, <1>3 DEF Follows
  <2>2. Current(e)'
    BY <1>1, <1>2 DEF Current
  <2>3. QED
    BY <2>1, <2>2 DEF Byte
<1>5. QED
  BY <1>1, <1>2, <1>4, WalkExtends DEF e

\* The point before the first byte of a message that begins.
BegunPoint(m, d, short) ==
    [open |-> m, left |-> IF short THEN Len(m) - 1 ELSE Len(m), delta |-> d,
     running |-> RunningAfter(m), partial |-> PartialAfter(m), sent |-> sent]

\* The walk may go on behind g, and does with f.
Resting(g) == g \in Point /\ Placed(g) /\ Current(g) /\ g.left = 0
Starting(g, f, d) ==
    f \in Point /\ Placed(f) /\ Begun(g, f) /\ Current(f)' /\ f.delta = d /\ f.sent = sent

\* It is where the walk goes on.
LEMMA BegunPointForm ==
    ASSUME TypeOK, Turns, NEW g, Resting(g),
           NEW m \in Message, NEW d \in Delta \cup {<<>>}, NEW short \in BOOLEAN, Begin(m, d, short),
           NEW f, f = BegunPoint(m, d, short)
    PROVE  Starting(g, f, d)
<1>0. g \in Point /\ Placed(g) /\ Current(g) /\ g.left = 0
  BY DEF Resting
<1> DEFINE k == IF short THEN Len(m) - 1 ELSE Len(m)
<1>1. /\ m \in Seq(Byte) /\ m # <<>> /\ Len(m) \in Nat /\ Len(m) >= 1 /\ m[1] \in Byte
      /\ d \in Seq(Byte) /\ DeltaLeft(d)
  BY MessageForm, BeginType
<1>2. /\ Fits(m) /\ (short => IsChannel(m[1]) /\ m[1] = encRunning)
      /\ d = <<>> <=> (mode = "SIMPLE" \/ (packet = <<>> /\ ~ z))
      /\ open' = m /\ rest' = d \o (IF short THEN Tail(m) ELSE m)
      /\ encRunning' = RunningAfter(m) /\ encPartial' = PartialAfter(m)
      /\ mode' = mode /\ sent' = sent
  BY DEF Begin, parserVars
<1>3. RunningAfter(m) \in Byte /\ PartialAfter(m) \in BOOLEAN
  <2>1. encRunning \in Byte /\ encPartial \in BOOLEAN
    BY DEF TypeOK, Byte
  <2>2. RunningAfter(m) \in Byte
    <3>1. 0 \in Byte
      BY DEF Byte
    <3>2. QED
      BY <1>1, <2>1, <3>1 DEF RunningAfter
  <2>3. QED
    BY <2>1, <2>2 DEF PartialAfter
<1>4. k \in 1..Len(m)
  <2>1. short => Len(m) \in {2, 3}
    BY <1>2, ChannelForm
  <2> DEFINE l == Len(m)
  <2>2. l \in Nat /\ l >= 1 /\ (short => l \in {2, 3})
    BY <1>1, <2>1
  <2> HIDE DEF l
  <2>3. l - 1 \in Nat /\ (short => l - 1 \in 1..l) /\ l \in 1..l
    BY <2>2
  <2>4. QED
    BY <2>3 DEF l
<1>5. sent \in Seq(Seq(Byte))
  BY DEF TypeOK, Byte
<1>6. /\ f \in Point /\ f.open = m /\ f.left = k /\ f.delta = d /\ f.running = RunningAfter(m)
      /\ f.partial = PartialAfter(m) /\ f.sent = sent
  <2>1. k \in Nat
    BY <1>1, <1>4
  <2>2. QED
    BY <1>1, <1>3, <1>5, <2>1 DEF Point, BegunPoint
<1> HIDE DEF k
<1>7. Placed(f)
  <2>1. f.left # 0 /\ f.left <= Len(f.open) /\ f.open # <<>>
    BY <1>1, <1>4, <1>6
  <2>2. mode = "SIMPLE" => d = <<>>
    BY <1>2
  <2>3. QED
    BY <1>1, <1>6, <2>1, <2>2 DEF Placed
<1>8. /\ open = g.open /\ encRunning = g.running /\ encPartial = g.partial /\ sent = g.sent
  BY <1>0 DEF Current
<1>9. Begun(g, f)
  <2>1. Whole(f) \/ (Running(f) /\ f.open[1] = g.running)
    BY <1>2, <1>6, <1>8 DEF Whole, Running, k
  <2>2. IF g.partial THEN Continues(f.open) ELSE ~Continues(f.open)
    BY <1>0, <1>2, <1>6, <1>8 DEF Fits
  <2>3. f.running = IF IsChannel(f.open[1]) THEN f.open[1]
                   ELSE IF IsRealTime(f.open[1]) THEN g.running ELSE 0
    BY <1>6, <1>8 DEF RunningAfter
  <2>4. f.partial = IF IsSysEx(f.open) THEN Last(f.open) = 240 ELSE g.partial
    <3>1. IsSysEx(m) <=> m[1] \in {240, 247} /\ Len(m) > 1
      BY SysExForm DEF IsSysEx
    <3>2. QED
      BY <1>6, <1>8, <3>1 DEF PartialAfter
  <2>5. QED
    BY <1>0, <1>6, <1>8, <2>1, <2>2, <2>3, <2>4 DEF Begun
<1>10. (IF short THEN Tail(m) ELSE m) = SubSeq(m, Len(m) - k + 1, Len(m))
  <2>1. SubSeq(m, 1, Len(m)) = m
    BY <1>1, Held
  <2>2. Tail(SubSeq(m, Len(m) - Len(m) + 1, Len(m))) = SubSeq(m, Len(m) - (Len(m) - 1) + 1, Len(m))
    <3>1. Len(m) \in 1..Len(m)
      BY <1>1
    <3>2. QED
      BY <1>1, <3>1, Suffix
  <2>3. Len(m) - Len(m) + 1 = 1
    BY <1>1
  <2>4. Tail(m) = SubSeq(m, Len(m) - (Len(m) - 1) + 1, Len(m))
    BY <2>1, <2>2, <2>3
  <2>5. CASE short
    BY <2>4, <2>5 DEF k
  <2>6. CASE ~short
    BY <2>1, <2>3, <2>6 DEF k
  <2>7. QED
    BY <2>5, <2>6
<1>11. Current(f)'
  BY <1>2, <1>6, <1>10 DEF Current
<1>12. QED
  BY <1>6, <1>7, <1>9, <1>11 DEF Starting

\* A message begins at the last point of the walk.
LEMMA WalkBegins ==
    ASSUME TypeOK, Turns, NEW path \in Seq(Point), Walk(path),
           NEW m \in Message, NEW d \in Delta \cup {<<>>}, NEW short \in BOOLEAN, Begin(m, d, short)
    PROVE  \E p \in Seq(Point) : Walk(p)'
<1> DEFINE n == Len(path)
           g == path[n]
<1>1. /\ ~sending /\ rest = <<>> /\ (d = <<>> <=> (mode = "SIMPLE" \/ (packet = <<>> /\ ~ z)))
      /\ UNCHANGED <<mode, status, running_status, hold, partial_sysex, sending, get_delta, emitted, z,
                     packet, ring, sent>>
  BY DEF Begin, parserVars
<1>2. /\ n \in Nat /\ n >= 1 /\ Stream = packet /\ Stream' = packet /\ n = Len(packet) + 1
      /\ Len(packet) \in Nat /\ packet \in Seq(Byte)
      /\ g \in Point /\ Placed(g) /\ Current(g)
  <2>1. Stream = packet /\ Stream' = packet
    BY <1>1 DEF Stream
  <2>2. QED
    BY <2>1, WalkForm
<1>3. g.left = 0
  <2>1. rest = Rest(g)
    BY <1>2 DEF Current, Rest
  <2>2. Len(g.delta) + g.left = 0 /\ Len(g.delta) \in Nat /\ g.left \in Nat
    <3>1. Len(Rest(g)) = Len(g.delta) + g.left /\ Len(rest) = 0
      BY <1>1, <1>2, RestStep, EmptySeq
    <3>2. g.delta \in Seq(Byte) /\ g.left \in Nat
      BY <1>2, PointForm
    <3>3. QED
      BY <2>1, <3>1, <3>2, LenProperties
  <2>3. QED
    BY <2>2
<1> HIDE DEF g, n
<1>40. PICK f : f = BegunPoint(m, d, short)
  OBVIOUS
<1>4. f \in Point /\ Placed(f) /\ Begun(g, f) /\ Current(f)' /\ f.delta = d /\ f.sent = sent
  <2>1. Resting(g)
    BY <1>2, <1>3 DEF Resting
  <2>2. Starting(g, f, d)
    BY <1>40, <2>1, BegunPointForm, ZenonT(60)
  <2>3. QED
    BY <2>2 DEF Starting
<1> DEFINE p == [path EXCEPT ![n] = f]
<1>5. /\ p \in Seq(Point) /\ Len(p) = n /\ p[n] = f
      /\ \A i \in 1..n : i # n => p[i] = path[i]
  <2>1. n \in 1..Len(path)
    BY <1>2 DEF n
  <2>2. QED
    BY <1>4, <2>1, ExceptSeq DEF n
<1> HIDE DEF p
<1>6. Len(p) = Len(Stream') + 1
  BY <1>2, <1>5
<1>7. \A i \in 1..Len(p) : Placed(p[i])' /\ IsPrefix(p[i].sent, sent')
  <2> TAKE i \in 1..Len(p)
  <2>1. CASE i = n
    <3>1. IsPrefix(sent, sent)
      BY PrefixStays, EmptySeq DEF TypeOK
    <3>2. QED
      BY <1>1, <1>4, <1>5, <2>1, <3>1 DEF Placed
  <2>2. CASE i # n
    <3>1. p[i] = path[i] /\ Placed(path[i]) /\ IsPrefix(path[i].sent, sent)
      BY <1>2, <1>5, <2>2, WalkForm DEF n
    <3>2. QED
      BY <1>1, <3>1 DEF Placed
  <2>3. QED
    BY <2>1, <2>2
<1>8. ASSUME NEW i \in 1..Len(packet) PROVE Follows(p[i], packet[i], p[i + 1])
  <2>1. i \in 1..n /\ i # n /\ i + 1 \in 1..n /\ p[i] = path[i]
    BY <1>2, <1>5
  <2>2. Follows(path[i], packet[i], path[i + 1])
    BY <1>2 DEF Walk
  <2>3. CASE i + 1 = n
    <3>1. PICK h \in Point : /\ Placed(h) /\ Put(path[i], packet[i], h)
                             /\ g = h \/ (Begun(h, g) /\ (mode = "RTP" => g.delta # <<>>))
      BY <2>2, <2>3 DEF Follows, g
    <3>2. g = h
      BY <1>2, <1>3, <3>1, BegunForm, ZenonT(60)
    <3>3. packet # <<>>
      BY <1>2, <2>1, EmptySeq
    <3>4. mode = "RTP" => f.delta # <<>>
      BY <1>1, <1>4, <3>3
    <3>5. Follows(path[i], packet[i], f)
      BY <1>2, <1>4, <3>1, <3>2, <3>4 DEF Follows
    <3>6. QED
      BY <1>5, <2>1, <2>3, <3>5
  <2>4. CASE i + 1 # n
    BY <1>5, <2>1, <2>2, <2>4
  <2>5. QED
    BY <2>3, <2>4
<1>9. \A i \in 1..Len(Stream') : Follows(p[i], Stream[i], p[i + 1])'
  <2> TAKE i \in 1..Len(Stream')
  <2>1. Follows(p[i], Stream'[i], p[i + 1])
    BY <1>2, <1>8
  <2>2. QED
    BY <1>1, <2>1 DEF Follows, Put, PutDelta, PutInner, PutLast, PutAlone, PutData, Placed
<1>10. Match(path[1])' /\ path[1] \in Point /\ emitted' = path[1].sent
  <2>1. path[1] \in Point /\ emitted = path[1].sent /\ Match(path[1])
    BY WalkForm
  <2>2. Match(path[1])'
    BY <1>1, <2>1 DEF Match, Between, Within, Idle, Ahead, InChannel, InSysEx, RunningAgrees, PartialAgrees,
                Due, Entry
  <2>3. QED
    BY <1>1, <2>1, <2>2
<1>11. emitted' = p[1].sent /\ Match(p[1])'
  <2>1. CASE n = 1
    <3>1. path[1] = g /\ p[1] = f /\ packet = <<>>
      BY <1>2, <1>5, <2>1, EmptySeq DEF g
    <3>2. d # <<>> <=> Due'
      BY <1>1, <3>1, ModesAssumption DEF Due, Turns, TypeOK
    <3>3. Match(f)'
      BY <1>1, <1>2, <1>4, <1>10, <3>1, <3>2, BeginMatch
    <3>4. f.sent = g.sent
      BY <1>4 DEF Begun
    <3>5. QED
      BY <1>10, <3>1, <3>3, <3>4
  <2>2. CASE n # 1
    <3>1. p[1] = path[1]
      BY <1>2, <1>5, <2>2
    <3>2. QED
      BY <1>10, <3>1
  <2>3. QED
    BY <2>1, <2>2
<1>12. Walk(p)'
  BY <1>4, <1>5, <1>6, <1>7, <1>9, <1>11 DEF Walk
<1>13. QED
  BY <1>5, <1>12

\* Nothing is left of a message exactly where none is open.
LEMMA RestEmpty ==
    ASSUME NEW e \in Point, Placed(e)
    PROVE  /\ Rest(e) = <<>> <=> e.left = 0
           /\ Current(e) => (rest = <<>> <=> e.left = 0)
<1>1. Rest(e) \in Seq(Byte) /\ Len(Rest(e)) = Len(e.delta) + e.left
  BY RestStep
<1>2. /\ e.delta \in Seq(Byte) /\ e.left \in Nat /\ Len(e.delta) \in Nat
      /\ e.left = 0 => e.delta = <<>>
  BY PointForm, LenProperties
<1>3. Len(Rest(e)) = 0 <=> e.left = 0
  BY <1>1, <1>2, EmptySeq
<1>4. Rest(e) = <<>> <=> Len(Rest(e)) = 0
  BY <1>1, EmptySeq
<1>5. Current(e) => rest = Rest(e)
  BY DEF Current, Rest
<1>6. QED
  BY <1>3, <1>4, <1>5

\* A walk stays one when the bytes between parser and encoder are the same.
LEMMA WalkStays ==
    ASSUME TypeOK, NEW path \in Seq(Point), Walk(path), Stream' = Stream,
           UNCHANGED <<mode, emitted, rest, open, encRunning, encPartial, sent>>,
           Match(path[1])'
    PROVE  \E p \in Seq(Point) : Walk(p)'
<1>1. \A i \in 1..Len(path) : Placed(path[i])' /\ IsPrefix(path[i].sent, sent')
  BY WalkForm DEF Placed
<1>2. \A i \in 1..Len(Stream') : Follows(path[i], Stream[i], path[i + 1])'
  <2> TAKE i \in 1..Len(Stream')
  <2>1. Follows(path[i], Stream'[i], path[i + 1])
    BY DEF Walk
  <2>2. QED
    BY <2>1 DEF Follows, Put, PutDelta, PutInner, PutLast, PutAlone, PutData, Placed
<1>3. Current(path[Len(path)])'
  <2>1. Current(path[Len(path)])
    BY WalkForm
  <2>2. QED
    BY <2>1 DEF Current
<1>4. Len(path) = Len(Stream') + 1 /\ emitted' = path[1].sent
  BY WalkForm
<1>5. Walk(path)'
  BY <1>1, <1>2, <1>3, <1>4 DEF Walk
<1>6. QED
  BY <1>5

\* The encoder chooses to begin the packet with a delta time.
LEMMA WalkChoosesZ ==
    ASSUME TypeOK, Turns, NEW path \in Seq(Point), Walk(path), ChooseZ
    PROVE  \E p \in Seq(Point) : Walk(p)'
<1> DEFINE e == path[1]
<1>1. /\ mode = "RTP" /\ ~sending /\ packet = <<>> /\ rest = <<>>
      /\ UNCHANGED <<mode, status, running_status, hold, partial_sysex, ring, sending, get_delta, emitted,
                     packet, rest, open, encRunning, encPartial, sent>>
  BY DEF ChooseZ, parserVars
<1>2. Stream' = Stream /\ Stream = <<>>
  BY <1>1 DEF Stream
<1>3. e \in Point /\ Placed(e) /\ Match(e) /\ Current(e)
  BY <1>2, WalkForm, EmptySeq
<1>4. e.left = 0
  BY <1>1, <1>3, RestEmpty
<1> HIDE DEF e
<1>5. Between(e)
  BY <1>3, <1>4 DEF Match, Within
<1>6. Match(e)'
  BY <1>1, <1>4, <1>5 DEF Match, Between, Idle, RunningAgrees, PartialAgrees
<1>7. QED
  BY <1>1, <1>2, <1>6, WalkStays DEF e

\* What is delivered is read from where the parser stopped.
LEMMA WalkDelivers ==
    ASSUME TypeOK, Turns, NEW path \in Seq(Point), Walk(path), Deliver
    PROVE  \E p \in Seq(Point) : Walk(p)'
<1> DEFINE e == path[1]
<1>1. /\ ~sending /\ packet # <<>> /\ (mode = "RTP" => rest = <<>>) /\ sending' = TRUE /\ get_delta' = z
      /\ ring' = (IF Len(ring) + Len(packet) <= Capacity[mode] THEN ring \o packet ELSE ring)
      /\ UNCHANGED <<mode, status, running_status, hold, partial_sysex, emitted, rest, open, encRunning,
                     encPartial, sent>>
  BY DEF Deliver, parserVars
<1>2. ring' = packet
  <2>1. ring = <<>> /\ Len(packet) <= Capacity[mode] /\ packet \in Seq(Byte) /\ Len(packet) \in Nat
    BY <1>1, LenProperties DEF Turns, TypeOK, Byte
  <2>2. Len(ring) + Len(packet) = Len(packet) /\ ring \o packet = packet
    BY <2>1, EmptySeq, ConcatEmptySeq
  <2>3. QED
    BY <1>1, <2>1, <2>2
<1>3. Stream' = Stream /\ Stream = packet
  BY <1>1, <1>2 DEF Stream
<1>4. /\ Len(packet) \in Nat /\ Len(packet) >= 1 /\ Len(path) >= 2
      /\ e \in Point /\ Placed(e) /\ Match(e) /\ path[2] \in Point
  <2>1. packet \in Seq(Byte)
    BY DEF TypeOK, Byte
  <2>2. Len(packet) >= 1 /\ Len(packet) \in Nat
    BY <1>1, <2>1, EmptySeq, LenProperties
  <2>3. Len(path) = Len(packet) + 1
    BY <1>3, WalkForm
  <2>4. 2 \in 1..Len(path)
    BY <2>2, <2>3
  <2>5. QED
    BY <2>2, <2>3, <2>4, WalkForm
<1>5. Follows(e, packet[1], path[2])
  <2>1. 1 \in 1..Len(Stream)
    BY <1>3, <1>4
  <2>2. QED
    BY <1>3, <2>1 DEF Walk
<1> HIDE DEF e
<1>6. CASE mode = "RTP"
  <2>1. PICK g \in Point : Put(e, packet[1], g)
    BY <1>5 DEF Follows
  <2>2. e.left # 0
    BY <1>4, <1>6, <2>1, PointForm DEF Put, PutDelta, PutInner, PutLast, PutAlone, PutData
  <2>3. status = "INIT" /\ Between(e) /\ hold = <<>>
    BY <1>1, <1>4, <1>6 DEF Turns, Match, Within, InChannel, InSysEx
  <2>4. Due' <=> Due
    BY <1>1, <2>3 DEF Due, Entry
  <2>5. Ahead(e)'
    BY <1>1, <2>2, <2>3, <2>4 DEF Between, Ahead, Whole, Running, RunningAgrees, PartialAgrees
  <2>6. Match(e)'
    BY <1>1, <2>2, <2>3, <2>5 DEF Match, Between
  <2>7. QED
    BY <1>1, <1>3, <2>6, WalkStays DEF e
<1>7. CASE mode = "SIMPLE"
  <2>1. ~z /\ status # "WAIT_DELTA"
    BY <1>7 DEF Turns
  <2>2. Due' <=> Due
    BY <1>1, <2>1 DEF Due, Entry
  <2>3. Match(e)'
    BY <1>1, <1>4, <1>7, <2>2 DEF Match, Between, Within, Idle, Ahead, Whole, Running, InChannel, InSysEx,
                                  RunningAgrees, PartialAgrees
  <2>4. QED
    BY <1>1, <1>3, <2>3, WalkStays DEF e
<1>8. QED
  BY <1>6, <1>7, ModesAssumption DEF TypeOK

\* The parser has read all there was.
LEMMA WalkReturns ==
    ASSUME TypeOK, Turns, NEW path \in Seq(Point), Walk(path), Return
    PROVE  (\E p \in Seq(Point) : Walk(p)') /\ Turns'
<1> DEFINE e == path[1]
<1>1. /\ sending /\ ring = <<>> /\ sending' = FALSE /\ packet = <<>>
      /\ status' = IF mode = "RTP" THEN "INIT" ELSE status
      /\ UNCHANGED <<ring, hold, running_status, partial_sysex, get_delta, emitted, mode, packet, z, rest,
                     open, encRunning, encPartial, sent>>
  BY DEF Return, encoderVars, Turns
<1>2. Stream' = Stream /\ Stream = <<>>
  BY <1>1 DEF Stream
<1>3. e \in Point /\ Placed(e) /\ Match(e) /\ Current(e)
  BY <1>2, WalkForm, EmptySeq
<1> HIDE DEF e
<1>4. ASSUME mode = "RTP" PROVE e.left = 0 /\ Between(e) /\ hold = <<>>
  <2>1. rest = <<>>
    BY <1>1, <1>4 DEF Turns
  <2>2. e.left = 0
    BY <1>3, <2>1, RestEmpty
  <2>3. QED
    BY <1>3, <2>2 DEF Match, Within, Between
<1>5. Match(e)'
  <2>1. CASE mode = "RTP"
    BY <1>1, <1>4, <2>1 DEF Match, Between, Idle, RunningAgrees, PartialAgrees
  <2>2. CASE mode = "SIMPLE"
    <3>1. ~z /\ ~get_delta /\ status # "WAIT_DELTA" /\ status' = status
      BY <1>1, <2>2 DEF Turns
    <3>2. ~Due /\ ~Due'
      BY <1>1, <3>1 DEF Due, Entry
    <3>3. QED
      BY <1>1, <1>3, <2>2, <3>1, <3>2
         DEF Match, Between, Within, Idle, Ahead, Whole, Running, InChannel, InSysEx, RunningAgrees, PartialAgrees
  <2>3. QED
    BY <2>1, <2>2, ModesAssumption DEF TypeOK
<1>6. Turns'
  BY <1>1, <1>4 DEF Turns
<1>7. QED
  BY <1>1, <1>2, <1>5, <1>6, WalkStays DEF e

\* Where parser and encoder start, and start again: only the pending segment may be left
\* from the peer before.
Fresh ==
    /\ status = "INIT" /\ hold = <<>> /\ running_status = 0 /\ ~sending /\ emitted = <<>>
    /\ mode = "SIMPLE" => partial_sysex = FALSE
    /\ packet = <<>> /\ rest = <<>> /\ open = <<>> /\ sent = <<>>
    /\ encRunning = 0 /\ encPartial = FALSE

LEMMA WalkStarts == Fresh => Tracked
<1> SUFFICES ASSUME Fresh PROVE \E p \in Seq(Point) : Walk(p)
  BY DEF Tracked
<1> DEFINE e == [open |-> <<>>, left |-> 0, delta |-> <<>>, running |-> 0, partial |-> FALSE,
                 sent |-> <<>>]
           p == <<e>>
<1>1. <<>> \in Seq(Byte) /\ Len(<<>>) = 0 /\ <<>> \in Seq(Seq(Byte)) /\ 0 \in Byte
  BY EmptySeq DEF Byte
<1>2. /\ e \in Point /\ e.open = <<>> /\ e.left = 0 /\ e.delta = <<>> /\ e.running = 0
      /\ e.partial = FALSE /\ e.sent = <<>>
  BY <1>1 DEF Point
<1> HIDE DEF e
<1>3. p \in Seq(Point) /\ Len(p) = 1 /\ p[1] = e
  BY <1>2
<1> HIDE DEF p
<1>4. Placed(e)
  BY <1>1, <1>2 DEF Placed, DeltaLeft
<1>5. IsPrefix(e.sent, sent)
  BY <1>1, <1>2, PrefixStays DEF Fresh
<1>6. Idle(e) /\ Match(e)
  BY <1>2 DEF Fresh, Match, Between, Idle, RunningAgrees, PartialAgrees
<1>7. Rest(e) = <<>>
  BY <1>2, <1>4, RestEmpty
<1>8. Current(e)
  BY <1>2, <1>7 DEF Current, Rest, Fresh
<1>9. Stream = <<>> /\ Len(Stream) = 0
  BY <1>1 DEF Stream, Fresh
<1>10. Walk(p)
  BY <1>2, <1>3, <1>4, <1>5, <1>6, <1>8, <1>9 DEF Walk, Fresh
<1>11. QED
  BY <1>3, <1>10

-----------------------------------------------------------------------------
\* At the start there is nothing between parser and encoder.
LEMMA InitMidi == Init => MidiInv
<1>1. Init => TypeOK /\ Turns
  BY InitType
<1>2. Init => Tracked
  BY WalkStarts DEF Init, Fresh
<1>3. QED
  BY <1>1, <1>2 DEF MidiInv

\* A slot that is used again starts afresh.
LEMMA FreshAgain == Fresh' => Tracked'
<1>1. Fresh => Tracked
  BY WalkStarts
<1>2. QED
  BY <1>1, PTL

\* Every step keeps the walk.
LEMMA NextMidi ==
    ASSUME ListsWithoutRealTime, MidiInv, [Next]_vars
    PROVE  MidiInv'
<1>1. TypeOK /\ Turns /\ Tracked
  BY DEF MidiInv
<1>2. TypeOK'
  BY <1>1, NextType
<1>3. PICK path \in Seq(Point) : Walk(path)
  BY <1>1 DEF Tracked
<1> SUFFICES Turns' /\ \E p \in Seq(Point) : Walk(p)'
  BY <1>2 DEF MidiInv, Tracked
<1>4. ASSUME NEW m \in Message, NEW d \in Delta \cup {<<>>}, NEW short \in BOOLEAN, Begin(m, d, short)
      PROVE  Turns' /\ \E p \in Seq(Point) : Walk(p)'
  <2>1. Turns'
    BY <1>1, <1>4 DEF Begin, Turns, parserVars
  <2>2. QED
    BY <1>1, <1>3, <1>4, <2>1, WalkBegins
<1>5. ASSUME ChooseZ PROVE Turns' /\ \E p \in Seq(Point) : Walk(p)'
  <2>1. Turns'
    BY <1>1, <1>5 DEF ChooseZ, Turns, parserVars
  <2>2. QED
    BY <1>1, <1>3, <1>5, <2>1, WalkChoosesZ
<1>6. packet \in Seq(0..255) /\ Len(packet) \in Nat /\ Capacity[mode] \in Nat
  BY <1>1, LenProperties, BoundsAssumption DEF TypeOK
<1>7. ASSUME PutByte PROVE Turns' /\ \E p \in Seq(Point) : Walk(p)'
  <2>1. Head(rest) \in 0..255
    BY <1>1, <1>7, HeadTailProperties DEF PutByte, TypeOK
  <2>2. Len(packet') = Len(packet) + 1 /\ Len(packet) < Capacity[mode]
    BY <1>6, <1>7, <2>1, AppendProperties DEF PutByte
  <2>3. Len(packet') <= Capacity[mode]
    BY <1>6, <2>2
  <2>4. Turns'
    BY <1>1, <1>7, <2>3 DEF PutByte, Turns, parserVars
  <2>5. QED
    BY <1>1, <1>3, <1>7, <2>4, WalkPutByte
<1>8. ASSUME NEW b \in RealTimeByte, PutRealTime(b) PROVE Turns' /\ \E p \in Seq(Point) : Walk(p)'
  <2>1. b \in 0..255
    BY RealTimeAssumption
  <2>2. Len(packet') = Len(packet) + 1 /\ Len(packet) < Capacity[mode]
    BY <1>6, <1>8, <2>1, AppendProperties DEF PutRealTime
  <2>3. Len(packet') <= Capacity[mode]
    BY <1>6, <2>2
  <2>4. Turns'
    BY <1>1, <1>8, <2>3 DEF PutRealTime, Turns, parserVars
  <2>5. QED
    BY <1>1, <1>3, <1>8, <2>4, WalkPutRealTime
<1>9. ASSUME PutStray PROVE Turns' /\ \E p \in Seq(Point) : Walk(p)'
  <2>1. Len(packet') = Len(packet) + 1 /\ Len(packet) < Capacity[mode]
    BY <1>6, <1>9, AppendProperties DEF PutStray
  <2>2. Len(packet') <= Capacity[mode]
    BY <1>6, <2>1
  <2>3. Turns'
    BY <1>1, <1>9, <2>2 DEF PutStray, Turns, parserVars
  <2>4. QED
    BY <1>1, <1>3, <1>9, <2>3, WalkPutStray
<1>10. ASSUME Deliver PROVE Turns' /\ \E p \in Seq(Point) : Walk(p)'
  <2>1. Len(packet') <= Capacity[mode]
    BY <1>6, <1>10, EmptySeq DEF Deliver, parserVars
  <2>2. /\ ~sending /\ sending' /\ packet' = <<>> /\ z' = FALSE /\ get_delta' = z
        /\ mode = "RTP" => rest = <<>>
        /\ UNCHANGED <<mode, status, rest>>
    BY <1>10 DEF Deliver, parserVars
  <2>3. Turns'
    BY <1>1, <2>1, <2>2 DEF Turns
  <2>4. QED
    BY <1>1, <1>3, <1>10, <2>3, WalkDelivers
<1>11. ASSUME Reset PROVE Turns' /\ \E p \in Seq(Point) : Walk(p)'
  <2>1. Len(packet') <= Capacity[mode]
    BY <1>6, <1>11, EmptySeq DEF Reset
  <2>2. mode = "RTP" /\ mode' = mode /\ ~sending'
    BY <1>11 DEF Reset
  <2>3. Turns'
    BY <1>1, <1>11, <2>1, <2>2 DEF Reset, Turns
  <2>4. Fresh'
    BY <1>11, <2>2 DEF Reset, Fresh
  <2>5. QED
    BY <2>3, <2>4, FreshAgain DEF Tracked
<1>12. ASSUME NEW b \in Range(ring), ReadByte(b) PROVE Turns' /\ \E p \in Seq(Point) : Walk(p)'
  BY <1>1, <1>3, <1>12, ReadTurns, WalkReads
<1>13. ASSUME Return PROVE Turns' /\ \E p \in Seq(Point) : Walk(p)'
  BY <1>1, <1>3, <1>13, WalkReturns
<1>14. ASSUME UNCHANGED vars PROVE Turns' /\ \E p \in Seq(Point) : Walk(p)'
  <2>1. Turns'
    BY <1>1, <1>14 DEF vars, Turns
  <2>2. Stream' = Stream
    BY <1>14 DEF vars, Stream
  <2>3. Match(path[1])
    BY <1>1, <1>3, WalkForm
  <2>4. Match(path[1])'
    BY <1>14, <2>3 DEF vars, Match, Between, Within, Idle, Ahead, InChannel, InSysEx, RunningAgrees,
                       PartialAgrees, Due, Entry
  <2>5. UNCHANGED <<mode, emitted, rest, open, encRunning, encPartial, sent>>
    BY <1>14 DEF vars
  <2>6. QED
    BY <1>1, <1>3, <2>1, <2>2, <2>4, <2>5, WalkStays
<1>15. QED
  BY <1>4, <1>5, <1>7, <1>8, <1>9, <1>10, <1>11, <1>12, <1>13, <1>14 DEF Next

-----------------------------------------------------------------------------
\* TypeOK: the parser's status, flags and held bytes stay in their ranges, and the ring
\* within its size, in either mode and whatever the lists hold.
THEOREM MidiTypeOK == Spec => []TypeOK
<1>1. Init => TypeOK
  BY InitType
<1>2. TypeOK /\ [Next]_vars => TypeOK'
  BY NextType
<1>3. QED
  BY <1>1, <1>2, PTL DEF Spec

\* The parser of midi_state_send is always at a point of the stream that a walk of the
\* unread bytes leads from to the encoder.
THEOREM MidiInvariant ==
    ASSUME ListsWithoutRealTime
    PROVE  Spec => []MidiInv
<1>1. Init => MidiInv
  BY InitMidi
<1>2. MidiInv /\ [Next]_vars => MidiInv'
  BY NextMidi
<1>3. QED
  BY <1>1, <1>2, PTL DEF Spec

\* EmittedInOrder: what midi_state_send hands to midi_sender_add is what was sent, in the
\* order in which it was completed.
THEOREM MidiEmittedInOrder ==
    ASSUME ListsWithoutRealTime
    PROVE  Spec => []EmittedInOrder
<1>1. ASSUME MidiInv PROVE EmittedInOrder
  <2>1. PICK path \in Seq(Point) : Walk(path)
    BY <1>1 DEF MidiInv, Tracked
  <2>2. emitted = path[1].sent /\ 1 \in 1..Len(path) /\ IsPrefix(path[1].sent, sent)
    BY <1>1, <2>1, WalkForm DEF MidiInv
  <2>3. QED
    BY <2>2 DEF EmittedInOrder
<1>2. QED
  BY <1>1, MidiInvariant, PTL

\* NothingWithheld: when midi_state_send has returned and no packet is being filled, every
\* message that was delivered whole has been handed on.
THEOREM MidiNothingWithheld ==
    ASSUME ListsWithoutRealTime
    PROVE  Spec => []NothingWithheld
<1>1. ASSUME MidiInv PROVE NothingWithheld
  <2>1. PICK path \in Seq(Point) : Walk(path)
    BY <1>1 DEF MidiInv, Tracked
  <2>2. ASSUME ~sending, packet = <<>> PROVE emitted = sent
    <3>1. Stream = <<>>
      BY <2>2 DEF Stream
    <3>2. Len(path) = 1
      BY <1>1, <2>1, <3>1, WalkForm, EmptySeq DEF MidiInv
    <3>3. emitted = path[1].sent /\ Current(path[1])
      BY <1>1, <2>1, <3>2, WalkForm DEF MidiInv
    <3>4. QED
      BY <3>3 DEF Current
  <2>3. QED
    BY <2>2 DEF NothingWithheld
<1>2. QED
  BY <1>1, MidiInvariant, PTL

\* InStep: between two packets of a local socket or device, hold, partial_sysex and
\* running_status are what the bytes so far imply.
THEOREM MidiInStep ==
    ASSUME ListsWithoutRealTime
    PROVE  Spec => []InStep
<1>1. ASSUME MidiInv PROVE InStep
  <2>1. PICK path \in Seq(Point) : Walk(path)
    BY <1>1 DEF MidiInv, Tracked
  <2> SUFFICES ASSUME mode = "SIMPLE", ~sending, packet = <<>>
               PROVE  /\ hold = OpenPart \/ (hold = <<>> /\ OpenPart = <<running_status>>)
                      /\ open = <<>> => partial_sysex = encPartial
                      /\ open = <<>> /\ encRunning # 0 => running_status = encRunning
    BY DEF InStep
  <2> DEFINE e == path[1]
  <2>2. e \in Point /\ Placed(e) /\ Match(e) /\ Current(e)
    <3>1. Stream = <<>>
      BY DEF Stream
    <3>2. Len(path) = 1
      BY <1>1, <2>1, <3>1, WalkForm, EmptySeq DEF MidiInv
    <3>3. QED
      BY <1>1, <2>1, <3>2, WalkForm DEF MidiInv
  <2> HIDE DEF e
  <2>3. /\ e.open \in Seq(Byte) /\ Len(e.open) \in Nat /\ e.left \in Nat /\ e.left <= Len(e.open)
        /\ e.delta = <<>> /\ (e.left = 0 <=> e.open = <<>>) /\ (e.left # 0 => e.open \in Message)
    BY <2>2, PointForm DEF Placed
  <2>4. open = e.open /\ encRunning = e.running /\ encPartial = e.partial /\ rest = Rest(e)
    BY <2>2 DEF Current, Rest
  <2>5. Len(rest) = e.left
    BY <2>2, <2>3, <2>4, RestStep, EmptySeq
  <2>6. OpenPart = SubSeq(e.open, 1, Len(e.open) - e.left)
    BY <2>4, <2>5 DEF OpenPart
  <2>7. CASE e.left = 0
    <3>1. hold = <<>> /\ Idle(e)
      BY <2>2, <2>7 DEF Match, Within, Between
    <3>2. OpenPart = <<>>
      <4>1. Len(e.open) - e.left = 0
        BY <2>3, <2>7, EmptySeq
      <4>2. QED
        BY <2>3, <2>6, <4>1, Held
    <3>3. QED
      BY <2>4, <3>1, <3>2 DEF Idle, RunningAgrees, PartialAgrees
  <2>8. CASE e.left # 0 /\ Between(e)
    <3>1. hold = <<>> /\ Ahead(e) /\ e.open \in Message /\ open # <<>>
      BY <2>3, <2>4, <2>8 DEF Between
    <3>2. CASE Whole(e)
      <4>1. Len(e.open) - e.left = 0
        BY <2>3, <3>2 DEF Whole
      <4>2. OpenPart = <<>>
        BY <2>3, <2>6, <4>1, Held
      <4>3. QED
        BY <3>1, <4>2
    <3>3. CASE Running(e) /\ ~Whole(e)
      <4>1. Len(e.open) - e.left = 1 /\ running_status = e.open[1]
        BY <2>3, <3>1, <3>3 DEF Running, Ahead
      <4>2. OpenPart = <<e.open[1]>>
        <5>1. Append(<<>>, e.open[1]) = SubSeq(e.open, 1, 1)
          BY <2>3, <4>1, Held
        <5>2. Append(<<>>, e.open[1]) = <<e.open[1]>>
          OBVIOUS
        <5>3. QED
          BY <2>6, <4>1, <5>1, <5>2
      <4>3. QED
        BY <3>1, <4>1, <4>2
    <3>4. QED
      BY <3>1, <3>2, <3>3 DEF Ahead
  <2>9. CASE Within(e)
    <3>1. hold = OpenPart /\ e.left # 0
      BY <2>6, <2>9 DEF Within
    <3>2. open # <<>>
      BY <2>3, <2>4, <3>1
    <3>3. QED
      BY <3>1, <3>2
  <2>10. QED
    BY <2>2, <2>7, <2>8, <2>9 DEF Match
<1>2. QED
  BY <1>1, MidiInvariant, PTL
=============================================================================
