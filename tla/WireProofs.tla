----------------------------- MODULE WireProofs -----------------------------
(***************************************************************************)
(* What Packets and Wire promise, for every octet, SSRC, number, command   *)
(* and set of sessions.                                                    *)
(*                                                                         *)
(* The first part is about the formats: what is packed is read back, and   *)
(* how far.  The second shows the invariants of Wire by WireInv, which     *)
(* says of every packet under way what its receiver will make of it, and   *)
(* which programs and peers its command can have come through.             *)
(***************************************************************************)
EXTENDS Wire, SequenceTheorems, TLAPS

-----------------------------------------------------------------------------
\* A packet, or a part of one, of n octets.
Sized(s, n) == s \in Seq(Octet) /\ Len(s) = n

\* A length is a natural number.
LEMMA SizedNat == ASSUME NEW s, NEW n, Sized(s, n) PROVE n \in Nat
  BY LenProperties DEF Sized

\* Two parts of a packet, one behind the other.
LEMMA Join ==
    ASSUME NEW a, NEW b, NEW m, NEW n, Sized(a, m), Sized(b, n)
    PROVE  Sized(a \o b, m + n)
  BY ConcatProperties DEF Sized

\* An octet of a packet.
At(s, i) == s[i]

\* The octets of the first part stand where they stood.
LEMMA InFirst ==
    ASSUME NEW a, NEW b, NEW m, NEW n, Sized(a, m), Sized(b, n), NEW i \in 1..m
    PROVE  At(a \o b, i) = At(a, i)
<1>1. m \in Nat /\ n \in Nat
  BY SizedNat
<1>2. i \in 1..(m + n) /\ i <= m
  BY <1>1
<1>3. \A j \in 1..(m + n) : (a \o b)[j] = IF j <= m THEN a[j] ELSE b[j - m]
  BY ConcatProperties, Zenon DEF Sized
<1>4. QED
  BY <1>2, <1>3 DEF At

\* Those of the second one stand behind it.
LEMMA InSecond ==
    ASSUME NEW a, NEW b, NEW m, NEW n, Sized(a, m), Sized(b, n), NEW i \in 1..n
    PROVE  At(a \o b, m + i) = At(b, i)
<1>1. m \in Nat /\ n \in Nat
  BY SizedNat
<1>2. m + i \in 1..(m + n) /\ ~(m + i <= m) /\ (m + i) - m = i
  BY <1>1
<1>3. \A j \in 1..(m + n) : (a \o b)[j] = IF j <= m THEN a[j] ELSE b[j - m]
  BY ConcatProperties, Zenon DEF Sized
<1>4. QED
  BY <1>2, <1>3 DEF At

\* So do the uint16_t of either part,
LEMMA First16 ==
    ASSUME NEW a, NEW b, NEW m, NEW n, Sized(a, m), Sized(b, n), NEW i \in 1..(m - 1)
    PROVE  Get16(a \o b, i) = Get16(a, i)
<1>1. i \in 1..m /\ i + 1 \in 1..m
  BY SizedNat
<1>2. QED
  BY <1>1, InFirst DEF Get16, At

\* at the place in the packet that follows from that in the part,
LEMMA Second16 ==
    ASSUME NEW a, NEW b, NEW m, NEW n, Sized(a, m), Sized(b, n), NEW i \in 1..(n - 1)
    PROVE  Get16(a \o b, m + i) = Get16(b, i)
<1>1. /\ i \in 1..n /\ i + 1 \in 1..n
      /\ (m + i) + 1 = m + (i + 1)
  BY SizedNat
<1>2. At(a \o b, m + i) = At(b, i) /\ At(a \o b, m + (i + 1)) = At(b, i + 1)
  BY <1>1, InSecond
<1>3. Get16(a \o b, m + i) = At(a \o b, m + i) * 256 + At(a \o b, (m + i) + 1)
  BY DEF Get16, At
<1>4. Get16(b, i) = At(b, i) * 256 + At(b, i + 1)
  BY DEF Get16, At
<1>5. QED
  BY <1>1, <1>2, <1>3, <1>4, ZenonT(60)

\* the uint32_t of either part,
LEMMA First32 ==
    ASSUME NEW a, NEW b, NEW m, NEW n, Sized(a, m), Sized(b, n), NEW i \in 1..(m - 3)
    PROVE  Get32(a \o b, i) = Get32(a, i)
<1>1. i \in 1..(m - 1) /\ i + 2 \in 1..(m - 1)
  BY SizedNat
<1>2. QED
  BY <1>1, First16 DEF Get32

\* and here too that of the second part is moved by the first one.
LEMMA Second32 ==
    ASSUME NEW a, NEW b, NEW m, NEW n, Sized(a, m), Sized(b, n), NEW i \in 1..(n - 3)
    PROVE  Get32(a \o b, m + i) = Get32(b, i)
<1>1. /\ i \in 1..(n - 1) /\ i + 2 \in 1..(n - 1)
      /\ (m + i) + 2 = m + (i + 2)
  BY SizedNat
<1>2. /\ Get16(a \o b, m + i) = Get16(b, i)
      /\ Get16(a \o b, m + (i + 2)) = Get16(b, i + 2)
  BY <1>1, Second16
<1>3. QED
  BY <1>1, <1>2 DEF Get32

\* The numbers of a uint16_t.
Below(n) == 0..n
LEMMA Uint16Is == \A v : v \in Uint16 <=> v \in Nat /\ v <= 65535
<1>1. \A n : \A v : v \in Below(n) <=> v \in Nat /\ v <= n
  BY DEF Below
<1>2. \A v : v \in Below(65535) <=> v \in Nat /\ v <= 65535
  BY <1>1
<1>3. Uint16 = Below(65535)
  BY DEF Uint16, Below
<1>4. QED
  BY <1>2, <1>3

\* A uint16_t is its two octets.
LEMMA Division == \A v \in Uint16 : /\ v \div 256 \in 0..255 /\ v % 256 \in 0..255
                                    /\ (v \div 256) * 256 + (v % 256) = v
<1> TAKE v \in Uint16
<1>1. v \in Nat /\ v <= 65535
  BY Uint16Is
<1>2. QED
  BY <1>1

\* put_uint16 and get_uint16 are inverse.
LEMMA Octets16 ==
    ASSUME NEW v \in Uint16
    PROVE  Sized(Put16(v), 2) /\ Get16(Put16(v), 1) = v
<1>1. v \div 256 \in 0..255 /\ v % 256 \in 0..255 /\ (v \div 256) * 256 + (v % 256) = v
  BY Division
<1>2. QED
  BY <1>1 DEF Put16, Get16, Octet, Sized

\* put_uint32 and get_uint32 are inverse.
LEMMA Octets32 ==
    ASSUME NEW w \in Uint32
    PROVE  Sized(Put32(w), 4) /\ Get32(Put32(w), 1) = w
<1>1. w[1] \in Uint16 /\ w[2] \in Uint16 /\ w = <<w[1], w[2]>>
  BY DEF Uint32
<1>2. /\ Sized(Put16(w[1]), 2) /\ Get16(Put16(w[1]), 1) = w[1]
      /\ Sized(Put16(w[2]), 2) /\ Get16(Put16(w[2]), 1) = w[2]
  BY <1>1, Octets16
<1>3. Sized(Put32(w), 2 + 2)
  BY <1>2, Join DEF Put32
<1>4. Get16(Put32(w), 1) = w[1]
  BY <1>2, First16 DEF Put32
<1>5. Get16(Put32(w), 2 + 1) = w[2]
  BY <1>2, Second16 DEF Put32
<1>6. QED
  BY <1>1, <1>3, <1>4, <1>5 DEF Get32

\* put_uint64 and get_uint64 are inverse.
LEMMA Octets64 ==
    ASSUME NEW t \in Uint64
    PROVE  Sized(Put64(t), 8) /\ Get64(Put64(t), 1) = t
<1>1. t[1] \in Uint32 /\ t[2] \in Uint32 /\ t = <<t[1], t[2]>>
  BY DEF Uint64
<1>2. /\ Sized(Put32(t[1]), 4) /\ Get32(Put32(t[1]), 1) = t[1]
      /\ Sized(Put32(t[2]), 4) /\ Get32(Put32(t[2]), 1) = t[2]
  BY <1>1, Octets32
<1>3. Sized(Put64(t), 4 + 4)
  BY <1>2, Join DEF Put64
<1>4. Get32(Put64(t), 1) = t[1]
  BY <1>2, First32 DEF Put64
<1>5. Get32(Put64(t), 4 + 1) = t[2]
  BY <1>2, Second32 DEF Put64
<1>6. QED
  BY <1>1, <1>3, <1>4, <1>5 DEF Get64

\* The uint64_t of either part stand as its other integers do:
LEMMA First64 ==
    ASSUME NEW a, NEW b, NEW m, NEW n, Sized(a, m), Sized(b, n), NEW i \in 1..(m - 7)
    PROVE  Get64(a \o b, i) = Get64(a, i)
<1>1. i \in 1..(m - 3) /\ i + 4 \in 1..(m - 3)
  BY SizedNat
<1>2. QED
  BY <1>1, First32 DEF Get64

\* those of the second part behind the first one.
LEMMA Second64 ==
    ASSUME NEW a, NEW b, NEW m, NEW n, Sized(a, m), Sized(b, n), NEW i \in 1..(n - 7)
    PROVE  Get64(a \o b, m + i) = Get64(b, i)
<1>1. /\ i \in 1..(n - 3) /\ i + 4 \in 1..(n - 3)
      /\ (m + i) + 4 = m + (i + 4)
  BY SizedNat
<1>2. /\ Get32(a \o b, m + i) = Get32(b, i)
      /\ Get32(a \o b, m + (i + 4)) = Get32(b, i + 4)
  BY <1>1, Second32
<1>3. QED
  BY <1>1, <1>2 DEF Get64

-----------------------------------------------------------------------------
\* Session packets: the signature and the command come first.
Start(command) == Put16(Signature) \o Put16(command)

\* What a session packet starts with, and what follows it.
LEMMA StartOf ==
    ASSUME NEW command \in Uint16, NEW body, NEW n, Sized(body, n)
    PROVE  /\ Sized(Start(command), 4) /\ Sized(Start(command) \o body, 4 + n)
           /\ Get16(Start(command) \o body, 3) = command
<1>1. /\ Sized(Put16(Signature), 2)
      /\ Sized(Put16(command), 2) /\ Get16(Put16(command), 1) = command
  <2>1. Signature \in Uint16
    BY Uint16Is DEF Signature
  <2>2. QED
    BY <2>1, Octets16
<1>2. Sized(Start(command), 2 + 2)
  BY <1>1, Join DEF Start
<1>3. Get16(Start(command), 2 + 1) = command
  BY <1>1, Second16 DEF Start
<1>4. Get16(Start(command) \o body, 3) = Get16(Start(command), 3)
  BY <1>2, First16
<1>5. QED
  BY <1>2, <1>3, <1>4, Join

\* A body of two uint32_t.
LEMMA TwoOf ==
    ASSUME NEW command \in Uint16, NEW v \in Uint32, NEW w \in Uint32
    PROVE  LET s == Start(command) \o (Put32(v) \o Put32(w))
           IN  /\ Sized(s, 12) /\ Get16(s, 3) = command
               /\ Get32(s, 5) = v /\ Get32(s, 9) = w
<1> DEFINE body == Put32(v) \o Put32(w)
<1>1. /\ Sized(Put32(v), 4) /\ Get32(Put32(v), 1) = v
      /\ Sized(Put32(w), 4) /\ Get32(Put32(w), 1) = w
  BY Octets32
<1>2. Sized(body, 4 + 4)
  BY <1>1, Join
<1>3. Get32(body, 1) = v
  BY <1>1, First32
<1>4. Get32(body, 4 + 1) = w
  BY <1>1, Second32
<1> HIDE DEF body
<1>5. /\ Sized(Start(command), 4) /\ Sized(Start(command) \o body, 4 + 8)
      /\ Get16(Start(command) \o body, 3) = command
  BY <1>2, StartOf
<1>6. Get32(Start(command) \o body, 4 + 1) = Get32(body, 1)
  BY <1>2, <1>5, Second32
<1>7. Get32(Start(command) \o body, 4 + 5) = Get32(body, 5)
  BY <1>2, <1>5, Second32
<1>8. QED
  BY <1>3, <1>4, <1>5, <1>6, <1>7 DEF body

\* The commands are told apart, and fit a uint16_t.
LEMMA Commands == /\ FEEDBACK \in Uint16 /\ FEEDBACK \notin Exchange
                  /\ BITRATE \in Uint16 /\ BITRATE \notin Exchange /\ BITRATE # FEEDBACK
                  /\ SYNC \in Uint16 /\ SYNC \notin Exchange /\ SYNC # FEEDBACK /\ SYNC # BITRATE
                  /\ Exchange \subseteq Uint16
  BY Uint16Is DEF FEEDBACK, BITRATE, SYNC, Exchange, INV, ACCEPT, REJECT, END

\* A FEEDBACK is read as it was packed.
THEOREM FeedbackReadsBack ==
    ASSUME NEW c \in FeedbackPacket
    PROVE  NetApplemidiUnpack(NetApplemidiPack(c)) = c
<1> DEFINE s == Start(FEEDBACK) \o (Put32(c.ssrc) \o Put32(c.apple_seq))
<1>1. /\ c.command = FEEDBACK /\ c.ssrc \in Uint32 /\ c.apple_seq \in Uint32
      /\ c = [command |-> FEEDBACK, ssrc |-> c.ssrc, apple_seq |-> c.apple_seq]
  BY DEF FeedbackPacket
<1>2. /\ Sized(s, 12) /\ Get16(s, 3) = FEEDBACK
      /\ Get32(s, 5) = c.ssrc /\ Get32(s, 9) = c.apple_seq
  BY <1>1, TwoOf, Commands
<1>3. NetApplemidiPack(c) = s
  BY <1>1, Commands DEF NetApplemidiPack, Start
<1> HIDE DEF s
<1>4. ~(Len(s) < 4) /\ ~(Len(s) - 4 < 8)
  BY <1>2 DEF Sized
<1>5. NetApplemidiUnpack(s) = [command |-> Get16(s, 3), ssrc |-> Get32(s, 5),
                               apple_seq |-> Get32(s, 9)]
  BY <1>2, <1>4, Commands DEF NetApplemidiUnpack
<1>6. QED
  BY <1>1, <1>2, <1>3, <1>5

\* A BITRATE likewise.
THEOREM BitrateReadsBack ==
    ASSUME NEW c \in BitratePacket
    PROVE  NetApplemidiUnpack(NetApplemidiPack(c)) = c
<1> DEFINE s == Start(BITRATE) \o (Put32(c.ssrc) \o Put32(c.limit))
<1>1. /\ c.command = BITRATE /\ c.ssrc \in Uint32 /\ c.limit \in Uint32
      /\ c = [command |-> BITRATE, ssrc |-> c.ssrc, limit |-> c.limit]
  BY DEF BitratePacket
<1>2. /\ Sized(s, 12) /\ Get16(s, 3) = BITRATE
      /\ Get32(s, 5) = c.ssrc /\ Get32(s, 9) = c.limit
  BY <1>1, TwoOf, Commands
<1>3. NetApplemidiPack(c) = s
  BY <1>1, Commands DEF NetApplemidiPack, Start
<1> HIDE DEF s
<1>4. ~(Len(s) < 4) /\ ~(Len(s) - 4 < 8)
  BY <1>2 DEF Sized
<1>5. NetApplemidiUnpack(s) = [command |-> Get16(s, 3), ssrc |-> Get32(s, 5),
                               limit |-> Get32(s, 9)]
  BY <1>2, <1>4, Commands DEF NetApplemidiUnpack
<1>6. QED
  BY <1>1, <1>2, <1>3, <1>5

-----------------------------------------------------------------------------
\* What stands behind the first part of a packet.
Part(s, i, j) == SubSeq(s, i, j)

\* All that follows the first part is the second one.
LEMMA PartBehind ==
    ASSUME NEW a, NEW b, NEW m, NEW n, Sized(a, m), Sized(b, n)
    PROVE  Part(a \o b, m + 1, m + n) = b
<1>1. m \in Nat /\ n \in Nat /\ a \in Seq(Octet) /\ b \in Seq(Octet)
  BY SizedNat DEF Sized
<1>2. Sized(a \o b, m + n)
  BY Join
<1>3. CASE n = 0
  <2>1. m + n < m + 1 /\ m + 1 \in Int /\ m + n \in Int
    BY <1>1, <1>3
  <2>2. SubSeq(a \o b, m + 1, m + n) = <<>>
    BY <2>1, SubSeqEmpty
  <2>3. b = <<>>
    BY <1>1, <1>3, EmptySeq DEF Sized
  <2>4. QED
    BY <2>2, <2>3 DEF Part
<1>4. CASE n # 0
  <2>1. /\ m + 1 \in (m + 1)..(m + n) /\ m + n \in (m + 1)..(m + n)
        /\ (m + 1) - m = 1 /\ (m + n) - m = n
    BY <1>1, <1>4
  <2>2. SubSeq(a \o b, m + 1, m + n) = SubSeq(b, (m + 1) - m, (m + n) - m)
    <3>1. Len(a) = m /\ Len(b) = n
      BY DEF Sized
    <3>2. /\ m + 1 \in (Len(a) + 1)..(Len(a) + Len(b))
          /\ m + n \in (Len(a) + 1)..(Len(a) + Len(b))
      BY <2>1, <3>1
    <3>3. SubSeq(a \o b, m + 1, m + n) = SubSeq(b, (m + 1) - Len(a), (m + n) - Len(a))
      BY <1>1, <3>2, SubSeqOfConcat2
    <3>4. QED
      BY <3>1, <3>3, Zenon
  <2>3. SubSeq(b, 1, n) = b
    BY <1>1, SubSeqFull DEF Sized
  <2>4. QED
    BY <2>1, <2>2, <2>3, Zenon DEF Part
<1>5. QED
  BY <1>3, <1>4

\* The name at the end of an exchange is found up to its NUL.
LEMMA StrDupOf ==
    ASSUME NEW a, NEW m, Sized(a, m), NEW name \in CString \cup {NULL}
    PROVE  StrDup(a \o name, m + 1) = name
<1> DEFINE n == Len(name)
           s == a \o name
           Nul(j) == s[j] = 0 /\ \A k \in (m + 1)..(j - 1) : s[k] # 0
<1>1. name \in Seq(Octet)
  <2>1. CASE name = NULL
    BY <2>1, EmptySeq DEF NULL
  <2>2. CASE name \in CString
    BY <2>2 DEF CString
  <2>3. QED
    BY <2>1, <2>2
<1>2. Sized(name, n) /\ m \in Nat /\ n \in Nat
  BY <1>1, SizedNat, LenProperties DEF Sized
<1>3. Len(s) = m + n
  BY <1>2, Join DEF Sized
<1>4. CASE name = NULL
  <2>1. n = 0
    BY <1>4 DEF NULL
  <2>2. Len(s) < m + 1
    BY <1>2, <1>3, <2>1
  <2>3. QED
    BY <1>4, <2>2 DEF StrDup
<1>5. CASE name \in CString
  <2>1. n \in Nat \ {0} /\ name[n] = 0 /\ \A i \in 1..(n - 1) : name[i] # 0
    BY <1>1, <1>2, <1>5, EmptySeq DEF CString
  <2>2. \A i \in 1..n : At(s, m + i) = At(name, i)
    BY <1>2, InSecond
  <2>3. \A j \in (m + 1)..(m + n) : j - m \in 1..n /\ s[j] = name[j - m]
    <3> SUFFICES ASSUME NEW j \in (m + 1)..(m + n)
                 PROVE  j - m \in 1..n /\ s[j] = name[j - m]
      OBVIOUS
    <3>1. j - m \in 1..n /\ m + (j - m) = j
      BY <1>2
    <3>2. At(s, m + (j - m)) = At(name, j - m)
      BY <2>2, <3>1
    <3>3. QED
      BY <3>1, <3>2, Zenon DEF At
  <2> HIDE DEF n, s
  <2>4. m + n \in (m + 1)..(m + n) /\ Nul(m + n)
    <3>1. m + n \in (m + 1)..(m + n) /\ (m + n) - m = n
      BY <1>2, <2>1
    <3>2. s[m + n] = 0
      BY <2>1, <2>3, <3>1
    <3>3. ASSUME NEW k \in (m + 1)..((m + n) - 1)
          PROVE  s[k] # 0
      <4>1. k \in (m + 1)..(m + n) /\ k - m \in 1..(n - 1)
        BY <1>2, <2>1
      <4>2. QED
        BY <2>1, <2>3, <4>1
    <3>4. QED
      BY <3>1, <3>2, <3>3
  <2>5. \A j \in (m + 1)..(m + n) : Nul(j) => j = m + n
    <3> SUFFICES ASSUME NEW j \in (m + 1)..(m + n), s[j] = 0, j # m + n
                 PROVE  FALSE
      OBVIOUS
    <3>1. j - m \in 1..(n - 1)
      BY <1>2, <2>1
    <3>2. QED
      BY <2>1, <2>3, <3>1
  <2>6. (CHOOSE j \in (m + 1)..(m + n) : Nul(j)) = m + n
    BY <2>4, <2>5
  <2>7. ~(Len(s) < m + 1)
    BY <1>2, <1>3, <2>1
  <2>8. StrDup(s, m + 1) = SubSeq(s, m + 1, m + n)
    BY <1>3, <2>6, <2>7 DEF StrDup
  <2>9. SubSeq(a \o name, m + 1, m + n) = name
    BY <1>2, PartBehind DEF Part
  <2>10. QED
    BY <2>8, <2>9 DEF s
<1>6. QED
  BY <1>4, <1>5

\* The name is found behind the start of the packet and the three integers.
LEMMA StrDupAfter ==
    ASSUME NEW a, NEW b, NEW m, NEW n, Sized(a, m), Sized(b, n), NEW name \in CString \cup {NULL}
    PROVE  StrDup(a \o (b \o name), (m + n) + 1) = name
<1>1. a \in Seq(Octet) /\ b \in Seq(Octet) /\ name \in Seq(Octet)
  <2>1. CASE name = NULL
    BY <2>1, EmptySeq DEF NULL, Sized
  <2>2. CASE name \in CString
    BY <2>2 DEF CString, Sized
  <2>3. QED
    BY <2>1, <2>2
<1>2. (a \o b) \o name = a \o (b \o name)
  BY <1>1, ConcatAssociative
<1>3. Sized(a \o b, m + n)
  BY Join
<1>4. StrDup((a \o b) \o name, (m + n) + 1) = name
  BY <1>3, StrDupOf
<1>5. QED
  BY <1>2, <1>4, Zenon

\* INV, OK, NO and BY are read as they were packed, with a name or without.
THEOREM ExchangeReadsBack ==
    ASSUME NEW c \in ExchangePacket
    PROVE  NetApplemidiUnpack(NetApplemidiPack(c)) = c
<1> DEFINE v == Put32(c.version)
           w == Put32(c.initiator)
           x == Put32(c.ssrc)
           body == ((v \o w) \o x) \o c.name
           s == Start(c.command) \o body
           n == Len(c.name)
<1>1. /\ c.command \in Exchange /\ c.version \in Uint32 /\ c.initiator \in Uint32
      /\ c.ssrc \in Uint32 /\ c.name \in CString \cup {NULL}
      /\ c = [command |-> c.command, version |-> c.version, initiator |-> c.initiator,
              ssrc |-> c.ssrc, name |-> c.name]
  BY DEF ExchangePacket
<1>2. /\ Sized(v, 4) /\ Get32(v, 1) = c.version
      /\ Sized(w, 4) /\ Get32(w, 1) = c.initiator
      /\ Sized(x, 4) /\ Get32(x, 1) = c.ssrc
  BY <1>1, Octets32
<1>3. Sized(c.name, n) /\ n \in Nat
  <2>1. CASE c.name = NULL
    BY <2>1, EmptySeq DEF NULL, Sized
  <2>2. CASE c.name \in CString
    BY <2>2, LenProperties DEF CString, Sized
  <2>3. QED
    BY <1>1, <2>1, <2>2
<1>4. NetApplemidiPack(c) = s
  BY <1>1, Commands DEF NetApplemidiPack, Start
<1> HIDE DEF v, w, x, n
<1>5. Sized(v \o w, 4 + 4) /\ Get32(v \o w, 1) = c.version /\ Get32(v \o w, 4 + 1) = c.initiator
  BY <1>2, Join, First32, Second32
<1>6. /\ Sized((v \o w) \o x, 8 + 4)
      /\ Get32((v \o w) \o x, 1) = c.version
      /\ Get32((v \o w) \o x, 5) = c.initiator
      /\ Get32((v \o w) \o x, 8 + 1) = c.ssrc
  <2>1. Get32((v \o w) \o x, 1) = Get32(v \o w, 1) /\ Get32((v \o w) \o x, 5) = Get32(v \o w, 5)
    BY <1>2, <1>5, First32
  <2>2. Sized((v \o w) \o x, 8 + 4) /\ Get32((v \o w) \o x, 8 + 1) = Get32(x, 1)
    BY <1>2, <1>5, Join, Second32
  <2>3. QED
    BY <1>2, <1>5, <2>1, <2>2
<1>7. /\ Sized(body, 12 + n)
      /\ Get32(body, 1) = c.version /\ Get32(body, 5) = c.initiator /\ Get32(body, 9) = c.ssrc
  BY <1>3, <1>6, Join, First32
<1> DEFINE front == (v \o w) \o x
<1>8. Sized(Start(c.command), 4)
  <2>1. c.command \in Uint16
    BY <1>1, Commands
  <2>2. QED
    BY <1>6, <2>1, StartOf
<1>9. Sized(front, 12)
  BY <1>6
<1> HIDE DEF front
<1>10. StrDup(Start(c.command) \o (front \o c.name), (4 + 12) + 1) = c.name
  BY <1>1, <1>8, <1>9, StrDupAfter
<1>11. body = front \o c.name
  BY DEF front
<1> HIDE DEF body
<1>12. Sized(s, 4 + (12 + n)) /\ Get16(s, 3) = c.command
  <2>1. c.command \in Uint16
    BY <1>1, Commands
  <2>2. QED
    BY <1>7, <2>1, StartOf
<1>13. Get32(s, 5) = c.version /\ Get32(s, 9) = c.initiator /\ Get32(s, 13) = c.ssrc
  <2>1. 1 \in 1..((12 + n) - 3) /\ 5 \in 1..((12 + n) - 3) /\ 9 \in 1..((12 + n) - 3)
    BY <1>3
  <2>2. /\ Get32(s, 4 + 1) = Get32(body, 1) /\ Get32(s, 4 + 5) = Get32(body, 5)
        /\ Get32(s, 4 + 9) = Get32(body, 9)
    BY <1>7, <1>8, <2>1, Second32
  <2>3. QED
    BY <1>7, <2>2
<1> HIDE DEF s
<1>14. ~(Len(s) < 4) /\ ~(Len(s) - 4 < 8)
  BY <1>3, <1>12 DEF Sized
<1>15. NetApplemidiUnpack(s) = [command |-> Get16(s, 3), version |-> Get32(s, 5),
          initiator |-> Get32(s, 9), ssrc |-> Get32(s, 13), name |-> StrDup(s, 17)]
  BY <1>1, <1>12, <1>14, Commands DEF NetApplemidiUnpack
<1>16. QED
  BY <1>1, <1>4, <1>10, <1>12, <1>13, <1>15, <1>11 DEF s

\* CK with its three timestamps likewise.
THEOREM SyncReadsBack ==
    ASSUME NEW c \in SyncPacket
    PROVE  NetApplemidiUnpack(NetApplemidiPack(c)) = c
<1> DEFINE x  == Put32(c.ssrc)
           b1 == x \o <<c.count>>
           b2 == b1 \o c.padding
           t1 == Put64(c.timestamp1)
           t2 == Put64(c.timestamp2)
           t3 == Put64(c.timestamp3)
           b3 == b2 \o t1
           b4 == b3 \o t2
           b5 == b4 \o t3
           s  == Start(SYNC) \o b5
<1> HIDE DEF x, t1, t2, t3, b1, b2, b3, b4, b5, s
<1>1. /\ c.command = SYNC /\ c.ssrc \in Uint32 /\ c.count \in Octet
      /\ c.padding \in Octet \X Octet \X Octet /\ c.timestamp1 \in Uint64
      /\ c.timestamp2 \in Uint64 /\ c.timestamp3 \in Uint64
      /\ c = [command |-> SYNC, ssrc |-> c.ssrc, count |-> c.count, padding |-> c.padding,
              timestamp1 |-> c.timestamp1, timestamp2 |-> c.timestamp2,
              timestamp3 |-> c.timestamp3]
  BY DEF SyncPacket
<1>2. /\ Sized(x, 4) /\ Get32(x, 1) = c.ssrc
      /\ Sized(t1, 8) /\ Get64(t1, 1) = c.timestamp1
      /\ Sized(t2, 8) /\ Get64(t2, 1) = c.timestamp2
      /\ Sized(t3, 8) /\ Get64(t3, 1) = c.timestamp3
  BY <1>1, Octets32, Octets64 DEF x, t1, t2, t3
<1>3. Sized(<<c.count>>, 1) /\ At(<<c.count>>, 1) = c.count
  BY <1>1 DEF Sized, At
<1>4. /\ Sized(c.padding, 3)
      /\ c.padding = <<At(c.padding, 1), At(c.padding, 2), At(c.padding, 3)>>
  <2>1. PICK i \in Octet, j \in Octet, k \in Octet : c.padding = <<i, j, k>>
    BY <1>1
  <2>2. QED
    BY <2>1 DEF Sized, At
<1>5. NetApplemidiPack(c) = s
  BY <1>1, Commands DEF NetApplemidiPack, Start, s, b5, b4, b3, b2, b1, x, t1, t2, t3
<1>6. Sized(b1, 4 + 1) /\ Get32(b1, 1) = c.ssrc /\ At(b1, 4 + 1) = c.count
  BY <1>2, <1>3, Join, First32, InSecond DEF b1
<1>7. /\ Sized(b2, 5 + 3) /\ Get32(b2, 1) = c.ssrc /\ At(b2, 5) = c.count
      /\ At(b2, 5 + 1) = At(c.padding, 1) /\ At(b2, 5 + 2) = At(c.padding, 2)
      /\ At(b2, 5 + 3) = At(c.padding, 3)
  BY <1>4, <1>6, Join, First32, InFirst, InSecond DEF b2
<1>8. /\ Sized(b3, 8 + 8) /\ Get32(b3, 1) = c.ssrc /\ At(b3, 5) = c.count
      /\ At(b3, 6) = At(c.padding, 1) /\ At(b3, 7) = At(c.padding, 2)
      /\ At(b3, 8) = At(c.padding, 3) /\ Get64(b3, 8 + 1) = c.timestamp1
  BY <1>2, <1>7, Join, First32, InFirst, Second64 DEF b3
<1>9. /\ Sized(b4, 16 + 8) /\ Get32(b4, 1) = c.ssrc /\ At(b4, 5) = c.count
      /\ At(b4, 6) = At(c.padding, 1) /\ At(b4, 7) = At(c.padding, 2)
      /\ At(b4, 8) = At(c.padding, 3) /\ Get64(b4, 9) = c.timestamp1
      /\ Get64(b4, 16 + 1) = c.timestamp2
  <2>1. Sized(b4, 16 + 8)
    <3>1. Sized(b3, 16) /\ Sized(t2, 8)
      BY <1>2, <1>8
    <3>2. QED
      BY <3>1, Join DEF b4
  <2>2. Get32(b4, 1) = c.ssrc
    BY <1>2, <1>8, First32 DEF b4
  <2>3. /\ At(b4, 5) = c.count /\ At(b4, 6) = At(c.padding, 1)
        /\ At(b4, 7) = At(c.padding, 2) /\ At(b4, 8) = At(c.padding, 3)
    BY <1>2, <1>8, InFirst DEF b4
  <2>4. Get64(b4, 9) = c.timestamp1
    BY <1>2, <1>8, First64 DEF b4
  <2>5. Get64(b4, 16 + 1) = c.timestamp2
    BY <1>2, <1>8, Second64 DEF b4
  <2>6. QED
    BY <2>1, <2>2, <2>3, <2>4, <2>5
<1>10. /\ Sized(b5, 24 + 8) /\ Get32(b5, 1) = c.ssrc /\ At(b5, 5) = c.count
       /\ At(b5, 6) = At(c.padding, 1) /\ At(b5, 7) = At(c.padding, 2)
       /\ At(b5, 8) = At(c.padding, 3) /\ Get64(b5, 9) = c.timestamp1
       /\ Get64(b5, 17) = c.timestamp2 /\ Get64(b5, 24 + 1) = c.timestamp3
  <2>1. Sized(b5, 24 + 8)
    <3>1. Sized(b4, 24) /\ Sized(t3, 8)
      BY <1>2, <1>9
    <3>2. QED
      BY <3>1, Join DEF b5
  <2>2. Get32(b5, 1) = c.ssrc
    BY <1>2, <1>9, First32 DEF b5
  <2>3. /\ At(b5, 5) = c.count /\ At(b5, 6) = At(c.padding, 1)
        /\ At(b5, 7) = At(c.padding, 2) /\ At(b5, 8) = At(c.padding, 3)
    BY <1>2, <1>9, InFirst DEF b5
  <2>4. Get64(b5, 9) = c.timestamp1 /\ Get64(b5, 17) = c.timestamp2
    BY <1>2, <1>9, First64 DEF b5
  <2>5. Get64(b5, 24 + 1) = c.timestamp3
    BY <1>2, <1>9, Second64 DEF b5
  <2>6. QED
    BY <2>1, <2>2, <2>3, <2>4, <2>5
<1>11. Sized(Start(SYNC), 4) /\ Sized(s, 4 + 32) /\ Get16(s, 3) = SYNC
  BY <1>10, StartOf, Commands DEF s
<1>12. /\ Get32(s, 4 + 1) = c.ssrc /\ At(s, 4 + 5) = c.count
       /\ At(s, 4 + 6) = At(c.padding, 1) /\ At(s, 4 + 7) = At(c.padding, 2)
       /\ At(s, 4 + 8) = At(c.padding, 3)
  BY <1>10, <1>11, Second32, InSecond DEF s
<1>13. /\ Get64(s, 4 + 9) = c.timestamp1 /\ Get64(s, 4 + 17) = c.timestamp2
       /\ Get64(s, 4 + 25) = c.timestamp3
  BY <1>10, <1>11, Second64 DEF s
<1>14. ~(Len(s) < 4) /\ ~(Len(s) - 4 < 32)
  BY <1>11 DEF Sized
<1>15. NetApplemidiUnpack(s) = [command |-> Get16(s, 3), ssrc |-> Get32(s, 5), count |-> s[9],
          padding |-> <<s[10], s[11], s[12]>>, timestamp1 |-> Get64(s, 13),
          timestamp2 |-> Get64(s, 21), timestamp3 |-> Get64(s, 29)]
  BY <1>11, <1>14, Commands DEF NetApplemidiUnpack
<1>16. s[9] = c.count /\ <<s[10], s[11], s[12]>> = c.padding
  BY <1>4, <1>12 DEF At
<1>17. QED
  BY <1>1, <1>5, <1>11, <1>12, <1>13, <1>15, <1>16

\* Every session packet is read as it was packed, whatever its fields hold.
THEOREM SessionReadsBack ==
    \A c \in SessionPacket : NetApplemidiUnpack(NetApplemidiPack(c)) = c
  BY ExchangeReadsBack, FeedbackReadsBack, BitrateReadsBack, SyncReadsBack DEF SessionPacket

-----------------------------------------------------------------------------
\* The RTP header.
Bits(v, p, x, cc) == v * 64 + p * 32 + x * 16 + cc

\* The four fields of the first octet of the header.
LEMMA FirstOctet ==
    ASSUME NEW v \in 0..3, NEW p \in 0..1, NEW x \in 0..1, NEW cc \in 0..15
    PROVE  /\ Bits(v, p, x, cc) \in Octet /\ Bits(v, p, x, cc) \div 64 = v
           /\ (Bits(v, p, x, cc) \div 32) % 2 = p
           /\ (Bits(v, p, x, cc) \div 16) % 2 = x /\ Bits(v, p, x, cc) % 16 = cc
  BY DEF Octet, Bits

\* The two of the second octet.
LEMMA SecondOctet ==
    ASSUME NEW m \in 0..1, NEW pt \in 0..127
    PROVE  LET o == m * 128 + pt IN o \in Octet /\ o \div 128 = m /\ o % 128 = pt
  BY DEF Octet

\* An RTP packet is read as it was packed: every field of the header, and the
\* payload without an octet of the header.
THEOREM RtpReadsBack ==
    ASSUME NEW h \in RtpHeader, NEW payload \in Seq(Octet)
    PROVE  /\ RtpUnpack(RtpPack(h) \o payload) = h
           /\ RtpPayload(RtpPack(h) \o payload) = payload
<1> DEFINE o1 == Bits(h.v, h.p, h.x, h.cc)
           o2 == h.m * 128 + h.pt
           b1 == <<o1, o2>>
           q == Put16(h.seq)
           t == Put32(h.timestamp)
           x == Put32(h.ssrc)
           b2 == b1 \o q
           b3 == b2 \o t
           b4 == b3 \o x
           s == b4 \o payload
           n == Len(payload)
<1> HIDE DEF o1, o2, q, t, x, n, b1, b2, b3, b4, s
<1>1. /\ h.v \in 0..3 /\ h.p \in 0..1 /\ h.x \in 0..1 /\ h.cc \in 0..15 /\ h.m \in 0..1
      /\ h.pt \in 0..127 /\ h.seq \in Uint16 /\ h.timestamp \in Uint32 /\ h.ssrc \in Uint32
      /\ h = [v |-> h.v, p |-> h.p, x |-> h.x, cc |-> h.cc, m |-> h.m, pt |-> h.pt,
              seq |-> h.seq, timestamp |-> h.timestamp, ssrc |-> h.ssrc]
  BY DEF RtpHeader
<1>2. /\ o1 \in Octet /\ o1 \div 64 = h.v /\ (o1 \div 32) % 2 = h.p
      /\ (o1 \div 16) % 2 = h.x /\ o1 % 16 = h.cc
  BY <1>1, FirstOctet DEF o1
<1>3. o2 \in Octet /\ o2 \div 128 = h.m /\ o2 % 128 = h.pt
  BY <1>1, SecondOctet, ZenonT(60) DEF o2
<1>4. /\ Sized(q, 2) /\ Get16(q, 1) = h.seq
      /\ Sized(t, 4) /\ Get32(t, 1) = h.timestamp
      /\ Sized(x, 4) /\ Get32(x, 1) = h.ssrc
  BY <1>1, Octets16, Octets32 DEF q, t, x
<1>5. Sized(payload, n) /\ n \in Nat
  BY LenProperties DEF Sized, n
<1>6. RtpPack(h) \o payload = s
  BY DEF RtpPack, Bits, s, b4, b3, b2, b1, o1, o2, q, t, x
<1>7. Sized(b1, 2) /\ At(b1, 1) = o1 /\ At(b1, 2) = o2
  BY <1>2, <1>3 DEF Sized, At, b1
<1>8. Sized(b2, 2 + 2) /\ At(b2, 1) = o1 /\ At(b2, 2) = o2 /\ Get16(b2, 2 + 1) = h.seq
  <2>1. Sized(b2, 2 + 2)
    BY <1>4, <1>7, Join DEF b2
  <2>2. At(b2, 1) = o1 /\ At(b2, 2) = o2
    BY <1>4, <1>7, InFirst DEF b2
  <2>3. Get16(b2, 2 + 1) = h.seq
    BY <1>4, <1>7, Second16 DEF b2
  <2>4. QED
    BY <2>1, <2>2, <2>3
<1>9. /\ Sized(b3, 4 + 4) /\ At(b3, 1) = o1 /\ At(b3, 2) = o2 /\ Get16(b3, 3) = h.seq
      /\ Get32(b3, 4 + 1) = h.timestamp
  <2>1. Sized(b3, 4 + 4)
    BY <1>4, <1>8, Join DEF b3
  <2>2. At(b3, 1) = o1 /\ At(b3, 2) = o2
    BY <1>4, <1>8, InFirst DEF b3
  <2>3. Get16(b3, 3) = h.seq
    BY <1>4, <1>8, First16 DEF b3
  <2>4. Get32(b3, 4 + 1) = h.timestamp
    BY <1>4, <1>8, Second32 DEF b3
  <2>5. QED
    BY <2>1, <2>2, <2>3, <2>4
<1>10. /\ Sized(b4, 8 + 4) /\ At(b4, 1) = o1 /\ At(b4, 2) = o2 /\ Get16(b4, 3) = h.seq
       /\ Get32(b4, 5) = h.timestamp /\ Get32(b4, 8 + 1) = h.ssrc
  <2>1. Sized(b4, 8 + 4)
    <3>1. Sized(b3, 8) /\ Sized(x, 4)
      BY <1>4, <1>9
    <3>2. QED
      BY <3>1, Join DEF b4
  <2>2. At(b4, 1) = o1 /\ At(b4, 2) = o2
    BY <1>4, <1>9, InFirst DEF b4
  <2>3. Get16(b4, 3) = h.seq
    BY <1>4, <1>9, First16 DEF b4
  <2>4. Get32(b4, 5) = h.timestamp
    BY <1>4, <1>9, First32 DEF b4
  <2>5. Get32(b4, 8 + 1) = h.ssrc
    BY <1>4, <1>9, Second32 DEF b4
  <2>6. QED
    BY <2>1, <2>2, <2>3, <2>4, <2>5
<1>11. /\ Sized(s, 12 + n) /\ At(s, 1) = o1 /\ At(s, 2) = o2 /\ Get16(s, 3) = h.seq
       /\ Get32(s, 5) = h.timestamp /\ Get32(s, 9) = h.ssrc
  <2>1. Sized(s, 12 + n)
    <3>1. Sized(b4, 12) /\ Sized(payload, n)
      BY <1>5, <1>10
    <3>2. QED
      BY <3>1, Join DEF s
  <2>2. At(s, 1) = o1 /\ At(s, 2) = o2
    BY <1>5, <1>10, InFirst DEF s
  <2>3. Get16(s, 3) = h.seq
    BY <1>5, <1>10, First16 DEF s
  <2>4. Get32(s, 5) = h.timestamp /\ Get32(s, 9) = h.ssrc
    BY <1>5, <1>10, First32 DEF s
  <2>5. QED
    BY <2>1, <2>2, <2>3, <2>4
<1>12. Part(s, 12 + 1, 12 + n) = payload
  <2>1. PICK m : m = 12
    BY Zenon
  <2>2. Sized(b4, m) /\ Sized(payload, n)
    BY <1>5, <1>10, <2>1
  <2>3. Part(s, m + 1, m + n) = payload
    BY <2>2, PartBehind DEF s
  <2>4. QED
    BY <2>1, <2>3, Zenon
<1>13. s[1] = o1 /\ s[2] = o2 /\ Len(s) = 12 + n
  BY <1>11 DEF At, Sized
<1>14. RtpUnpack(s) = h
  BY <1>1, <1>2, <1>3, <1>11, <1>13 DEF RtpUnpack
<1>15. RtpPayload(s) = payload
  BY <1>12, <1>13 DEF RtpPayload, Part
<1>16. QED
  BY <1>6, <1>14, <1>15

-----------------------------------------------------------------------------
\* The MIDI list.  What stands between two other parts of a packet:
LEMMA Between ==
    ASSUME NEW a, NEW b, NEW d, NEW m, NEW n, NEW k, Sized(a, m), Sized(b, n), Sized(d, k)
    PROVE  Part((a \o b) \o d, m + 1, m + n) = b
<1> DEFINE ab == a \o b
<1>1. m \in Nat /\ n \in Nat /\ k \in Nat
  BY SizedNat
<1>2. Sized(ab, m + n)
  BY Join
<1>3. Part(ab, m + 1, m + n) = b
  BY PartBehind
<1> HIDE DEF ab
<1>4. CASE n = 0
  <2>1. m + n < m + 1 /\ m + 1 \in Int /\ m + n \in Int
    BY <1>1, <1>4
  <2>2. Part(ab \o d, m + 1, m + n) = <<>> /\ Part(ab, m + 1, m + n) = <<>>
    BY <2>1, SubSeqEmpty DEF Part
  <2>3. QED
    BY <1>3, <2>2, Zenon DEF ab
<1>5. CASE n # 0
  <2>1. m + 1 \in 1..(m + n) /\ m + n \in 1..(m + n)
    BY <1>1, <1>5
  <2>2. ab \in Seq(Octet) /\ d \in Seq(Octet) /\ Len(ab) = m + n
    BY <1>2, Zenon DEF Sized
  <2>3. m + 1 \in 1..Len(ab) /\ m + n \in 1..Len(ab)
    BY <2>1, <2>2, Zenon
  <2>4. Part(ab \o d, m + 1, m + n) = Part(ab, m + 1, m + n)
    BY <2>2, <2>3, SubSeqOfConcat1 DEF Part
  <2>5. QED
    BY <1>3, <2>4, Zenon DEF ab
<1>6. QED
  BY <1>4, <1>5

\* The lengths that take a second octet, those of them that fit one octet, and
\* the two parts of a length of 12 bits.
Long == 16..4095
LongOctet == 16..255
High(n) == n \div 256
Low(n)  == n % 256
Length12(o, l) == (o % 16) * 256 + l

\* The octet of the flags, with four bits of the length, and how it is read.
FlagsAnd(b, j, z, p, l) == b * 128 + j * 64 + z * 32 + p * 16 + l
Flagged(f, l) == FlagsAnd(f.B, f.J, f.Z, f.P, l)
Reads(o, f, l) == /\ o \div 128 = f.B /\ (o \div 64) % 2 = f.J /\ (o \div 32) % 2 = f.Z
                  /\ (o \div 16) % 2 = f.P /\ o % 16 = l

\* The flags and the length read what the octet was made of.
LEMMA FlagOctet ==
    ASSUME NEW f \in ListFlags, NEW l, l \in 0..15
    PROVE  Flagged(f, l) \in Octet /\ Reads(Flagged(f, l), f, l)
<1>1. f.B \in 0..1 /\ f.J \in 0..1 /\ f.Z \in 0..1 /\ f.P \in 0..1
  BY DEF ListFlags
<1>2. ASSUME NEW b \in 0..1, NEW j \in 0..1, NEW z \in 0..1, NEW p \in 0..1
      PROVE  LET o == FlagsAnd(b, j, z, p, l)
             IN  /\ o \in Octet /\ o \div 128 = b /\ (o \div 64) % 2 = j
                 /\ (o \div 32) % 2 = z /\ (o \div 16) % 2 = p /\ o % 16 = l
  BY DEF FlagsAnd, Octet
<1>3. QED
  BY <1>1, <1>2 DEF Flagged, Reads

\* A length of 12 bits is its upper four and its lower eight.
LEMMA TwoOctets ==
    \A n \in Long : /\ High(n) \in 0..15 /\ Low(n) \in Octet /\ High(n) * 256 + Low(n) = n
                    /\ n \in Nat
  BY DEF Octet, Long, High, Low

\* The two forms of the header of the list.
LEMMA ShortForm ==
    ASSUME NEW f \in ListFlags, NEW list, NEW n, n \in 0..15, Len(list) = n
    PROVE  PackList(f, list) = <<Flagged(f, n)>> \o list
<1>1. Len(list) <= 15
  OBVIOUS
<1>2. FlagBits(f) + Len(list) = Flagged(f, n)
  BY DEF Flagged, FlagsAnd, FlagBits
<1>3. QED
  BY <1>1, <1>2 DEF PackList

\* The form of a list of 16 octets or more.
LEMMA LongForm ==
    ASSUME NEW f \in ListFlags, NEW list, NEW n, n \in Long, Len(list) = n
    PROVE  PackList(f, list) = <<Flagged(f, High(n)), Low(n)>> \o list
<1>1. (Len(list) \div 256) % 16 = High(n) /\ ~(Len(list) <= 15) /\ Len(list) % 256 = Low(n)
  BY DEF Long, High, Low
<1>2. FlagBits(f) + ((Len(list) \div 256) % 16) = Flagged(f, High(n))
  BY <1>1 DEF Flagged, FlagsAnd, FlagBits
<1>3. QED
  BY <1>1, <1>2 DEF PackList

\* The flags are the record of their four bits.
LEMMA FlagsAre ==
    \A f \in ListFlags : [B |-> f.B, J |-> f.J, Z |-> f.Z, P |-> f.P] = f
  BY DEF ListFlags

\* A list behind the header of its section and before the rest of the packet.
InHeader(i, m) == i \in 1..m

\* Its octets are found behind the header,
LEMMA InPacket ==
    ASSUME NEW a, NEW list, NEW tail, NEW m, NEW n, NEW k,
           Sized(a, m), Sized(list, n), Sized(tail, k)
    PROVE  /\ Sized((a \o list) \o tail, (m + n) + k)
           /\ Part((a \o list) \o tail, m + 1, m + n) = list
<1> DEFINE b == a \o list
           s == b \o tail
<1> HIDE DEF b, s
<1>1. Sized(b, m + n)
  BY Join DEF b
<1>2. Sized(s, (m + n) + k)
  BY <1>1, Join DEF s
<1>3. Part(s, m + 1, m + n) = list
  BY Between DEF s, b
<1>4. QED
  BY <1>2, <1>3, Zenon DEF s, b

\* and those of the header before them.
LEMMA OfHeader ==
    ASSUME NEW a, NEW list, NEW tail, NEW m, NEW n, NEW k,
           Sized(a, m), Sized(list, n), Sized(tail, k), NEW i, InHeader(i, m)
    PROVE  At((a \o list) \o tail, i) = At(a, i)
<1> DEFINE b == a \o list
           s == b \o tail
<1> HIDE DEF b, s
<1>1. m \in Nat /\ n \in Nat
  BY SizedNat
<1>2. Sized(b, m + n)
  BY Join DEF b
<1>3. i \in 1..m /\ i \in 1..(m + n)
  BY <1>1 DEF InHeader
<1>4. At(b, i) = At(a, i)
  BY <1>3, InFirst DEF b
<1>5. At(s, i) = At(b, i)
  BY <1>2, <1>3, InFirst DEF s
<1>6. QED
  BY <1>4, <1>5, Zenon DEF s, b

\* Reading a section of which B is clear, and one of which it is set, whose header
\* has one octet and two.
One(m) == m = 1
Two(m) == m = 2
AtLeast(s, n) == s # <<>> /\ Len(s) \in Nat /\ n <= Len(s)
ShortBits(s, n, o) == s[1] = o /\ o \div 128 = 0 /\ o % 16 = n /\ AtLeast(s, 1 + n)
LongBits(s, n, o, l) == /\ s[1] = o /\ s[2] = l /\ o \div 128 = 1 /\ (o % 16) * 256 + l = n
                        /\ AtLeast(s, 2 + n)

ShortResult(s, n, o) ==
    [list  |-> Part(s, 1 + 1, 1 + n), valid |-> TRUE,
     flags |-> [B |-> 0, J |-> (o \div 64) % 2, Z |-> (o \div 32) % 2, P |-> (o \div 16) % 2]]
LongResult(s, n, o) ==
    [list  |-> Part(s, 2 + 1, 2 + n), valid |-> TRUE,
     flags |-> [B |-> 1, J |-> (o \div 64) % 2, Z |-> (o \div 32) % 2, P |-> (o \div 16) % 2]]

\* What midi_payload_unpack makes of a section of which B is clear,
LEMMA ShortIs ==
    ASSUME NEW s, NEW n \in Nat, NEW o, ShortBits(s, n, o)
    PROVE  UnpackList(s) = ShortResult(s, n, o)
<1>1. s[1] = o /\ o \div 128 = 0 /\ o % 16 = n /\ s # <<>> /\ Len(s) \in Nat /\ 1 + n <= Len(s)
  BY DEF ShortBits, AtLeast
<1>2. ~(Len(s) < (2 - 1) + n) /\ (2 - 1) + n = 1 + n /\ 0 # 1 /\ 1 + 1 = 2
  BY <1>1
<1>3. QED
  BY <1>1, <1>2, ZenonT(60) DEF UnpackList, Part, ShortResult

\* and of one of which it is set.
LEMMA LongIs ==
    ASSUME NEW s, NEW n \in Nat, NEW o, NEW l, LongBits(s, n, o, l)
    PROVE  UnpackList(s) = LongResult(s, n, o)
<1>1. /\ s[1] = o /\ s[2] = l /\ o \div 128 = 1 /\ (o % 16) * 256 + l = n /\ s # <<>>
      /\ Len(s) \in Nat /\ 2 + n <= Len(s)
  BY DEF LongBits, AtLeast
<1>2. ~(Len(s) < (3 - 1) + n) /\ Len(s) # 1 /\ (3 - 1) + n = 2 + n /\ 2 + 1 = 3
  BY <1>1
<1>3. s[1] \div 128 = 1 /\ (s[1] % 16) * 256 + s[2] = n
  BY <1>1
<1>4. ~(s = <<>> \/ (s[1] \div 128 = 1 /\ Len(s) = 1) \/ Len(s) < (3 - 1) + n)
  BY <1>1, <1>2
<1>5. UnpackList(s) = [list  |-> SubSeq(s, 3, (3 - 1) + n), valid |-> TRUE,
                       flags |-> [B |-> 1, J |-> (s[1] \div 64) % 2, Z |-> (s[1] \div 32) % 2,
                                  P |-> (s[1] \div 16) % 2]]
  BY <1>3, <1>4, ZenonT(60) DEF UnpackList
<1>6. QED
  BY <1>1, <1>2, <1>5 DEF Part, LongResult

\* The flags it returns are those that were packed,
LEMMA ShortFlags ==
    ASSUME NEW s, NEW n, NEW o, NEW f \in ListFlags, f.B = 0, NEW l, Reads(o, f, l)
    PROVE  ShortResult(s, n, o) = [list |-> Part(s, 1 + 1, 1 + n), valid |-> TRUE, flags |-> f]
  BY FlagsAre DEF Reads, ShortResult

\* in either form.
LEMMA LongFlags ==
    ASSUME NEW s, NEW n, NEW o, NEW f \in ListFlags, f.B = 1, NEW l, Reads(o, f, l)
    PROVE  LongResult(s, n, o) = [list |-> Part(s, 2 + 1, 2 + n), valid |-> TRUE, flags |-> f]
  BY FlagsAre DEF Reads, LongResult

\* Both facts together, for a section without B,
LEMMA UnpackShort ==
    ASSUME NEW s, NEW m, One(m), NEW n \in Nat, NEW o, NEW f \in ListFlags, f.B = 0,
           At(s, 1) = o, Reads(o, f, n), AtLeast(s, m + n)
    PROVE  UnpackList(s) = [list |-> Part(s, m + 1, m + n), valid |-> TRUE, flags |-> f]
<1>1. ShortBits(s, n, o)
  BY DEF One, At, Reads, ShortBits
<1>2. UnpackList(s) = ShortResult(s, n, o)
  BY <1>1, ShortIs
<1>3. QED
  BY <1>2, ShortFlags DEF One

\* and for one with it.
LEMMA UnpackLong ==
    ASSUME NEW s, NEW m, Two(m), NEW n \in Nat, NEW h, NEW o, NEW l, NEW f \in ListFlags,
           f.B = 1, At(s, 1) = o, At(s, 2) = l, Reads(o, f, h), Length12(o, l) = n,
           AtLeast(s, m + n)
    PROVE  UnpackList(s) = [list |-> Part(s, m + 1, m + n), valid |-> TRUE, flags |-> f]
<1>1. LongBits(s, n, o, l)
  BY DEF Two, At, Reads, Length12, LongBits
<1>2. UnpackList(s) = LongResult(s, n, o)
  BY <1>1, LongIs
<1>3. QED
  BY <1>2, LongFlags DEF Two

\* The section and what follows it.
Section(s, f, list, tail) == s = PackList(f, list) \o tail
Header(s, a, list, tail) == s = (a \o list) \o tail

\* The list behind a header of m octets,
LEMMA Parts ==
    ASSUME NEW a, NEW list, NEW tail, NEW m, NEW n, NEW k, NEW s, Sized(a, m),
           Sized(list, n), Sized(tail, k), Header(s, a, list, tail), InHeader(1, m)
    PROVE  Part(s, m + 1, m + n) = list /\ AtLeast(s, m + n)
<1>1. Sized(s, (m + n) + k) /\ Part(s, m + 1, m + n) = list
  BY InPacket DEF Header
<1>2. m \in Nat /\ n \in Nat /\ k \in Nat
  BY SizedNat
<1>3. 1 <= m
  BY <1>2 DEF InHeader
<1>4. s # <<>> /\ Len(s) \in Nat /\ m + n <= Len(s)
  BY <1>1, <1>2, <1>3 DEF Sized
<1>5. QED
  BY <1>1, <1>4 DEF AtLeast

\* and the octets of that header.
LEMMA HeaderOctet ==
    ASSUME NEW a, NEW list, NEW tail, NEW m, NEW n, NEW k, NEW s, Sized(a, m),
           Sized(list, n), Sized(tail, k), Header(s, a, list, tail), NEW i, InHeader(i, m)
    PROVE  At(s, i) = At(a, i)
  BY OfHeader DEF Header

\* A section of up to 15 octets has what UnpackShort asks for.
LEMMA ShortSection ==
    ASSUME NEW f \in ListFlags, NEW n \in 0..15, NEW k, NEW list, NEW tail,
           Sized(list, n), Sized(tail, k), NEW s, Section(s, f, list, tail), NEW m, One(m)
    PROVE  /\ At(s, 1) = Flagged(f, n) /\ Reads(Flagged(f, n), f, n)
           /\ Part(s, m + 1, m + n) = list /\ AtLeast(s, m + n)
<1> DEFINE o == Flagged(f, n)
           a == <<o>>
<1>1. o \in Octet /\ Reads(o, f, n)
  BY FlagOctet
<1> HIDE DEF o
<1>2. Sized(a, m) /\ At(a, 1) = o /\ InHeader(1, m)
  BY <1>1 DEF Sized, At, InHeader, One
<1>3. PackList(f, list) = a \o list
  BY ShortForm DEF o, Sized
<1>4. Header(s, a, list, tail)
  BY <1>3, Zenon DEF Header, Section
<1> HIDE DEF a
<1>5. Part(s, m + 1, m + n) = list /\ AtLeast(s, m + n) /\ At(s, 1) = At(a, 1)
  BY <1>2, <1>4, Parts, HeaderOctet
<1>6. QED
  BY <1>1, <1>2, <1>5 DEF o

\* A longer one has what UnpackLong asks for, if B is set.
LEMMA LongSection ==
    ASSUME NEW f \in ListFlags, NEW n \in Long, NEW k, NEW list, NEW tail,
           Sized(list, n), Sized(tail, k), NEW s, Section(s, f, list, tail), NEW m, Two(m)
    PROVE  /\ At(s, 1) = Flagged(f, High(n)) /\ At(s, 2) = Low(n)
           /\ Reads(Flagged(f, High(n)), f, High(n))
           /\ Length12(Flagged(f, High(n)), Low(n)) = n
           /\ Part(s, m + 1, m + n) = list /\ AtLeast(s, m + n)
<1> DEFINE o == Flagged(f, High(n))
           l == Low(n)
           a == <<o, l>>
<1>1. High(n) \in 0..15 /\ l \in Octet /\ High(n) * 256 + l = n
  BY TwoOctets
<1>2. o \in Octet /\ Reads(o, f, High(n))
  BY <1>1, FlagOctet
<1> HIDE DEF o, l
<1>3. Length12(o, l) = n
  BY <1>1, <1>2 DEF Length12, Reads
<1>4. Sized(a, m) /\ At(a, 1) = o /\ At(a, 2) = l /\ InHeader(1, m) /\ InHeader(2, m)
  BY <1>1, <1>2 DEF Sized, At, InHeader, Two
<1>5. PackList(f, list) = a \o list
  BY LongForm DEF Sized, o, l
<1>6. Header(s, a, list, tail)
  BY <1>5, Zenon DEF Header, Section
<1> HIDE DEF a
<1>7. /\ Part(s, m + 1, m + n) = list /\ AtLeast(s, m + n)
      /\ At(s, 1) = At(a, 1) /\ At(s, 2) = At(a, 2)
  BY <1>4, <1>6, Parts, HeaderOctet
<1>8. QED
  BY <1>2, <1>3, <1>4, <1>7 DEF o, l

\* A sequence of octets has its length.
LEMMA Measured ==
    ASSUME NEW list \in Seq(Octet)
    PROVE  Sized(list, Len(list)) /\ Len(list) \in Nat
  BY LenProperties DEF Sized

UpTo(n, m) == n \in 0..m

\* A length that is at most 15 is one of 16.
LEMMA UpTo15 == \A n \in Nat : n <= 15 => UpTo(n, 15)
  BY DEF UpTo

\* Headers of one and two octets.
LEMMA Headers == One(1) /\ Two(2)
  BY DEF One, Two

\* Three cases: a short section without B is read back,
LEMMA ShortRead ==
    ASSUME NEW f \in ListFlags, f.B = 0, NEW n, UpTo(n, 15), NEW k, NEW list, NEW tail,
           Sized(list, n), Sized(tail, k), NEW s, Section(s, f, list, tail), NEW m, One(m)
    PROVE  UnpackList(s) = [list |-> list, valid |-> TRUE, flags |-> f]
<1>1. n \in 0..15 /\ n \in Nat
  BY DEF UpTo
<1>2. /\ At(s, 1) = Flagged(f, n) /\ Reads(Flagged(f, n), f, n)
      /\ Part(s, m + 1, m + n) = list /\ AtLeast(s, m + n)
  BY <1>1, ShortSection
<1>3. QED
  BY <1>1, <1>2, UnpackShort

\* a long one with B is,
LEMMA LongRead ==
    ASSUME NEW f \in ListFlags, f.B = 1, NEW n \in Long, NEW k, NEW list, NEW tail,
           Sized(list, n), Sized(tail, k), NEW s, Section(s, f, list, tail), NEW m, Two(m)
    PROVE  UnpackList(s) = [list |-> list, valid |-> TRUE, flags |-> f]
<1>1. /\ At(s, 1) = Flagged(f, High(n)) /\ At(s, 2) = Low(n)
      /\ Reads(Flagged(f, High(n)), f, High(n))
      /\ Length12(Flagged(f, High(n)), Low(n)) = n
      /\ Part(s, m + 1, m + n) = list /\ AtLeast(s, m + n)
  BY LongSection
<1>2. n \in Nat
  BY TwoOctets
<1>3. QED
  BY <1>1, <1>2, UnpackLong

\* The upper four bits of a length up to 255 are clear.
LEMMA OneOctet == \A n \in LongOctet : n \in Long /\ High(n) = 0
  BY DEF LongOctet, Long, High

\* a long one without B is taken for an empty one.
LEMMA LongNotRead ==
    ASSUME NEW f \in ListFlags, f.B = 0, NEW n \in LongOctet, NEW k, NEW list, NEW tail,
           Sized(list, n), Sized(tail, k), NEW s, Section(s, f, list, tail), NEW m, Two(m)
    PROVE  UnpackList(s) = [list |-> <<>>, valid |-> TRUE, flags |-> f]
<1>1. n \in Long /\ High(n) = 0 /\ n \in Nat
  BY OneOctet, TwoOctets
<1>2. At(s, 1) = Flagged(f, High(n)) /\ Reads(Flagged(f, High(n)), f, High(n)) /\ AtLeast(s, m + n)
  BY <1>1, LongSection
<1>3. ShortBits(s, 0, Flagged(f, High(n)))
  BY <1>1, <1>2 DEF ShortBits, AtLeast, At, Reads, Two
<1>4. UnpackList(s) = ShortResult(s, 0, Flagged(f, High(n)))
  BY <1>3, ShortIs
<1>5. Part(s, 1 + 1, 1 + 0) = <<>>
  BY SubSeqEmpty DEF Part
<1>6. QED
  BY <1>2, <1>4, <1>5, ShortFlags

\* A list of up to 15 octets is read back whatever follows it, if B is not set.
THEOREM ShortListReadsBack ==
    ASSUME NEW f \in ListFlags, f.B = 0, NEW list \in Seq(Octet), Len(list) <= 15,
           NEW tail \in Seq(Octet)
    PROVE  UnpackList(PackList(f, list) \o tail) = [list |-> list, valid |-> TRUE, flags |-> f]
<1>1. UpTo(Len(list), 15) /\ Sized(list, Len(list)) /\ Sized(tail, Len(tail))
  BY Measured, UpTo15, Zenon
<1>2. Section(PackList(f, list) \o tail, f, list, tail)
  BY Zenon DEF Section
<1>3. QED
  BY <1>1, <1>2, Headers, ShortRead, Zenon

\* A list of 16 to 4095 octets is read back if B is set.
THEOREM LongListReadsBack ==
    ASSUME NEW f \in ListFlags, f.B = 1, NEW list \in Seq(Octet), Len(list) \in Long,
           NEW tail \in Seq(Octet)
    PROVE  UnpackList(PackList(f, list) \o tail) = [list |-> list, valid |-> TRUE, flags |-> f]
<1>1. Sized(list, Len(list)) /\ Sized(tail, Len(tail))
  BY Measured, Zenon
<1>2. Section(PackList(f, list) \o tail, f, list, tail)
  BY Zenon DEF Section
<1>3. QED
  BY <1>1, <1>2, Headers, LongRead, ZenonT(60)

\* What raveloxmidi sends, with B never set: a list of 16 to 255 octets is read as
\* an empty one, and nothing reports it.
THEOREM LongListLost ==
    ASSUME NEW f \in ListFlags, f.B = 0, NEW list \in Seq(Octet), Len(list) \in LongOctet,
           NEW tail \in Seq(Octet)
    PROVE  UnpackList(PackList(f, list) \o tail) = [list |-> <<>>, valid |-> TRUE, flags |-> f]
<1>1. Sized(list, Len(list)) /\ Sized(tail, Len(tail))
  BY Measured, Zenon
<1>2. Section(PackList(f, list) \o tail, f, list, tail)
  BY Zenon DEF Section
<1>3. QED
  BY <1>1, <1>2, Headers, LongNotRead, Zenon
-----------------------------------------------------------------------------
\* The number in a packet is that of its connection, in 16 bits.
Low16(n) == n % 65536

\* It is no greater.
LEMMA Mod16 ==
    ASSUME NEW n \in Nat
    PROVE  Low16(n) \in Uint16 /\ Low16(n) \in Nat /\ Low16(n) <= n
<1>1. Low16(n) \in Nat /\ Low16(n) <= 65535 /\ Low16(n) <= n
  BY DEF Low16
<1>2. QED
  BY <1>1, Uint16Is

\* The header of an RTP packet is 12 octets, the first of which tells it from a
\* session packet.
LEMMA RtpHeaderOctets ==
    ASSUME NEW h \in RtpHeader
    PROVE  Sized(RtpPack(h), 12)
<1> DEFINE o1 == Bits(h.v, h.p, h.x, h.cc)
           o2 == h.m * 128 + h.pt
           b1 == <<o1, o2>>
           q == Put16(h.seq)
           t == Put32(h.timestamp)
           x == Put32(h.ssrc)
<1> HIDE DEF o1, o2, b1, q, t, x
<1>1. /\ h.v \in 0..3 /\ h.p \in 0..1 /\ h.x \in 0..1 /\ h.cc \in 0..15 /\ h.m \in 0..1
      /\ h.pt \in 0..127 /\ h.seq \in Uint16 /\ h.timestamp \in Uint32 /\ h.ssrc \in Uint32
  BY DEF RtpHeader
<1>2. o1 \in Octet
  BY <1>1, FirstOctet DEF o1
<1>3. o2 \in Octet
  BY <1>1, SecondOctet DEF o2
<1>4. Sized(q, 2) /\ Sized(t, 4) /\ Sized(x, 4)
  BY <1>1, Octets16, Octets32 DEF q, t, x
<1>5. Sized(b1, 2)
  BY <1>2, <1>3 DEF Sized, b1
<1>6. Sized(b1 \o q, 4)
  BY <1>4, <1>5, Join
<1>7. Sized((b1 \o q) \o t, 8)
  BY <1>4, <1>6, Join
<1>8. Sized(((b1 \o q) \o t) \o x, 12)
  BY <1>4, <1>7, Join
<1>9. RtpPack(h) = ((b1 \o q) \o t) \o x
  BY DEF RtpPack, Bits, b1, o1, o2, q, t, x
<1>10. QED
  BY <1>8, <1>9

\* Version 2 is not the signature of a session packet.
LEMMA Version2 ==
    ASSUME NEW s, RtpUnpack(s).v = 2
    PROVE  ~IsSession(s)
<1>1. s[1] \div 64 = 2
  BY DEF RtpUnpack
<1>2. QED
  BY <1>1 DEF IsSession

\* The section of a MIDI list is octets.
LEMMA PackListOctets ==
    ASSUME NEW f \in ListFlags, NEW list \in Seq(Octet), Len(list) <= 256
    PROVE  PackList(f, list) \in Seq(Octet)
<1> DEFINE n == Len(list)
<1>1. n \in Nat /\ n <= 256
  BY LenProperties
<1>10. \A k \in Nat : k <= 256 => k \in 0..15 \/ k \in Long
  BY DEF Long
<1>11. n \in 0..15 \/ n \in Long
  BY <1>1, <1>10, Zenon
<1>2. CASE n \in 0..15
  <2>1. n \in 0..15
    BY <1>2
  <2>2. PackList(f, list) = <<Flagged(f, n)>> \o list
    BY <2>1, ShortForm
  <2>3. Flagged(f, n) \in Octet
    BY <2>1, FlagOctet
  <2> DEFINE a == <<Flagged(f, n)>>
  <2>4. a \in Seq(Octet)
    BY <2>3
  <2> HIDE DEF a
  <2>5. a \o list \in Seq(Octet)
    BY <2>4, ConcatProperties
  <2>6. QED
    BY <2>2, <2>5 DEF a
<1>3. CASE n \in Long
  <2>1. n \in Long
    BY <1>3
  <2>2. High(n) \in 0..15 /\ Low(n) \in Octet
    BY <2>1, TwoOctets
  <2>3. PackList(f, list) = <<Flagged(f, High(n)), Low(n)>> \o list
    BY <2>1, LongForm
  <2>4. Flagged(f, High(n)) \in Octet
    BY <2>2, FlagOctet
  <2> DEFINE a == <<Flagged(f, High(n)), Low(n)>>
  <2>5. a \in Seq(Octet)
    BY <2>2, <2>4
  <2> HIDE DEF a
  <2>6. a \o list \in Seq(Octet)
    BY <2>5, ConcatProperties
  <2>7. QED
    BY <2>3, <2>6 DEF a
<1>4. QED
  BY <1>2, <1>3, <1>11

\* The octets of an RTP packet of version 2.
Carries(s, h, section, tail) ==
    /\ h \in RtpHeader /\ h.v = 2 /\ section \in Seq(Octet) /\ tail \in Seq(Octet)
    /\ s = RtpPack(h) \o section \o tail

\* An RTP packet of version 2 is read as it was packed, and for no session packet.
LEMMA RtpSent ==
    ASSUME NEW s, NEW h, NEW section, NEW tail, Carries(s, h, section, tail)
    PROVE  /\ s \in Seq(Octet) /\ RtpUnpack(s) = h /\ RtpPayload(s) = section \o tail
           /\ ~IsSession(s)
<1> USE DEF Carries
<1> DEFINE a == RtpPack(h)
           payload == section \o tail
<1>1. a \in Seq(Octet)
  BY RtpHeaderOctets DEF Sized
<1>2. payload \in Seq(Octet)
  BY ConcatProperties
<1>3. RtpUnpack(a \o payload) = h /\ RtpPayload(a \o payload) = payload
  BY <1>2, RtpReadsBack
<1> HIDE DEF a
<1>4. s = a \o payload
  BY <1>1, ConcatAssociative DEF a
<1> HIDE DEF payload
<1>5. a \o payload \in Seq(Octet)
  BY <1>1, <1>2, ConcatProperties
<1>6. RtpUnpack(s).v = 2
  BY <1>3, <1>4
<1>7. ~IsSession(s)
  BY <1>6, Version2
<1>8. QED
  BY <1>3, <1>4, <1>5, <1>7 DEF payload

\* A FEEDBACK is read as it was packed, and for a session packet.
LEMMA FeedbackSent ==
    ASSUME NEW ssrc \in Uint32, NEW r \in Uint16, NEW c,
           c = [command |-> FEEDBACK, ssrc |-> ssrc, apple_seq |-> <<r, 0>>],
           NEW s, s = NetApplemidiPack(c)
    PROVE  s \in Seq(Octet) /\ NetApplemidiUnpack(s) = c /\ IsSession(s)
<1> DEFINE w == <<r, 0>>
           a == Put16(Signature)
           b == Put16(FEEDBACK)
           d == Put32(ssrc) \o Put32(w)
<1>1. w \in Uint32
  BY Uint16Is DEF Uint32
<1>2. c \in FeedbackPacket
  BY <1>1 DEF FeedbackPacket
<1>3. NetApplemidiUnpack(s) = c
  BY <1>2, FeedbackReadsBack
<1>4. Signature \in Uint16 /\ FEEDBACK \in Uint16
  BY Uint16Is DEF Signature, FEEDBACK
<1>5. Sized(a, 2) /\ Sized(b, 2) /\ Sized(Put32(ssrc), 4) /\ Sized(Put32(w), 4)
  BY <1>1, <1>4, Octets16, Octets32
<1>6. At(a, 1) = 255 /\ At(a, 2) = 255
  BY DEF At, Put16, Signature
<1>7. s = (a \o b) \o d
  BY Commands DEF NetApplemidiPack
<1> HIDE DEF a, b, w
<1>8. Sized(d, 8)
  BY <1>5, Join
<1>9. Sized(a \o b, 2 + 2)
  BY <1>5, Join
<1>10. At(a \o b, 1) = 255 /\ At(a \o b, 2) = 255
  BY <1>5, <1>6, InFirst
<1> DEFINE e == a \o b
<1> HIDE DEF d, e
<1>11. Sized(e \o d, 12)
  BY <1>8, <1>9, Join DEF e
<1>12. At(e \o d, 1) = 255 /\ At(e \o d, 2) = 255
  BY <1>8, <1>9, <1>10, InFirst DEF e
<1>13. s = e \o d
  BY <1>7 DEF e
<1>14. s \in Seq(Octet) /\ Len(s) = 12 /\ s[1] = 255 /\ s[2] = 255
  BY <1>11, <1>12, <1>13, ZenonT(60) DEF At, Sized
<1>15. QED
  BY <1>3, <1>14 DEF IsSession

-----------------------------------------------------------------------------
\* The length of the data of a command, that of its list, and that with a delta time.
DataLength(n)  == n \in 0..254
ListLength(n)  == n \in 1..255
DeltaLength(n) == n \in 2..256
Fits(n)        == n <= 256

\* The lengths by the form they take.
LEMMA LengthForms ==
    ASSUME NEW k, ListLength(k) \/ DeltaLength(k)
    PROVE  Fits(k) /\ ((k <= 15 /\ ~(k > 15)) \/ (k > 15 /\ k \in Long))
  BY DEF Long, ListLength, DeltaLength, Fits

\* The octets of a command.
LEMMA CommandForm ==
    ASSUME NEW m \in Command
    PROVE  /\ m.status \in 128..255 /\ m.data \in Seq(Octet) /\ DataLength(Len(m.data))
           /\ m = [status |-> m.status, data |-> m.data] /\ m # NoMidi
           /\ m \in [status : 128..255, data : Seq(Octet)]
<1>1. m \in [status : 128..255, data : Seq(Octet)] /\ Len(m.data) <= 254
  BY CommandAssumption
<1>2. m.data \in Seq(Octet) /\ m.status \in 128..255 /\ m = [status |-> m.status, data |-> m.data]
  BY <1>1
<1>3. DataLength(Len(m.data))
  <2>1. \A n \in Nat : n <= 254 => DataLength(n)
    BY DEF DataLength
  <2>2. Len(m.data) \in Nat
    BY <1>2, LenProperties
  <2>3. QED
    BY <1>1, <2>1, <2>2
<1>4. m # NoMidi
  <2>1. NoMidi.status = 0
    BY DEF NoMidi
  <2>2. 0 \notin 128..255
    OBVIOUS
  <2>3. QED
    BY <1>2, <2>1, <2>2
<1>5. QED
  BY <1>1, <1>2, <1>3, <1>4

\* An octet in front of others.
LEMMA OctetBefore ==
    ASSUME NEW o \in Octet, NEW s \in Seq(Octet), NEW t, t = <<o>> \o s
    PROVE  /\ t \in Seq(Octet) /\ t # <<>> /\ Len(t) = Len(s) + 1
           /\ Head(t) = o /\ Tail(t) = s
<1> DEFINE a == <<o>>
<1>1. a \in Seq(Octet) /\ Len(a) = 1 /\ a[1] = o
  OBVIOUS
<1> HIDE DEF a
<1>2. /\ t \in Seq(Octet) /\ Len(t) = 1 + Len(s) /\ Len(s) \in Nat
      /\ \A i \in 1..(1 + Len(s)) : t[i] = IF i <= 1 THEN a[i] ELSE s[i - 1]
  BY <1>1, ConcatProperties, LenProperties DEF a
<1>3. t # <<>> /\ t[1] = o
  BY <1>1, <1>2, EmptySeq
<1>4. Head(t) = o
  BY <1>2, <1>3
<1>5. /\ Tail(t) \in Seq(Octet) /\ Len(Tail(t)) = Len(t) - 1
      /\ \A i \in 1..Len(Tail(t)) : Tail(t)[i] = t[i + 1]
  BY <1>2, <1>3, HeadTailProperties
<1> DEFINE u == Tail(t)
<1>6. Len(u) = Len(s)
  BY <1>2, <1>5
<1>7. \A i \in 1..Len(s) : u[i] = s[i]
  <2>1. TAKE i \in 1..Len(s)
  <2>2. u[i] = t[i + 1]
    BY <1>5, <1>6
  <2>3. i + 1 \in 1..(1 + Len(s)) /\ ~(i + 1 <= 1) /\ (i + 1) - 1 = i
    BY <1>2
  <2>4. QED
    BY <1>2, <2>2, <2>3
<1>8. u \in Seq(Octet)
  BY <1>5
<1> HIDE DEF u
<1>9. u = s
  BY <1>6, <1>7, <1>8, SeqEqual
<1>10. QED
  BY <1>2, <1>3, <1>4, <1>9 DEF u

\* The list that is a command.
LEMMA ListForm ==
    ASSUME NEW m \in Command
    PROVE  /\ ListOf(m) \in Seq(Octet) /\ ListOf(m) # <<>> /\ Len(ListOf(m)) = Len(m.data) + 1
           /\ ListLength(Len(ListOf(m)))
           /\ Head(ListOf(m)) = m.status /\ Tail(ListOf(m)) = m.data
<1>1. m.status \in Octet
  BY CommandForm DEF Octet
<1>2. m.data \in Seq(Octet) /\ DataLength(Len(m.data))
  BY CommandForm, Zenon
<1>3. ListOf(m) = <<m.status>> \o m.data
  BY DEF ListOf
<1>4. /\ ListOf(m) \in Seq(Octet) /\ ListOf(m) # <<>> /\ Len(ListOf(m)) = Len(m.data) + 1
      /\ Head(ListOf(m)) = m.status /\ Tail(ListOf(m)) = m.data
  BY <1>1, <1>2, <1>3, OctetBefore, Zenon
<1>5. ListLength(Len(ListOf(m)))
  <2>1. \A n : DataLength(n) => ListLength(n + 1)
    BY DEF DataLength, ListLength
  <2>2. QED
    BY <1>2, <1>4, <2>1, Zenon
<1>6. QED
  BY <1>4, <1>5, Zenon

\* The same behind a delta time of one octet.
Delayed(m) == <<0>> \o ListOf(m)

\* It is one octet longer.
LEMMA DeltaForm ==
    ASSUME NEW m \in Command, NEW list, list = Delayed(m)
    PROVE  /\ list \in Seq(Octet) /\ DeltaLength(Len(list)) /\ Tail(list) = ListOf(m)
<1>1. \A o : o = 0 => o \in Octet
  BY DEF Octet
<1>2. ListOf(m) \in Seq(Octet) /\ ListLength(Len(ListOf(m)))
  BY ListForm, Zenon
<1>3. list \in Seq(Octet) /\ Len(list) = Len(ListOf(m)) + 1 /\ Tail(list) = ListOf(m)
  BY <1>1, <1>2, OctetBefore, Zenon DEF Delayed
<1>4. \A n : ListLength(n) => DeltaLength(n + 1)
  BY DEF ListLength, DeltaLength
<1>5. QED
  BY <1>2, <1>3, <1>4, Zenon

\* What midi_state_send makes of the list of a command, with or without delta time.
LEMMA ParsedCommand ==
    ASSUME NEW m \in Command, NEW f, NEW list,
           \/ f.Z = 0 /\ list = ListOf(m)
           \/ f.Z = 1 /\ Tail(list) = ListOf(m)
    PROVE  Parsed([list |-> list, valid |-> TRUE, flags |-> f]) = m
<1>1. /\ ListOf(m) # <<>> /\ Head(ListOf(m)) = m.status /\ Tail(ListOf(m)) = m.data
      /\ m = [status |-> m.status, data |-> m.data]
  BY ListForm, CommandForm
<1> DEFINE p == [list |-> list, valid |-> TRUE, flags |-> f]
           l == IF p.flags.Z = 1 THEN Tail(p.list) ELSE p.list
<1>2. l = ListOf(m)
  OBVIOUS
<1>3. Parsed(p) = IF l = <<>> THEN NoMidi ELSE [status |-> Head(l), data |-> Tail(l)]
  BY DEF Parsed
<1> HIDE DEF l, p
<1>4. Parsed(p) = m
  BY <1>1, <1>2, <1>3
<1>5. QED
  BY <1>4 DEF p

\* It makes nothing of an empty one.
LEMMA ParsedNothing ==
    ASSUME NEW f, f.Z = 0
    PROVE  Parsed([list |-> <<>>, valid |-> TRUE, flags |-> f]) = NoMidi
  BY DEF Parsed

\* A command as the receiver of connection c makes it of the packet.
ReadAs(c, meant, command) == command = meant \/ (LongList(c, meant) /\ command = NoMidi)

\* The section midi_sender_send_single writes, without B and Z.
LEMMA ProgramSection ==
    ASSUME NEW c, c[1] \in Program, NEW m \in Command, NEW f \in ListFlags, f.B = 0, f.Z = 0,
           NEW tail \in Seq(Octet)
    PROVE  /\ PackList(f, ListOf(m)) \in Seq(Octet)
           /\ ReadAs(c, m, Parsed(UnpackList(PackList(f, ListOf(m)) \o tail)))
<1> DEFINE list == ListOf(m)
           n == Len(list)
<1>1. list \in Seq(Octet) /\ ListLength(n)
  BY ListForm, Zenon
<1>2. \A k : ListLength(k) => Fits(k) /\ (k <= 15 \/ (k > 15 /\ k \in LongOctet))
  BY DEF LongOctet, ListLength, Fits
<1>3. n <= 15 \/ (n > 15 /\ n \in LongOctet)
  BY <1>1, <1>2, Zenon
<1>4. PackList(f, list) \in Seq(Octet)
  <2>1. Fits(n)
    BY <1>1, <1>2, Zenon
  <2>2. QED
    BY <1>1, <2>1, PackListOctets DEF Fits
<1>5. CASE n <= 15
  <2>1. UnpackList(PackList(f, list) \o tail) = [list |-> list, valid |-> TRUE, flags |-> f]
    BY <1>1, <1>5, ShortListReadsBack, ZenonT(60)
  <2>2. Parsed([list |-> list, valid |-> TRUE, flags |-> f]) = m
    BY ParsedCommand
  <2>3. QED
    BY <1>4, <2>1, <2>2 DEF ReadAs
<1>6. CASE n > 15 /\ n \in LongOctet
  <2>1. UnpackList(PackList(f, list) \o tail) = [list |-> <<>>, valid |-> TRUE, flags |-> f]
    BY <1>1, <1>6, LongListLost, ZenonT(60)
  <2>2. Parsed([list |-> <<>>, valid |-> TRUE, flags |-> f]) = NoMidi
    BY ParsedNothing
  <2>3. LongList(c, m)
    BY <1>6 DEF LongList
  <2>4. QED
    BY <1>4, <2>1, <2>2, <2>3 DEF ReadAs
<1>7. QED
  BY <1>3, <1>5, <1>6

\* The list of a peer: with B when it is long, with a delta time or without.
PeerList(m, f, list) ==
    /\ f \in ListFlags
    /\ list = IF f.Z = 1 THEN <<0>> \o ListOf(m) ELSE ListOf(m)
    /\ f.B = IF Len(list) > 15 THEN 1 ELSE 0

\* The section a peer writes.
LEMMA PeerSection ==
    ASSUME NEW m \in Command, NEW f, NEW list, PeerList(m, f, list), NEW tail \in Seq(Octet)
    PROVE  /\ PackList(f, list) \in Seq(Octet)
           /\ Parsed(UnpackList(PackList(f, list) \o tail)) = m
<1> USE DEF PeerList
<1> DEFINE n == Len(list)
<1>1. f.Z \in 0..1
  BY DEF ListFlags
<1>2. /\ list \in Seq(Octet) /\ (ListLength(n) \/ DeltaLength(n))
      /\ \/ f.Z = 0 /\ list = ListOf(m)
         \/ f.Z = 1 /\ Tail(list) = ListOf(m)
  <2>1. CASE f.Z = 1
    <3>1. list = Delayed(m)
      BY <2>1, Zenon DEF Delayed
    <3>2. list \in Seq(Octet) /\ DeltaLength(n) /\ Tail(list) = ListOf(m)
      BY <3>1, DeltaForm, Zenon
    <3>3. QED
      BY <2>1, <3>2, Zenon
  <2>2. CASE f.Z = 0
    <3>1. f.Z # 1
      BY <2>2
    <3>2. list = ListOf(m)
      BY <3>1, Zenon
    <3>3. list \in Seq(Octet) /\ ListLength(n)
      BY <3>2, ListForm, Zenon
    <3>4. QED
      BY <2>2, <3>2, <3>3, Zenon
  <2>3. f.Z = 0 \/ f.Z = 1
    BY <1>1
  <2>4. QED
    BY <2>1, <2>2, <2>3, Zenon
<1> HIDE DEF n
<1>3. f.B = IF n > 15 THEN 1 ELSE 0
  BY DEF n
<1>4. Fits(n) /\ ((n <= 15 /\ f.B = 0) \/ (n \in Long /\ f.B = 1))
  <2>1. Fits(n) /\ ((n <= 15 /\ ~(n > 15)) \/ (n > 15 /\ n \in Long))
    BY <1>2, LengthForms, Zenon
  <2>2. QED
    BY <1>3, <2>1, Zenon
<1>5. PackList(f, list) \in Seq(Octet)
  BY <1>2, <1>4, PackListOctets DEF n, Fits
<1>6. UnpackList(PackList(f, list) \o tail) = [list |-> list, valid |-> TRUE, flags |-> f]
  <2>1. CASE n <= 15 /\ f.B = 0
    BY <1>2, <2>1, ShortListReadsBack DEF n
  <2>2. CASE n \in Long /\ f.B = 1
    BY <1>2, <2>2, LongListReadsBack DEF n
  <2>3. QED
    BY <1>4, <2>1, <2>2
<1>7. Parsed([list |-> list, valid |-> TRUE, flags |-> f]) = m
  BY <1>2, ParsedCommand, Zenon
<1>8. QED
  BY <1>5, <1>6, <1>7

-----------------------------------------------------------------------------
\* A connection is a session seen from one side.
LEMMA ConnIs ==
    ASSUME NEW a, NEW b
    PROVE  /\ <<a, b>> \in Conn <=> a \in Node /\ b \in Node /\ {a, b} \in Link
           /\ <<a, b>> \in Conn => <<b, a>> \in Conn
<1>1. \A x, y : <<x, y>> \in Conn <=> x \in Node /\ y \in Node /\ {x, y} \in Link
  BY DEF Conn
<1>2. {a, b} = {b, a}
  OBVIOUS
<1>3. QED
  BY <1>1, <1>2

\* Its two sides.
LEMMA ConnForm ==
    ASSUME NEW c \in Conn
    PROVE  /\ c[1] \in Node /\ c[2] \in Node /\ c = <<c[1], c[2]>> /\ <<c[2], c[1]>> \in Conn
           /\ Ssrc[c] \in Uint32 /\ Ssrc[c] # <<0, 0>>
<1>1. c[1] \in Node /\ c[2] \in Node /\ c = <<c[1], c[2]>>
  BY DEF Conn
<1>2. <<c[2], c[1]>> \in Conn
  BY <1>1, ConnIs
<1>3. Ssrc[c] \in Uint32 \ {<<0, 0>>}
  BY SsrcAssumption
<1>4. QED
  BY <1>1, <1>2, <1>3

\* A SSRC is that of one connection.
LEMMA OneSsrc ==
    ASSUME NEW a, NEW b, <<a, b>> \in Conn
    PROVE  /\ FindBySsrc(a, Ssrc[<<b, a>>]) = {b}
           /\ FindBySsrc(a, Ssrc[<<a, b>>]) \subseteq {b}
<1>1. <<b, a>> \in Conn /\ b \in Node
  BY ConnIs
<1>2. \A c, d \in Conn : Ssrc[c] = Ssrc[d] => c = d
  BY SsrcAssumption
<1>3. \A x, y, u, v : <<x, y>> = <<u, v>> => x = u /\ y = v
  OBVIOUS
<1>4. ASSUME NEW x, <<a, x>> \in Conn, Ssrc[<<x, a>>] = Ssrc[<<b, a>>] PROVE x = b
  <2>1. <<x, a>> \in Conn
    BY <1>4, ConnIs
  <2>2. <<x, a>> = <<b, a>>
    BY <1>1, <1>2, <1>4, <2>1, Zenon
  <2>3. QED
    BY <1>3, <2>2, Zenon
<1>5. ASSUME NEW x, <<a, x>> \in Conn, Ssrc[<<x, a>>] = Ssrc[<<a, b>>] PROVE x = b
  <2>1. <<x, a>> \in Conn
    BY <1>5, ConnIs
  <2>2. <<x, a>> = <<a, b>>
    BY <1>2, <1>5, <2>1, Zenon
  <2>3. QED
    BY <1>3, <2>2, Zenon
<1>6. QED
  BY <1>1, <1>4, <1>5 DEF FindBySsrc

\* A command that comes to a from b has gone through the side of b only.
Behind(a, b, via) == \A T \in SUBSET Node : Apart(a, b, T) => via \subseteq T

\* So not through a;
LEMMA BehindNot ==
    ASSUME NEW a, NEW b, <<a, b>> \in Conn, NEW via, Behind(a, b, via)
    PROVE  via \subseteq Node /\ a \notin via
<1> DEFINE c == <<a, b>>
<1>1. \E T \in SUBSET Node : Apart(c[1], c[2], T)
  BY TreeAssumption
<1>2. PICK T \in SUBSET Node : Apart(a, b, T)
  BY <1>1
<1>3. via \subseteq T /\ a \notin T
  BY <1>2 DEF Behind, Apart
<1>4. QED
  BY <1>3

\* when it starts at a, and goes on to x, it has been on the side of a,
LEMMA BehindOwn ==
    ASSUME NEW a, NEW x
    PROVE  Behind(x, a, {a})
  BY DEF Behind, Apart

\* and when it goes on to another connection than the one it came from, the side
\* it came from is part of the side of a.
LEMMA BehindNext ==
    ASSUME NEW a, NEW b, NEW x, <<a, b>> \in Conn, x # b, NEW via, Behind(a, b, via)
    PROVE  Behind(x, a, via \cup {a})
<1> SUFFICES ASSUME NEW U \in SUBSET Node, Apart(x, a, U)
             PROVE  via \cup {a} \subseteq U
  BY DEF Behind
<1> DEFINE c == <<a, b>>
<1>1. \E T \in SUBSET Node : Apart(c[1], c[2], T)
  BY TreeAssumption
<1>2. PICK T \in SUBSET Node : Apart(a, b, T)
  BY <1>1
<1>3. /\ b \in T /\ a \notin T
      /\ \A l \in Link \ {{a, b}} : l \subseteq T \/ l \cap T = {}
  BY <1>2 DEF Apart
<1>4. /\ a \in U /\ x \notin U
      /\ \A l \in Link \ {{x, a}} : l \subseteq U \/ l \cap U = {}
  BY DEF Apart
<1>5. {a, b} # {x, a}
  BY <1>4
<1>6. {a, b} \in Link
  BY ConnIs
<1>7. b \in U
  BY <1>4, <1>5, <1>6
<1> DEFINE V == T \cap U
<1>8. ASSUME NEW l \in Link \ {{a, b}} PROVE l \subseteq V \/ l \cap V = {}
  <2>1. l \subseteq T \/ l \cap T = {}
    BY <1>3
  <2>2. CASE l = {x, a}
    <3>1. l \cap T = {}
      BY <1>3, <2>1, <2>2
    <3>2. QED
      BY <3>1
  <2>3. CASE l # {x, a}
    <3>1. l \subseteq U \/ l \cap U = {}
      BY <1>4, <2>3
    <3>2. QED
      BY <2>1, <3>1
  <2>4. QED
    BY <2>2, <2>3
<1>9. Apart(a, b, V)
  <2>1. b \in V /\ a \notin V
    BY <1>3, <1>7
  <2>2. QED
    BY <1>8, <2>1 DEF Apart
<1>10. V \in SUBSET Node
  OBVIOUS
<1>11. via \subseteq V
  BY <1>9, <1>10 DEF Behind
<1>12. QED
  BY <1>4, <1>11

-----------------------------------------------------------------------------
\* The number of a packet of connection c: raveloxmidi begins with 2.
Numbered(c, n) == n \in Nat /\ (c[1] \in Program => n \in 2..seq[c])

\* An RTP packet of a connection: what it is read as, and the way of its command.
RtpFine(d) ==
    LET c == <<d.from, d.to>>
        h == RtpUnpack(d.octets)
    IN  /\ c \in Conn
        /\ d.octets \in Seq(Octet) /\ ~IsSession(d.octets)
        /\ h.v = 2 /\ h.ssrc = Ssrc[c] /\ h.seq = Low16(d.number)
        /\ d.meant \in Command
        /\ ReadAs(c, d.meant, Parsed(UnpackList(RtpPayload(d.octets))))
        /\ Numbered(c, d.number)
        /\ Behind(d.to, d.from, d.via)

\* A FEEDBACK names a packet its sender has received, with the SSRC of either side.
FeedbackFine(d) ==
    /\ <<d.to, d.from>> \in Conn
    /\ d.octets \in Seq(Octet) /\ IsSession(d.octets)
    /\ d.via = {}
    /\ \E h \in handed[<<d.to, d.from>>], c \in {<<d.from, d.to>>, <<d.to, d.from>>} :
           NetApplemidiUnpack(d.octets) =
               [command |-> FEEDBACK, ssrc |-> Ssrc[c], apple_seq |-> <<h.read, 0>>]

\* What was handed over is a packet that was sent.
HandedFine(c, h) ==
    /\ Numbered(c, h.number) /\ h.read = Low16(h.number)
    /\ h.meant \in Command /\ ReadAs(c, h.meant, h.command)

\* What waits in the queue of a: a command, of a itself or from one of its connections.
Items(a) ==
    {i \in [command : Command, originator : Uint32, meant : Command, via : SUBSET Node] :
        /\ i.command = i.meant
        /\ \/ i.originator = <<0, 0>> /\ i.via = {}
           \/ \E b \in Node : /\ <<a, b>> \in Conn /\ i.originator = Ssrc[<<b, a>>]
                              /\ Behind(a, b, i.via)}

\* The event of a packet is numbered as the packet is; one of them is the last.
Journaled(c, e) == e.number \in 2..seq[c] /\ e.event.data \in Seq(0..127)
JournalFine(c) ==
    /\ journal[c] = {} \/ \E e \in journal[c] : \A f \in journal[c] : f.number <= e.number
    /\ \A e \in journal[c] : Journaled(c, e)
    /\ \A e \in logged[c] : e.number \in 2..seq[c]

Counts == /\ seq \in [Conn -> Nat] /\ \A c \in Conn : c[1] \in Program => seq[c] >= 1
          /\ entered \in 0..MaxEntered /\ doubled \in 0..MaxDoubled
Queues == /\ queue = [a \in Program |-> queue[a]]
          /\ \A a \in Program : queue[a] \in Seq(Items(a))
Underway == \A d \in net : d = Stray \/ RtpFine(d) \/ FeedbackFine(d)
Handings == /\ handed = [c \in Conn |-> handed[c]]
            /\ \A c \in Conn : \A h \in handed[c] : HandedFine(c, h)
Journals == \A c \in Conn : c[1] \in Program => JournalFine(c)

\* The inductive invariant.
WireInv == Counts /\ Queues /\ Underway /\ Handings /\ Journals /\ KeptUntilReceived

-----------------------------------------------------------------------------
\* No step takes back a number or what was handed over.
Grown == /\ seq \in [Conn -> Nat] /\ seq' \in [Conn -> Nat]
         /\ \A c \in Conn : seq[c] <= seq'[c] /\ handed[c] \subseteq handed'[c]

\* So what is said of a packet remains true: of its number,
LEMMA NumberedStays ==
    ASSUME Grown, NEW c \in Conn, NEW n, Numbered(c, n)
    PROVE  Numbered(c, n)'
<1>1. seq[c] \in Nat /\ seq'[c] \in Nat /\ seq[c] <= seq'[c]
  BY DEF Grown
<1>2. n \in Nat /\ (c[1] \in Program => n \in 2..seq[c])
  BY DEF Numbered
<1>3. c[1] \in Program => n \in 2..seq'[c]
  BY <1>1, <1>2
<1>4. QED
  BY <1>2, <1>3 DEF Numbered

\* of an RTP packet,
LEMMA RtpStays ==
    ASSUME Grown, NEW d, RtpFine(d)
    PROVE  RtpFine(d)'
<1>1. <<d.from, d.to>> \in Conn /\ Numbered(<<d.from, d.to>>, d.number)
  BY DEF RtpFine
<1>2. Numbered(<<d.from, d.to>>, d.number)'
  BY <1>1, NumberedStays
<1>3. QED
  BY <1>2 DEF RtpFine

\* of a FEEDBACK, the packet of which has been handed over,
LEMMA FeedbackStays ==
    ASSUME Grown, NEW d, FeedbackFine(d)
    PROVE  FeedbackFine(d)'
<1>1. handed[<<d.to, d.from>>] \subseteq handed'[<<d.to, d.from>>]
  BY DEF FeedbackFine, Grown
<1>2. QED
  BY <1>1 DEF FeedbackFine

\* and of a packet that was handed over.
LEMMA HandedStays ==
    ASSUME Grown, NEW c \in Conn, NEW h, HandedFine(c, h)
    PROVE  HandedFine(c, h)'
<1>1. Numbered(c, h.number)'
  BY NumberedStays DEF HandedFine
<1>2. QED
  BY <1>1 DEF HandedFine

\* A step that sends what is fine.
LEMMA UnderwayStays ==
    ASSUME Grown, Underway, NEW sent, net' \subseteq net \cup sent,
           \A d \in sent : RtpFine(d)' \/ FeedbackFine(d)'
    PROVE  Underway'
<1>1. ASSUME NEW d, d \in net' PROVE d = Stray \/ RtpFine(d)' \/ FeedbackFine(d)'
  <2>1. d \in sent \/ d = Stray \/ RtpFine(d) \/ FeedbackFine(d)
    BY <1>1 DEF Underway
  <2>2. QED
    BY <2>1, RtpStays, FeedbackStays
<1>2. QED
  BY <1>1 DEF Underway

\* A step that leaves the journals alone.
LEMMA JournalsStay ==
    ASSUME Grown, Journals, KeptUntilReceived, UNCHANGED <<journal, logged>>
    PROVE  Journals' /\ KeptUntilReceived'
<1>1. ASSUME NEW c \in Conn, c[1] \in Program PROVE JournalFine(c)'
  <2>1. seq[c] \in Nat /\ seq'[c] \in Nat /\ seq[c] <= seq'[c]
    BY DEF Grown
  <2>2. 2..seq[c] \subseteq 2..seq'[c]
    BY <2>1
  <2>3. JournalFine(c) /\ journal'[c] = journal[c] /\ logged'[c] = logged[c]
    BY <1>1 DEF Journals
  <2>4. \A e : e.number \in 2..seq[c] => e.number \in 2..seq'[c]
    BY <2>2
  <2>5. QED
    BY <2>3, <2>4 DEF JournalFine, Journaled
<1>2. ASSUME NEW c \in Conn, c[1] \in Program, NEW e \in logged[c]
      PROVE  e \in journal'[c] \/ \E h \in handed'[c] : h.number >= e.number
  <2>1. e \in journal[c] \/ \E h \in handed[c] : h.number >= e.number
    BY <1>2 DEF KeptUntilReceived
  <2>2. handed[c] \subseteq handed'[c]
    BY DEF Grown
  <2>3. QED
    BY <2>1, <2>2
<1>3. QED
  BY <1>1, <1>2 DEF Journals, KeptUntilReceived

\* A step that hands over a packet, or none.
LEMMA HandingsStay ==
    ASSUME Grown, Handings, handed' = [c \in Conn |-> handed'[c]],
           \A c \in Conn : \A h \in handed'[c] : h \in handed[c] \/ HandedFine(c, h)'
    PROVE  Handings'
<1>1. ASSUME NEW c \in Conn, NEW h, h \in handed'[c] PROVE HandedFine(c, h)'
  <2>1. h \in handed[c] => HandedFine(c, h)
    BY DEF Handings
  <2>2. QED
    BY <1>1, <2>1, HandedStays
<1>2. QED
  BY <1>1 DEF Handings

\* data_queue_add.
LEMMA QueuesAdd ==
    ASSUME Queues, NEW a \in Program, NEW i \in Items(a),
           queue' = [queue EXCEPT ![a] = Append(@, i)]
    PROVE  Queues'
<1>1. queue = [b \in Program |-> queue[b]] /\ \A b \in Program : queue[b] \in Seq(Items(b))
  BY DEF Queues
<1> DEFINE q == queue[a]
<1>2. q \in Seq(Items(a))
  BY <1>1
<1> HIDE DEF q
<1>3. Append(q, i) \in Seq(Items(a))
  BY <1>2, AppendProperties
<1>4. queue' = [b \in Program |-> IF b = a THEN Append(q, i) ELSE queue[b]]
  BY <1>1 DEF q
<1>5. \A b \in Program : queue'[b] \in Seq(Items(b))
  BY <1>1, <1>3, <1>4
<1>6. queue' = [b \in Program |-> queue'[b]]
  BY <1>4
<1>7. QED
  BY <1>5, <1>6 DEF Queues

\* Something waits in the queue.
Waiting(a) == queue[a] # <<>>

\* data_queue_next.
LEMMA QueuesTake ==
    ASSUME Queues, NEW a \in Program, Waiting(a),
           queue' = [queue EXCEPT ![a] = Tail(@)]
    PROVE  Head(queue[a]) \in Items(a) /\ Queues'
<1>1. queue = [b \in Program |-> queue[b]] /\ \A b \in Program : queue[b] \in Seq(Items(b))
  BY DEF Queues
<1> DEFINE q == queue[a]
<1>2. q \in Seq(Items(a)) /\ q # <<>>
  BY <1>1 DEF Waiting
<1> HIDE DEF q
<1>3. Head(q) \in Items(a) /\ Tail(q) \in Seq(Items(a))
  BY <1>2, HeadTailProperties
<1>4. queue' = [b \in Program |-> IF b = a THEN Tail(q) ELSE queue[b]]
  BY <1>1 DEF q
<1>5. \A b \in Program : queue'[b] \in Seq(Items(b))
  BY <1>1, <1>3, <1>4
<1>6. queue' = [b \in Program |-> queue'[b]]
  BY <1>4
<1>7. QED
  BY <1>3, <1>5, <1>6 DEF Queues, q

\* The network delivers, once or twice.
LEMMA DeliverForm ==
    ASSUME Counts, NEW d, NEW sent, Deliver(d, sent)
    PROVE  net' \subseteq net \cup sent /\ doubled' \in 0..MaxDoubled
<1>1. doubled \in 0..MaxDoubled /\ MaxDoubled \in Nat
  BY BoundsAssumption DEF Counts
<1>2. net' \subseteq net \cup sent
  BY DEF Deliver
<1>3. doubled' = doubled \/ (doubled < MaxDoubled /\ doubled' = doubled + 1)
  BY DEF Deliver
<1>4. QED
  BY <1>1, <1>2, <1>3

-----------------------------------------------------------------------------
\* A command enters: raveloxmidi is its own originator, SSRC 0.
LEMMA StepEnter ==
    ASSUME WireInv, NEW a \in Program, NEW m \in Command, Enter(a, m)
    PROVE  WireInv'
<1> DEFINE i == [command |-> m, originator |-> <<0, 0>>, meant |-> m, via |-> {}]
<1>1. Counts /\ Queues /\ Underway /\ Handings /\ Journals /\ KeptUntilReceived
  BY DEF WireInv
<1>2. /\ entered < MaxEntered /\ entered' = entered + 1
      /\ queue' = [queue EXCEPT ![a] = Append(@, i)]
      /\ UNCHANGED <<seq, journal, net, handed, logged, doubled>>
  BY DEF Enter, Queue
<1>3. Grown
  BY <1>1, <1>2 DEF Grown, Counts
<1>4. i \in Items(a)
  <2>1. <<0, 0>> \in Uint32
    BY Uint16Is DEF Uint32
  <2>2. QED
    BY <2>1 DEF Items
<1> HIDE DEF i
<1>5. Queues'
  BY <1>1, <1>2, <1>4, QueuesAdd
<1>6. Counts'
  <2>1. entered' \in 0..MaxEntered
    BY <1>1, <1>2, BoundsAssumption DEF Counts
  <2>2. QED
    BY <1>1, <1>2, <2>1 DEF Counts
<1>7. Underway'
  BY <1>1, <1>2, <1>3, UnderwayStays
<1>8. Handings'
  BY <1>1, <1>2, <1>3, HandingsStay DEF Handings
<1>9. Journals' /\ KeptUntilReceived'
  BY <1>1, <1>2, <1>3, JournalsStay
<1>10. QED
  BY <1>5, <1>6, <1>7, <1>8, <1>9 DEF WireInv

-----------------------------------------------------------------------------
\* The data of an event are seven bits.
LEMMA EventData ==
    ASSUME NEW m \in Command, HasEvent(m)
    PROVE  EventOf(m).data \in Seq(0..127)
<1>1. m.data \in Seq(Octet) /\ Len(m.data) = IF Kind(m) = 12 THEN 1 ELSE 2
  BY CommandAssumption
<1>2. \A o \in Octet : o % 128 \in 0..127
  BY DEF Octet
<1>3. CASE Kind(m) = 12
  <2>1. m.data[1] \in Octet
    BY <1>1, <1>3
  <2>2. EventOf(m).data = <<m.data[1] % 128>>
    BY <1>3 DEF EventOf, MidiProgramFromCommand
  <2>3. m.data[1] % 128 \in 0..127
    BY <1>2, <2>1
  <2>4. QED
    BY <2>2, <2>3
<1>4. CASE Kind(m) # 12
  <2>1. m.data[1] \in Octet /\ m.data[2] \in Octet
    BY <1>1, <1>4
  <2>2. EventOf(m).data = <<m.data[1] % 128, m.data[2] % 128>>
    <3>1. Kind(m) \in {8, 9, 11}
      BY <1>4 DEF HasEvent
    <3>2. EventOf(m) = MidiNoteFromCommand(m) \/ EventOf(m) = MidiControlFromCommand(m)
      BY <3>1 DEF EventOf
    <3>3. QED
      BY <3>2 DEF MidiNoteFromCommand, MidiControlFromCommand
  <2>3. m.data[1] % 128 \in 0..127 /\ m.data[2] % 128 \in 0..127
    BY <1>2, <2>1
  <2>4. QED
    BY <2>2, <2>3
<1>5. QED
  BY <1>3, <1>4

\* The journal of a packet is octets.
LEMMA JournalIsOctets ==
    ASSUME NEW c \in Conn, JournalFine(c)
    PROVE  JournalOctets(c) \in Seq(Octet)
<1>1. CASE journal[c] = {}
  <2>1. JournalOctets(c) = <<>>
    BY <1>1 DEF JournalOctets
  <2>2. QED
    BY <2>1, EmptySeq
<1>2. CASE journal[c] # {}
  <2> DEFINE last == CHOOSE e \in journal[c] : \A f \in journal[c] : f.number <= e.number
             r == Low16(last.number)
  <2>1. last \in journal[c]
    BY <1>2 DEF JournalFine
  <2>2. last.number \in 2..seq[c]
    BY <2>1 DEF JournalFine, Journaled
  <2> HIDE DEF last
  <2>3. last.number \in Nat
    BY <2>2
  <2>4. r \in Uint16
    BY <2>3, Mod16, ZenonT(60)
  <2>5. JournalOctets(c) = <<160>> \o Put16(r) \o Body
    BY <1>2 DEF JournalOctets, last, r, Low16
  <2> HIDE DEF r
  <2> DEFINE p == Put16(r)
             q == <<160>>
  <2>6. p \in Seq(Octet) /\ q \in Seq(Octet) /\ Body \in Seq(Octet)
    BY <2>4, Octets16, OctetsAssumption DEF Sized, Octet
  <2> HIDE DEF p, q
  <2>7. q \o p \in Seq(Octet)
    BY <2>6, ConcatProperties
  <2> DEFINE u == q \o p
  <2> HIDE DEF u
  <2>8. u \o Body \in Seq(Octet)
    BY <2>6, <2>7, ConcatProperties DEF u
  <2>9. QED
    BY <2>5, <2>8 DEF u, p, q
<1>3. QED
  BY <1>1, <1>2

\* The header of a packet with number n.
Stamped(h, n, s) == h \in RtpHeader /\ h.v = 2 /\ h.seq = Low16(n) /\ h.ssrc = s

\* The headers of raveloxmidi, and those of the peers, which set m.
LEMMA HeaderFields ==
    ASSUME NEW n \in Nat, NEW s \in Uint32, NEW h, h = RtpFields(Low16(n), <<0, 0>>, s)
    PROVE  Stamped(h, n, s) /\ Stamped([h EXCEPT !.m = 1], n, s)
<1> DEFINE z == <<0, 0>>
           r == Low16(n)
<1>1. r \in Uint16 /\ z \in Uint32
  BY Mod16, Uint16Is DEF Uint32
<1> HIDE DEF z, r
<1>2. h = [v |-> 2, p |-> 0, x |-> 0, cc |-> 0, m |-> 0, pt |-> 97, seq |-> r, timestamp |-> z, ssrc |-> s]
  BY DEF RtpFields, z, r
<1>3. h \in RtpHeader /\ h.v = 2 /\ h.seq = r /\ h.ssrc = s
  BY <1>1, <1>2 DEF RtpHeader
<1>4. /\ [h EXCEPT !.m = 1] \in RtpHeader /\ [h EXCEPT !.m = 1].v = 2
      /\ [h EXCEPT !.m = 1].seq = r /\ [h EXCEPT !.m = 1].ssrc = s
  BY <1>1, <1>2 DEF RtpHeader
<1>5. QED
  BY <1>3, <1>4 DEF r, Stamped

\* A packet that reads well and is numbered by its connection.
LEMMA PacketFine ==
    ASSUME NEW c \in Conn, NEW n, Numbered(c, n)', NEW h, Stamped(h, n, Ssrc[c]),
           NEW section, NEW tail, NEW m \in Command,
           ReadAs(c, m, Parsed(UnpackList(section \o tail))), NEW via, Behind(c[2], c[1], via),
           NEW s, Carries(s, h, section, tail), NEW d, d = Packet(c[1], c[2], s, m, n, via)
    PROVE  RtpFine(d)'
<1>1. /\ s \in Seq(Octet) /\ RtpUnpack(s) = h /\ RtpPayload(s) = section \o tail /\ ~IsSession(s)
  BY RtpSent
<1>2. /\ d.from = c[1] /\ d.to = c[2] /\ d.octets = s /\ d.meant = m /\ d.number = n /\ d.via = via
  BY DEF Packet
<1>3. <<d.from, d.to>> = c
  <2>1. c = <<c[1], c[2]>>
    BY ConnForm
  <2>2. QED
    BY <1>2, <2>1
<1>4. /\ d.octets \in Seq(Octet) /\ ~IsSession(d.octets) /\ RtpUnpack(d.octets).v = 2
      /\ RtpUnpack(d.octets).ssrc = Ssrc[c] /\ RtpUnpack(d.octets).seq = Low16(d.number)
      /\ d.meant \in Command
      /\ ReadAs(c, d.meant, Parsed(UnpackList(RtpPayload(d.octets))))
      /\ Behind(d.to, d.from, d.via)
  BY <1>1, <1>2 DEF Stamped
<1>5. Numbered(<<d.from, d.to>>, d.number)'
  BY <1>2, <1>3
<1>6. QED
  BY <1>3, <1>4, <1>5 DEF RtpFine

\* What midi_sender_send_single sends.
LEMMA SentFine ==
    ASSUME Counts, NEW c \in Conn, c[1] \in Program, JournalFine(c), NEW i \in Items(c[1]),
           Ssrc[<<c[2], c[1]>>] # i.originator, seq'[c] = seq[c] + 1,
           NEW s, s = RtpOctets(c, i.command),
           NEW d, d = Packet(c[1], c[2], s, i.meant, seq[c] + 1, i.via \cup {c[1]})
    PROVE  RtpFine(d)'
<1> DEFINE a == c[1]
           f == Flags(c)
           tail == JournalOctets(c)
           m == i.command
           via == i.via \cup {a}
<1>0. PICK n : n = seq[c] + 1
  OBVIOUS
<1>1. seq[c] \in Nat /\ seq[c] >= 1
  BY DEF Counts
<1>2. n \in Nat /\ n \in 2..n
  BY <1>0, <1>1
<1>3. Numbered(c, n)'
  BY <1>0, <1>2 DEF Numbered
<1>4. c[1] \in Node /\ c[2] \in Node /\ c = <<c[1], c[2]>> /\ Ssrc[c] \in Uint32
  BY ConnForm
<1>5. m \in Command /\ i.meant = m
  BY DEF Items
<1>6. f \in ListFlags /\ f.B = 0 /\ f.Z = 0
  BY DEF Flags, ListFlags
<1>7. tail \in Seq(Octet)
  BY JournalIsOctets
<1>8. Behind(c[2], c[1], via)
  <2>1. CASE i.via = {}
    BY <2>1, BehindOwn
  <2>2. ASSUME NEW b \in Node, <<a, b>> \in Conn, i.originator = Ssrc[<<b, a>>], Behind(a, b, i.via)
        PROVE  Behind(c[2], c[1], via)
    <3>1. c[2] # b
      BY <2>2
    <3>2. QED
      BY <2>2, <3>1, BehindNext
  <2>3. QED
    BY <2>1, <2>2 DEF Items
<1>20. PICK h : h = RtpFields(Low16(n), <<0, 0>>, Ssrc[c])
  OBVIOUS
<1>9. RtpOctets(c, m) = RtpPack(h) \o PackList(f, ListOf(m)) \o tail
  BY <1>0, <1>20 DEF RtpOctets, Low16
<1> HIDE DEF f, tail, m, via
<1>10. Stamped(h, n, Ssrc[c])
  BY <1>2, <1>4, <1>20, HeaderFields
<1> DEFINE section == PackList(f, ListOf(m))
<1>11. section \in Seq(Octet) /\ ReadAs(c, m, Parsed(UnpackList(section \o tail)))
  BY <1>5, <1>6, <1>7, ProgramSection
<1> HIDE DEF section
<1>12. s = RtpPack(h) \o section \o tail /\ d = Packet(c[1], c[2], s, m, n, via)
  BY <1>0, <1>5, <1>9 DEF section, m, via
<1>13. Carries(s, h, section, tail)
  BY <1>7, <1>10, <1>11, <1>12 DEF Carries, Stamped
<1>14. QED
  BY <1>3, <1>5, <1>8, <1>10, <1>11, <1>12, <1>13, PacketFine


-----------------------------------------------------------------------------
\* The event of the packet sent last has the greatest number of the journal.
LEMMA JournalAdds ==
    ASSUME NEW c \in Conn, NEW n \in Nat, n = seq[c], n >= 1, seq'[c] = n + 1, JournalFine(c),
           NEW X, NEW v, X = {} \/ (v.data \in Seq(0..127) /\ X = {[number |-> n + 1, event |-> v]}),
           journal'[c] = journal[c] \cup X, logged'[c] = logged[c] \cup X
    PROVE  JournalFine(c)'
<1> DEFINE S == Seq(0..127)
           w == [number |-> n + 1, event |-> v]
<1> HIDE DEF S
<1>1. /\ journal[c] = {} \/ \E e \in journal[c] : \A f \in journal[c] : f.number <= e.number
      /\ \A e \in journal[c] : e.number \in 2..n /\ e.event.data \in S
      /\ \A e \in logged[c] : e.number \in 2..n
  BY DEF JournalFine, Journaled, S
<1>2. \A k : k \in 2..n => k \in 2..(n + 1) /\ k <= n + 1
  OBVIOUS
<1>3. w.number = n + 1 /\ w.event = v /\ n + 1 \in 2..(n + 1) /\ n + 1 <= n + 1
  OBVIOUS
<1>4. X = {} \/ (v.data \in S /\ X = {w})
  BY DEF S
<1> HIDE DEF w
<1>5. \A e \in journal'[c] : e.number \in 2..(n + 1) /\ e.event.data \in S
  BY <1>1, <1>2, <1>3, <1>4
<1>6. \A e \in logged'[c] : e.number \in 2..(n + 1)
  BY <1>1, <1>2, <1>3, <1>4
<1>7. journal'[c] = {} \/ \E e \in journal'[c] : \A f \in journal'[c] : f.number <= e.number
  <2>1. CASE X = {}
    <3>1. journal'[c] = journal[c]
      BY <2>1
    <3>2. QED
      BY <1>1, <3>1
  <2>2. CASE X = {w}
    <3>1. w \in journal'[c]
      BY <2>2
    <3>2. \A f \in journal'[c] : f.number <= w.number
      BY <1>1, <1>2, <1>3, <2>2
    <3>3. QED
      BY <3>1, <3>2
  <2>3. QED
    BY <1>4, <2>1, <2>2
<1>8. QED
  BY <1>5, <1>6, <1>7 DEF JournalFine, Journaled, S

\* What Send does to the number and the journal of a connection.
Sends(c, m) ==
    /\ seq'[c] = seq[c] + 1
    /\ journal'[c] = journal[c] \cup Added(c, m)
    /\ logged'[c] = logged[c] \cup Added(c, m)

\* A connection that Send sends on, or not.
LEMMA SentJournal ==
    ASSUME Counts, Journals, KeptUntilReceived, NEW c \in Conn, c[1] \in Program,
           handed' = handed, NEW m \in Command,
           \/ Sends(c, m)
           \/ seq'[c] = seq[c] /\ journal'[c] = journal[c] /\ logged'[c] = logged[c]
    PROVE  /\ JournalFine(c)'
           /\ \A e \in logged'[c] : e \in journal'[c] \/ \E h \in handed'[c] : h.number >= e.number
<1>1. JournalFine(c) /\ seq[c] \in Nat /\ seq[c] >= 1
  BY DEF Journals, Counts
<1>2. \A e \in logged[c] : e \in journal[c] \/ \E h \in handed[c] : h.number >= e.number
  BY DEF KeptUntilReceived
<1>3. CASE Sends(c, m)
  <2> DEFINE X == Added(c, m)
             v == EventOf(m)
             n == seq[c]
  <2>1. X = {} \/ (v.data \in Seq(0..127) /\ X = {[number |-> n + 1, event |-> v]})
    <3>1. CASE InJournal(c, m)
      <4>1. v.data \in Seq(0..127)
        BY <3>1, EventData DEF InJournal
      <4>2. X = {[number |-> n + 1, event |-> v]}
        BY <3>1 DEF Added
      <4>3. QED
        BY <4>1, <4>2
    <3>2. CASE ~InJournal(c, m)
      BY <3>2 DEF Added
    <3>3. QED
      BY <3>1, <3>2
  <2>2. seq'[c] = n + 1 /\ journal'[c] = journal[c] \cup X /\ logged'[c] = logged[c] \cup X
    BY <1>3 DEF Sends
  <2> HIDE DEF X, v
  <2>3. JournalFine(c)'
    BY <1>1, <2>1, <2>2, JournalAdds
  <2>4. \A e \in logged'[c] : e \in journal'[c] \/ \E h \in handed'[c] : h.number >= e.number
    BY <1>2, <2>2
  <2>5. QED
    BY <2>3, <2>4
<1>4. CASE seq'[c] = seq[c] /\ journal'[c] = journal[c] /\ logged'[c] = logged[c]
  <2>1. JournalFine(c)'
    BY <1>1, <1>4 DEF JournalFine, Journaled
  <2>2. QED
    BY <1>2, <1>4, <2>1
<1>5. QED
  BY <1>3, <1>4

\* The queue thread sends a command, on every connection but the one it came from.
LEMMA StepSend ==
    ASSUME WireInv, NEW a \in Program, Send(a)
    PROVE  WireInv'
<1> DEFINE head == Head(queue[a])
<1>1. Counts /\ Queues /\ Underway /\ Handings /\ Journals /\ KeptUntilReceived
  BY DEF WireInv
<1>2. PICK item : item = head
  OBVIOUS
<1>3. PICK to : to = NotToOriginator(a, item.originator)
  OBVIOUS
<1>4. /\ queue[a] # <<>> /\ queue' = [queue EXCEPT ![a] = Tail(@)]
      /\ UNCHANGED <<handed, entered, doubled>>
  BY DEF Send
<1>5. net' = net \cup {Packet(a, c[2], RtpOctets(c, item.command), item.meant,
                              seq[c] + 1, item.via \cup {a}) : c \in to}
  BY <1>2, <1>3 DEF Send
<1>6. seq' = [c \in Conn |-> IF c \in to THEN seq[c] + 1 ELSE seq[c]]
  BY <1>2, <1>3 DEF Send
<1>7. journal' = [c \in Conn |-> IF c \in to THEN journal[c] \cup Added(c, item.command)
                                 ELSE journal[c]]
  BY <1>2, <1>3 DEF Send
<1>8. logged' = [c \in Conn |->
                    IF c \in to /\ InJournal(c, item.meant)
                    THEN logged[c] \cup {[number |-> seq[c] + 1, event |-> EventOf(item.meant)]}
                    ELSE logged[c]]
  BY <1>2, <1>3 DEF Send
<1>9. item \in Items(a) /\ Queues'
  BY <1>1, <1>2, <1>4, QueuesTake DEF Waiting
<1>10. item.command \in Command /\ item.meant = item.command
  BY <1>9 DEF Items
<1>11. Counts' /\ Grown
  <2>1. \A c \in Conn : seq[c] \in Nat
    BY <1>1 DEF Counts
  <2>2. \A c \in Conn : seq'[c] \in Nat /\ seq[c] <= seq'[c]
    BY <1>6, <2>1
  <2>3. seq' \in [Conn -> Nat]
    BY <1>6, <2>1
  <2>4. \A c \in Conn : c[1] \in Program => seq'[c] >= 1
    <3>1. \A c \in Conn : c[1] \in Program => seq[c] >= 1
      BY <1>1 DEF Counts
    <3>2. QED
      BY <2>1, <2>2, <3>1
  <2>5. QED
    BY <1>1, <1>4, <2>2, <2>3, <2>4 DEF Counts, Grown
<1>12. Underway'
  <2> DEFINE sent == {Packet(a, c[2], RtpOctets(c, item.command), item.meant,
                             seq[c] + 1, item.via \cup {a}) : c \in to}
  <2>1. ASSUME NEW d \in sent PROVE RtpFine(d)'
    <3>1. PICK c \in to : d = Packet(a, c[2], RtpOctets(c, item.command), item.meant,
                                     seq[c] + 1, item.via \cup {a})
      OBVIOUS
    <3>2. c \in Conn /\ c[1] = a /\ Ssrc[<<c[2], a>>] # item.originator
      BY <1>3 DEF NotToOriginator
    <3>3. seq'[c] = seq[c] + 1
      BY <1>6, <3>2
    <3>4. JournalFine(c)
      BY <1>1, <3>2 DEF Journals
    <3>5. PICK s : s = RtpOctets(c, item.command)
      OBVIOUS
    <3>6. d = Packet(c[1], c[2], s, item.meant, seq[c] + 1, item.via \cup {c[1]})
      BY <3>1, <3>2, <3>5
    <3>7. c[1] \in Program /\ item \in Items(c[1]) /\ Ssrc[<<c[2], c[1]>>] # item.originator
      BY <1>9, <3>2
    <3>8. QED
      BY <1>1, <3>2, <3>3, <3>4, <3>5, <3>6, <3>7, SentFine
  <2>2. net' \subseteq net \cup sent
    BY <1>5
  <2> HIDE DEF sent
  <2>3. QED
    BY <1>1, <1>11, <2>1, <2>2, UnderwayStays
<1>13. Handings'
  BY <1>1, <1>4, <1>11, HandingsStay DEF Handings
<1>14. ASSUME NEW c \in Conn, c[1] \in Program
       PROVE  /\ JournalFine(c)'
              /\ \A e \in logged'[c] :
                     e \in journal'[c] \/ \E h \in handed'[c] : h.number >= e.number
  <2>1. CASE c \in to
    <3>1. Sends(c, item.command)
      BY <1>6, <1>7, <1>8, <1>10, <2>1 DEF Sends, Added
    <3>2. QED
      BY <1>1, <1>4, <1>10, <1>14, <3>1, SentJournal
  <2>2. CASE c \notin to
    <3>1. seq'[c] = seq[c] /\ journal'[c] = journal[c] /\ logged'[c] = logged[c]
      BY <1>6, <1>7, <1>8, <2>2
    <3>2. QED
      BY <1>1, <1>4, <1>10, <1>14, <3>1, SentJournal
  <2>3. QED
    BY <2>1, <2>2
<1>15. Journals' /\ KeptUntilReceived'
  BY <1>14 DEF Journals, KeptUntilReceived
<1>16. QED
  BY <1>9, <1>11, <1>12, <1>13, <1>15 DEF WireInv

-----------------------------------------------------------------------------
\* A packet is delivered.
LEMMA Delivered ==
    ASSUME Counts, Underway, Grown, UNCHANGED <<seq, entered>>, NEW d, NEW sent, Deliver(d, sent),
           \A e \in sent : RtpFine(e)' \/ FeedbackFine(e)'
    PROVE  Counts' /\ Underway'
<1>1. net' \subseteq net \cup sent /\ doubled' \in 0..MaxDoubled
  BY DeliverForm
<1>2. Underway'
  BY <1>1, UnderwayStays
<1>3. Counts'
  BY <1>1 DEF Counts
<1>4. QED
  BY <1>2, <1>3

\* Nothing is handed over.
LEMMA HandedNothing ==
    ASSUME Counts, Handings, UNCHANGED <<seq, handed>>
    PROVE  Grown /\ Handings'
<1>1. Grown
  <2>1. \A c \in Conn : seq[c] \in Nat
    BY DEF Counts
  <2>2. \A c \in Conn : seq[c] <= seq'[c]
    BY <2>1
  <2>3. QED
    BY <2>2 DEF Counts, Grown
<1>2. Handings'
  BY <1>1, HandingsStay DEF Handings
<1>3. QED
  BY <1>1, <1>2

\* The packet of a connection is handed over, and kept in the history.
LEMMA HandedOne ==
    ASSUME Counts, Handings, UNCHANGED seq, NEW d, RtpFine(d), NEW c, c = <<d.from, d.to>>,
           Hand(c, d, Parsed(UnpackList(RtpPayload(d.octets))))
    PROVE  /\ Grown /\ Handings'
           /\ \E h \in handed'[c] : h.read = RtpUnpack(d.octets).seq
<1> DEFINE command == Parsed(UnpackList(RtpPayload(d.octets)))
           r == RtpUnpack(d.octets).seq
           h == [number |-> d.number, read |-> r, command |-> command, meant |-> d.meant]
<1>1. /\ c \in Conn /\ r = Low16(d.number) /\ d.meant \in Command
      /\ ReadAs(c, d.meant, command) /\ Numbered(c, d.number)
  BY DEF RtpFine
<1> HIDE DEF command, r
<1>2. handed' = [handed EXCEPT ![c] = @ \cup {h}]
  BY DEF Hand, command, r
<1>3. /\ h.number = d.number /\ h.read = r /\ h.command = command /\ h.meant = d.meant
  OBVIOUS
<1> HIDE DEF h
<1>4. handed = [x \in Conn |-> handed[x]]
  BY DEF Handings
<1>5. handed' = [x \in Conn |-> IF x = c THEN handed[x] \cup {h} ELSE handed[x]]
  BY <1>2, <1>4
<1>6. /\ \A x \in Conn : handed[x] \subseteq handed'[x]
      /\ handed' = [x \in Conn |-> handed'[x]]
      /\ h \in handed'[c]
      /\ \A x \in Conn : \A i \in handed'[x] : i \in handed[x] \/ (x = c /\ i = h)
  BY <1>1, <1>5
<1>7. Grown
  <2>1. \A x \in Conn : seq[x] \in Nat
    BY DEF Counts
  <2>2. \A x \in Conn : seq[x] <= seq'[x]
    BY <2>1
  <2>3. QED
    BY <1>6, <2>2 DEF Counts, Grown
<1>8. HandedFine(c, h)
  BY <1>1, <1>3 DEF HandedFine
<1>9. HandedFine(c, h)'
  BY <1>1, <1>7, <1>8, HandedStays
<1>10. Handings'
  BY <1>6, <1>7, <1>9, HandingsStay
<1>11. QED
  BY <1>3, <1>6, <1>7, <1>10 DEF r

\* A FEEDBACK with number r, for connection c.
Answer(c, k, r, e) ==
    e = Packet(c[2], c[1], NetApplemidiPack([command |-> FEEDBACK, ssrc |-> Ssrc[k],
                                             apple_seq |-> <<r, 0>>]), NoMidi, 0, {})

\* It carries the SSRC of one side of the connection.
LEMMA AnswerForm ==
    ASSUME NEW c \in Conn, NEW k, k = c \/ k = <<c[2], c[1]>>, NEW r \in Uint16,
           NEW e, Answer(c, k, r, e)
    PROVE  /\ <<e.to, e.from>> = c /\ k \in {<<e.from, e.to>>, <<e.to, e.from>>}
           /\ e.octets \in Seq(Octet) /\ IsSession(e.octets) /\ e.via = {}
           /\ NetApplemidiUnpack(e.octets) =
                  [command |-> FEEDBACK, ssrc |-> Ssrc[k], apple_seq |-> <<r, 0>>]
<1> DEFINE f == [command |-> FEEDBACK, ssrc |-> Ssrc[k], apple_seq |-> <<r, 0>>]
<1>1. c = <<c[1], c[2]>> /\ <<c[2], c[1]>> \in Conn
  BY ConnForm
<1>2. k \in Conn /\ Ssrc[k] \in Uint32
  BY <1>1, ConnForm
<1>3. PICK x : x = f
  OBVIOUS
<1>4. PICK s : s = NetApplemidiPack(x)
  OBVIOUS
<1>5. s \in Seq(Octet) /\ NetApplemidiUnpack(s) = x /\ IsSession(s)
  BY <1>2, <1>3, <1>4, FeedbackSent
<1>6. e.from = c[2] /\ e.to = c[1] /\ e.octets = s /\ e.via = {}
  BY <1>3, <1>4 DEF Packet, Answer
<1>7. <<e.to, e.from>> = c /\ k \in {<<e.from, e.to>>, <<e.to, e.from>>}
  BY <1>1, <1>6
<1>8. NetApplemidiUnpack(e.octets) = f
  BY <1>3, <1>5, <1>6
<1>9. QED
  BY <1>5, <1>6, <1>7, <1>8

\* The numbers that were handed over have 16 bits.
LEMMA ReadWidth ==
    ASSUME Handings, NEW c \in Conn, NEW h \in handed[c]
    PROVE  h.read \in Uint16
<1>1. h.number \in Nat /\ h.read = Low16(h.number)
  BY DEF Handings, HandedFine, Numbered
<1>2. QED
  BY <1>1, Mod16

\* The FEEDBACK for a packet that was handed over.
LEMMA AnswerFine ==
    ASSUME NEW c \in Conn, NEW k, k = c \/ k = <<c[2], c[1]>>, NEW r \in Uint16,
           NEW h, h \in handed'[c], h.read = r, NEW e, Answer(c, k, r, e)
    PROVE  FeedbackFine(e)'
<1>1. /\ <<e.to, e.from>> = c /\ k \in {<<e.from, e.to>>, <<e.to, e.from>>}
      /\ e.octets \in Seq(Octet) /\ IsSession(e.octets) /\ e.via = {}
      /\ NetApplemidiUnpack(e.octets) =
             [command |-> FEEDBACK, ssrc |-> Ssrc[k], apple_seq |-> <<r, 0>>]
  BY AnswerForm
<1>2. h \in handed'[<<e.to, e.from>>]
  BY <1>1
<1>3. QED
  BY <1>1, <1>2 DEF FeedbackFine

\* A packet of a connection reaches its program.
LEMMA StepReceiveRtp ==
    ASSUME WireInv, NEW a \in Program, NEW d \in net, ReceiveRtp(a, d)
    PROVE  WireInv'
<1>1. Counts /\ Queues /\ Underway /\ Handings /\ Journals /\ KeptUntilReceived
  BY DEF WireInv
<1>2. d.to = a /\ ~IsSession(d.octets) /\ UNCHANGED <<seq, journal, logged, entered>>
  BY DEF ReceiveRtp
<1>3. d = Stray \/ RtpFine(d)
  BY <1>1, <1>2 DEF Underway, FeedbackFine
<1>4. PICK header : header = RtpUnpack(d.octets)
  OBVIOUS
<1>5. PICK command : command = Parsed(UnpackList(RtpPayload(d.octets)))
  OBVIOUS
<1> DEFINE from == FindBySsrc(a, header.ssrc)
           answer == Packet(a, d.from, ApplemidiFeedbackCreate(header.ssrc, header.seq), NoMidi, 0, {})
           i == [command |-> command, originator |-> header.ssrc, meant |-> d.meant, via |-> d.via]
<1>6. IF header.v # 2 \/ from = {}
      THEN Deliver(d, {}) /\ UNCHANGED <<queue, handed>>
      ELSE /\ Deliver(d, {answer})
           /\ \E b \in from : Hand(<<b, a>>, d, command)
           /\ IF command = NoMidi THEN UNCHANGED queue
              ELSE queue' = [queue EXCEPT ![a] = Append(@, i)]
  BY <1>4, <1>5 DEF ReceiveRtp, Queue
<1>7. CASE header.v # 2 \/ from = {}
  <2>1. Deliver(d, {}) /\ UNCHANGED <<queue, handed>>
    BY <1>6, <1>7
  <2>2. Grown /\ Handings'
    BY <1>1, <1>2, <2>1, HandedNothing
  <2>3. Counts' /\ Underway'
    BY <1>1, <1>2, <2>1, <2>2, Delivered
  <2>4. Queues'
    BY <1>1, <2>1 DEF Queues, Items
  <2>5. Journals' /\ KeptUntilReceived'
    BY <1>1, <1>2, <2>2, JournalsStay
  <2>6. QED
    BY <2>2, <2>3, <2>4, <2>5 DEF WireInv
<1>8. CASE ~(header.v # 2 \/ from = {})
  <2> DEFINE c == <<d.from, a>>
  <2>1. d # Stray
    <3>1. d = Stray => header.ssrc \notin {Ssrc[x] : x \in Conn}
      BY <1>4, StrayAssumption
    <3>2. \A b \in from : <<b, a>> \in Conn /\ Ssrc[<<b, a>>] = header.ssrc
      BY ConnIs DEF FindBySsrc
    <3>3. QED
      BY <1>8, <3>1, <3>2
  <2>2. RtpFine(d) /\ c \in Conn /\ header.ssrc = Ssrc[c] /\ header.seq = Low16(d.number)
    BY <1>2, <1>3, <1>4, <2>1 DEF RtpFine
  <2>3. <<a, d.from>> \in Conn /\ from = {d.from} /\ d.from \in Node
    <3>1. <<a, d.from>> \in Conn
      BY <2>2, ConnIs
    <3>2. from = {d.from}
      BY <2>2, <3>1, OneSsrc
    <3>3. QED
      BY <3>1, <3>2, ConnIs
  <2>4. /\ Deliver(d, {answer}) /\ Hand(c, d, command)
        /\ IF command = NoMidi THEN UNCHANGED queue
           ELSE queue' = [queue EXCEPT ![a] = Append(@, i)]
    BY <1>6, <1>8, <2>3
  <2>5. Grown /\ Handings' /\ \E h \in handed'[c] : h.read = header.seq
    <3>1. c = <<d.from, d.to>> /\ UNCHANGED seq
      BY <1>2
    <3>2. Hand(c, d, Parsed(UnpackList(RtpPayload(d.octets))))
      BY <1>5, <2>4
    <3>3. QED
      BY <1>1, <1>4, <2>2, <3>1, <3>2, HandedOne
  <2>6. FeedbackFine(answer)'
    <3>1. PICK h : h \in handed'[c] /\ h.read = header.seq
      BY <2>5
    <3>2. header.seq \in Uint16
      <4>1. d.number \in Nat
        BY <2>2 DEF RtpFine, Numbered
      <4>2. QED
        BY <2>2, <4>1, Mod16
    <3>3. Answer(c, c, header.seq, answer)
      BY <2>2 DEF Answer, ApplemidiFeedbackCreate
    <3> HIDE DEF answer
    <3>4. QED
      BY <2>2, <3>1, <3>2, <3>3, AnswerFine
  <2> HIDE DEF answer
  <2>7. Counts' /\ Underway'
    BY <1>1, <1>2, <2>4, <2>5, <2>6, Delivered
  <2>8. Queues'
    <3>1. CASE command = NoMidi
      BY <1>1, <2>4, <3>1 DEF Queues, Items
    <3>2. CASE command # NoMidi
      <4>1. command = d.meant /\ d.meant \in Command
        BY <1>5, <2>2, <3>2 DEF RtpFine, ReadAs
      <4>2. Behind(a, d.from, d.via)
        BY <1>2, <2>2 DEF RtpFine
      <4>3. d.via \subseteq Node
        BY <2>3, <4>2, BehindNot
      <4>4. header.ssrc \in Uint32
        BY <2>2, ConnForm
      <4>5. i \in Items(a)
        <5>1. i \in [command : Command, originator : Uint32, meant : Command, via : SUBSET Node]
          BY <4>1, <4>3, <4>4
        <5>2. i.command = i.meant /\ i.originator = Ssrc[<<d.from, a>>] /\ Behind(a, d.from, i.via)
          BY <2>2, <4>1, <4>2
        <5> HIDE DEF i
        <5>3. QED
          BY <2>3, <5>1, <5>2 DEF Items
      <4> HIDE DEF i
      <4>6. QED
        BY <1>1, <2>4, <3>2, <4>5, QueuesAdd
    <3>3. QED
      BY <3>1, <3>2
  <2>9. Journals' /\ KeptUntilReceived'
    BY <1>1, <1>2, <2>5, JournalsStay
  <2>10. QED
    BY <2>5, <2>7, <2>8, <2>9 DEF WireInv
<1>9. QED
  BY <1>7, <1>8

\* A FEEDBACK reaches its program, and resets the journal of its connection.
LEMMA StepReceiveFeedback ==
    ASSUME WireInv, NEW a \in Program, NEW d \in net, ReceiveFeedback(a, d)
    PROVE  WireInv'
<1> DEFINE c == <<a, d.from>>
<1>1. Counts /\ Queues /\ Underway /\ Handings /\ Journals /\ KeptUntilReceived
  BY DEF WireInv
<1>2. /\ d.to = a /\ IsSession(d.octets) /\ Deliver(d, {})
      /\ UNCHANGED <<seq, queue, handed, logged, entered>>
  BY DEF ReceiveFeedback
<1>3. FeedbackFine(d)
  <2>1. d # Stray
    BY <1>2, StrayAssumption
  <2>2. ~RtpFine(d)
    BY <1>2 DEF RtpFine
  <2>3. QED
    BY <1>1, <2>1, <2>2 DEF Underway
<1>4. PICK feedback : feedback = NetApplemidiUnpack(d.octets)
  OBVIOUS
<1>5. /\ c \in Conn
      /\ \E h \in handed[c], k \in {<<d.from, a>>, <<a, d.from>>} :
             feedback = [command |-> FEEDBACK, ssrc |-> Ssrc[k], apple_seq |-> <<h.read, 0>>]
  BY <1>2, <1>3, <1>4 DEF FeedbackFine
<1>6. PICK h \in handed[c] : \E k \in {<<d.from, a>>, <<a, d.from>>} :
          feedback = [command |-> FEEDBACK, ssrc |-> Ssrc[k], apple_seq |-> <<h.read, 0>>]
  BY <1>5
<1>7. PICK k \in {<<d.from, a>>, <<a, d.from>>} :
          feedback = [command |-> FEEDBACK, ssrc |-> Ssrc[k], apple_seq |-> <<h.read, 0>>]
  BY <1>6
<1>8. feedback.ssrc = Ssrc[k] /\ RtpSeq1(feedback.apple_seq) = h.read
  <2>1. feedback.ssrc = Ssrc[k] /\ feedback.apple_seq = <<h.read, 0>>
    BY <1>7
  <2>2. QED
    BY <2>1 DEF RtpSeq1
<1>9. FindBySsrc(a, feedback.ssrc) \subseteq {d.from}
  <2>1. CASE k = <<d.from, a>>
    BY <1>5, <1>8, <2>1, OneSsrc
  <2>2. CASE k = <<a, d.from>>
    BY <1>5, <1>8, <2>2, OneSsrc
  <2>3. QED
    BY <2>1, <2>2
<1>10. journal' = [x \in Conn |->
                      IF /\ x[1] = a /\ x[2] \in FindBySsrc(a, feedback.ssrc)
                         /\ RtpSeq1(feedback.apple_seq) >= seq[x]
                      THEN {} ELSE journal[x]]
  BY <1>4 DEF ReceiveFeedback
<1>11. \A x \in Conn : \/ journal'[x] = journal[x]
                       \/ x = c /\ h.read >= seq[x] /\ journal'[x] = {}
  <2> SUFFICES ASSUME NEW x \in Conn, journal'[x] # journal[x]
               PROVE  x = c /\ h.read >= seq[x] /\ journal'[x] = {}
    OBVIOUS
  <2>1. x[1] = a /\ x[2] = d.from /\ h.read >= seq[x] /\ journal'[x] = {}
    BY <1>8, <1>9, <1>10
  <2>2. x = <<x[1], x[2]>>
    BY ConnForm
  <2>3. QED
    BY <2>1, <2>2
<1>12. Grown /\ Handings'
  BY <1>1, <1>2, HandedNothing
<1>13. Counts' /\ Underway'
  BY <1>1, <1>2, <1>12, Delivered
<1>14. Queues'
  BY <1>1, <1>2 DEF Queues, Items
<1>15. h.number \in Nat /\ h.read \in Nat /\ h.read <= h.number
  <2>1. h.number \in Nat /\ h.read = Low16(h.number)
    BY <1>1, <1>5 DEF Handings, HandedFine, Numbered
  <2>2. QED
    BY <2>1, Mod16
<1>16. ASSUME NEW x \in Conn, x[1] \in Program
       PROVE  /\ JournalFine(x)'
              /\ \A e \in logged'[x] : e \in journal'[x] \/ \E g \in handed'[x] : g.number >= e.number
  <2>1. /\ JournalFine(x) /\ seq[x] \in Nat /\ seq'[x] = seq[x]
        /\ logged'[x] = logged[x] /\ handed'[x] = handed[x]
    BY <1>1, <1>2, <1>16 DEF Counts, Journals
  <2>2. \A e \in logged[x] : e \in journal[x] \/ \E g \in handed[x] : g.number >= e.number
    BY <1>1, <1>16 DEF KeptUntilReceived
  <2>3. CASE journal'[x] = journal[x]
    <3>1. JournalFine(x)'
      BY <2>1, <2>3 DEF JournalFine, Journaled
    <3>2. QED
      BY <2>1, <2>2, <2>3, <3>1
  <2>4. CASE x = c /\ h.read >= seq[x] /\ journal'[x] = {}
    <3>1. JournalFine(x)'
      BY <2>1, <2>4 DEF JournalFine, Journaled
    <3>2. \A e \in logged[x] : h.number >= e.number
      <4>1. ASSUME NEW e \in logged[x] PROVE h.number >= e.number
        <5>1. e.number \in 2..seq[x]
          BY <2>1 DEF JournalFine
        <5>2. QED
          BY <1>15, <2>1, <2>4, <5>1
      <4>2. QED
        BY <4>1
    <3>3. h \in handed'[x]
      BY <2>1, <2>4
    <3>4. QED
      BY <2>1, <3>1, <3>2, <3>3
  <2>5. QED
    BY <1>11, <2>3, <2>4
<1>17. Journals' /\ KeptUntilReceived'
  BY <1>16 DEF Journals, KeptUntilReceived
<1>18. QED
  BY <1>12, <1>13, <1>14, <1>17 DEF WireInv

\* A peer takes a packet.
LEMMA StepPeerReceive ==
    ASSUME WireInv, NEW p \in Peer, NEW d \in net, PeerReceive(p, d)
    PROVE  WireInv'
<1>1. Counts /\ Queues /\ Underway /\ Handings /\ Journals /\ KeptUntilReceived
  BY DEF WireInv
<1>2. d.to = p /\ Deliver(d, {}) /\ UNCHANGED <<seq, journal, queue, logged, entered>>
  BY DEF PeerReceive
<1>3. RtpFine(d) \/ FeedbackFine(d)
  <2>1. Stray.to \in Program /\ p \notin Program
    BY StrayAssumption, NodeAssumption
  <2>2. QED
    BY <1>1, <1>2, <2>1 DEF Underway
<1>4. Grown /\ Handings'
  <2>1. CASE IsSession(d.octets)
    <3>1. UNCHANGED handed
      BY <2>1 DEF PeerReceive
    <3>2. QED
      BY <1>1, <1>2, <3>1, HandedNothing
  <2>2. CASE ~IsSession(d.octets)
    <3> DEFINE c == <<d.from, d.to>>
    <3>1. RtpFine(d)
      BY <1>3, <2>2 DEF FeedbackFine
    <3>2. Hand(c, d, Parsed(UnpackList(RtpPayload(d.octets))))
      BY <1>2, <2>2 DEF PeerReceive
    <3>3. QED
      BY <1>1, <1>2, <3>1, <3>2, HandedOne
  <2>3. QED
    BY <2>1, <2>2
<1>5. Counts' /\ Underway'
  BY <1>1, <1>2, <1>4, Delivered
<1>6. Queues'
  BY <1>1, <1>2 DEF Queues, Items
<1>7. Journals' /\ KeptUntilReceived'
  BY <1>1, <1>2, <1>4, JournalsStay
<1>8. QED
  BY <1>4, <1>5, <1>6, <1>7 DEF WireInv

\* A peer acknowledges what it has received.
LEMMA StepPeerAcknowledge ==
    ASSUME WireInv, NEW p \in Peer, NEW b \in Program, PeerAcknowledge(p, b)
    PROVE  WireInv'
<1> DEFINE c == <<b, p>>
           k == <<p, b>>
<1>1. Counts /\ Queues /\ Underway /\ Handings /\ Journals /\ KeptUntilReceived
  BY DEF WireInv
<1>2. /\ k \in Conn
      /\ UNCHANGED <<seq, journal, queue, handed, logged, entered, doubled>>
  BY DEF PeerAcknowledge
<1>3. c \in Conn
  BY <1>2, ConnIs
<1>4. PICK h \in handed[c] :
         net' = net \cup {Packet(p, b, NetApplemidiPack([command |-> FEEDBACK,
                                ssrc |-> Ssrc[k], apple_seq |-> <<h.read, 0>>]),
                                NoMidi, 0, {})}
  BY DEF PeerAcknowledge
<1>5. PICK e : e = Packet(p, b, NetApplemidiPack([command |-> FEEDBACK,
                                ssrc |-> Ssrc[k], apple_seq |-> <<h.read, 0>>]), NoMidi, 0, {})
  OBVIOUS
<1>6. net' = net \cup {e}
  BY <1>4, <1>5
<1>7. Grown /\ Handings'
  BY <1>1, <1>2, HandedNothing
<1>8. FeedbackFine(e)'
  <2>1. h.read \in Uint16 /\ h \in handed'[c]
    BY <1>1, <1>2, <1>3, ReadWidth
  <2>2. Answer(c, k, h.read, e)
    BY <1>5 DEF Answer
  <2>3. k = <<c[2], c[1]>>
    OBVIOUS
  <2> HIDE DEF c, k
  <2>4. QED
    BY <1>3, <2>1, <2>2, <2>3, AnswerFine
<1>9. Underway'
  <2> DEFINE sent == {e}
  <2>1. net' \subseteq net \cup sent /\ \A x \in sent : FeedbackFine(x)'
    BY <1>6, <1>8
  <2> HIDE DEF sent
  <2>2. QED
    BY <1>1, <1>7, <2>1, UnderwayStays
<1>10. Counts' /\ Queues'
  BY <1>1, <1>2 DEF Counts, Queues, Items
<1>11. Journals' /\ KeptUntilReceived'
  BY <1>1, <1>2, <1>7, JournalsStay
<1>12. QED
  BY <1>7, <1>9, <1>10, <1>11 DEF WireInv

\* A peer sends a command.
LEMMA StepPeerSend ==
    ASSUME WireInv, NEW p \in Peer, NEW b \in Program, NEW m \in Command, NEW z \in 0..1,
           PeerSend(p, b, m, z)
    PROVE  WireInv'
<1> DEFINE c == <<p, b>>
           tail == <<0, 0, 0>>
<1>1. Counts /\ Queues /\ Underway /\ Handings /\ Journals /\ KeptUntilReceived
  BY DEF WireInv
<1>2. /\ entered < MaxEntered /\ c \in Conn /\ entered' = entered + 1
      /\ seq' = [seq EXCEPT ![c] = @ + 1]
      /\ UNCHANGED <<journal, queue, handed, logged, doubled>>
  BY DEF PeerSend
<1>3. c[1] = p /\ c[2] = b /\ c[1] \notin Program
  BY NodeAssumption
<1>4. PICK n : n = seq[c]
  OBVIOUS
<1>5. n \in Nat
  BY <1>1, <1>2, <1>4 DEF Counts
<1>6. PICK list : list = IF z = 1 THEN <<0>> \o ListOf(m) ELSE ListOf(m)
  OBVIOUS
<1>7. PICK f : f = [B |-> IF Len(list) > 15 THEN 1 ELSE 0, J |-> 1, Z |-> z, P |-> 0]
  OBVIOUS
<1>8. PICK h : h = RtpFields(Low16(n), <<0, 0>>, Ssrc[c])
  OBVIOUS
<1>9. PICK g : g = [h EXCEPT !.m = 1]
  OBVIOUS
<1>10. PICK section : section = PackList(f, list)
  OBVIOUS
<1>11. PICK s : s = RtpPack(g) \o section \o tail
  OBVIOUS
<1>12. PICK d : d = Packet(p, b, s, m, n, {p})
  OBVIOUS
<1>13. net' = net \cup {d}
  BY <1>4, <1>6, <1>7, <1>8, <1>9, <1>10, <1>11, <1>12 DEF PeerSend, Low16
<1>14. Stamped(g, n, Ssrc[c])
  <2>1. Ssrc[c] \in Uint32
    BY <1>2, ConnForm
  <2> HIDE DEF c
  <2>2. QED
    BY <1>5, <1>8, <1>9, <2>1, HeaderFields
<1>15. tail \in Seq(Octet)
  <2>1. 0 \in Octet
    BY DEF Octet
  <2>2. QED
    BY <2>1
<1> HIDE DEF tail
<1>16. section \in Seq(Octet) /\ Parsed(UnpackList(section \o tail)) = m
  <2>1. f \in ListFlags /\ f.Z = z /\ f.B = IF Len(list) > 15 THEN 1 ELSE 0
    BY <1>7 DEF ListFlags
  <2>2. list = IF f.Z = 1 THEN <<0>> \o ListOf(m) ELSE ListOf(m)
    BY <1>6, <2>1
  <2>3. PeerList(m, f, list)
    BY <2>1, <2>2 DEF PeerList
  <2>4. QED
    BY <1>10, <1>15, <2>3, PeerSection
<1>17. Counts' /\ Grown
  <2>1. \A x \in Conn : seq[x] \in Nat
    BY <1>1 DEF Counts
  <2>2. seq' = [x \in Conn |-> IF x = c THEN seq[x] + 1 ELSE seq[x]]
    BY <1>1, <1>2 DEF Counts
  <2>3. \A x \in Conn : seq'[x] \in Nat /\ seq[x] <= seq'[x]
    BY <2>1, <2>2
  <2>4. seq' \in [Conn -> Nat]
    BY <2>1, <2>2
  <2>5. \A x \in Conn : x[1] \in Program => seq'[x] >= 1
    <3>1. \A x \in Conn : x[1] \in Program => seq[x] >= 1
      BY <1>1 DEF Counts
    <3>2. QED
      BY <2>1, <2>3, <3>1
  <2>6. entered' \in 0..MaxEntered
    BY <1>1, <1>2, BoundsAssumption DEF Counts
  <2>7. QED
    BY <1>1, <1>2, <2>3, <2>4, <2>5, <2>6 DEF Counts, Grown
<1>18. RtpFine(d)'
  <2>1. Numbered(c, n)'
    BY <1>3, <1>5 DEF Numbered
  <2>2. ReadAs(c, m, Parsed(UnpackList(section \o tail)))
    BY <1>16 DEF ReadAs
  <2>3. Behind(c[2], c[1], {p})
    BY <1>3, BehindOwn
  <2>4. Carries(s, g, section, tail)
    BY <1>11, <1>14, <1>15, <1>16 DEF Carries, Stamped
  <2>5. d = Packet(c[1], c[2], s, m, n, {p})
    BY <1>3, <1>12
  <2> HIDE DEF c
  <2>6. QED
    BY <1>2, <1>14, <2>1, <2>2, <2>3, <2>4, <2>5, PacketFine
<1>19. Underway'
  <2> DEFINE sent == {d}
  <2>1. net' \subseteq net \cup sent /\ \A x \in sent : RtpFine(x)'
    BY <1>13, <1>18
  <2> HIDE DEF sent
  <2>2. QED
    BY <1>1, <1>17, <2>1, UnderwayStays
<1>20. Handings'
  BY <1>1, <1>2, <1>17, HandingsStay DEF Handings
<1>21. Journals' /\ KeptUntilReceived'
  BY <1>1, <1>2, <1>17, JournalsStay
<1>22. Queues'
  BY <1>1, <1>2 DEF Queues, Items
<1>23. QED
  BY <1>17, <1>19, <1>20, <1>21, <1>22 DEF WireInv

\* Nothing has been sent but the stray packet.
LEMMA WireStart == Init => WireInv
<1> SUFFICES ASSUME Init PROVE WireInv
  OBVIOUS
<1>1. Counts
  <2>1. \A c \in Conn : seq[c] \in Nat /\ (c[1] \in Program => seq[c] >= 1)
    BY OctetsAssumption DEF Init
  <2>2. seq = [c \in Conn |-> seq[c]]
    BY DEF Init
  <2>3. QED
    BY <2>1, <2>2, BoundsAssumption DEF Init, Counts
<1>2. Queues
  <2>1. \A a \in Program : queue[a] = <<>>
    BY DEF Init
  <2>2. queue = [a \in Program |-> queue[a]]
    BY DEF Init
  <2>3. QED
    BY <2>1, <2>2, EmptySeq DEF Queues
<1>3. Underway
  BY DEF Init, Underway
<1>4. Handings
  <2>1. \A c \in Conn : handed[c] = {}
    BY DEF Init
  <2>2. handed = [c \in Conn |-> handed[c]]
    BY DEF Init
  <2>3. QED
    BY <2>1, <2>2 DEF Handings
<1>5. Journals /\ KeptUntilReceived
  <2>1. \A c \in Conn : journal[c] = {} /\ logged[c] = {}
    BY DEF Init
  <2>2. QED
    BY <2>1 DEF Journals, JournalFine, KeptUntilReceived
<1>6. QED
  BY <1>1, <1>2, <1>3, <1>4, <1>5 DEF WireInv

\* Every state of the programs, the peers and the network satisfies the invariant.
THEOREM WireInvariant == Spec => []WireInv
<1>1. WireInv /\ [Next]_vars => WireInv'
  <2> SUFFICES ASSUME WireInv, [Next]_vars PROVE WireInv'
    OBVIOUS
  <2>1. ASSUME NEW a \in Program, NEW m \in Command, Enter(a, m) PROVE WireInv'
    BY <2>1, StepEnter
  <2>2. ASSUME NEW a \in Program, Send(a) PROVE WireInv'
    BY <2>2, StepSend
  <2>3. ASSUME NEW a \in Program, NEW d \in net, ReceiveRtp(a, d) PROVE WireInv'
    BY <2>3, StepReceiveRtp
  <2>4. ASSUME NEW a \in Program, NEW d \in net, ReceiveFeedback(a, d) PROVE WireInv'
    BY <2>4, StepReceiveFeedback
  <2>5. ASSUME NEW p \in Peer, NEW b \in Program, NEW m \in Command, NEW z \in 0..1,
               PeerSend(p, b, m, z)
        PROVE  WireInv'
    BY <2>5, StepPeerSend
  <2>6. ASSUME NEW p \in Peer, NEW d \in net, PeerReceive(p, d) PROVE WireInv'
    BY <2>6, StepPeerReceive
  <2>7. ASSUME NEW p \in Peer, NEW b \in Program, PeerAcknowledge(p, b) PROVE WireInv'
    BY <2>7, StepPeerAcknowledge
  <2>8. CASE UNCHANGED vars
    <3>1. UNCHANGED <<seq, journal, queue, net, handed, logged, entered, doubled>>
      BY <2>8 DEF vars
    <3>2. Counts /\ Queues /\ Underway /\ Handings /\ Journals /\ KeptUntilReceived
      BY DEF WireInv
    <3>3. Grown /\ Handings'
      BY <3>1, <3>2, HandedNothing
    <3>4. Journals' /\ KeptUntilReceived'
      BY <3>1, <3>2, <3>3, JournalsStay
    <3>5. Underway'
      <4> DEFINE sent == {}
      <4>1. net' \subseteq net \cup sent /\ \A x \in sent : RtpFine(x)'
        BY <3>1
      <4> HIDE DEF sent
      <4>2. QED
        BY <3>2, <3>3, <4>1, UnderwayStays
    <3>6. Counts' /\ Queues'
      BY <3>1, <3>2 DEF Counts, Queues, Items
    <3>7. QED
      BY <3>3, <3>4, <3>5, <3>6 DEF WireInv
  <2>9. QED
    BY <2>1, <2>2, <2>3, <2>4, <2>5, <2>6, <2>7, <2>8 DEF Next
<1>2. QED
  BY <1>1, WireStart, PTL DEF Spec

-----------------------------------------------------------------------------
\* Octets are octets; what is in a journal, or was handed over, was sent.
THEOREM WireTypeOK == Spec => []TypeOK
<1>1. WireInv => TypeOK
  <2> SUFFICES ASSUME WireInv PROVE TypeOK
    OBVIOUS
  <2>1. Counts /\ Queues /\ Underway /\ Handings /\ Journals
    BY Zenon DEF WireInv
  <2>2. ASSUME NEW a \in Program, NEW i \in 1..Len(queue[a])
        PROVE  /\ queue[a][i].command \in [status : 128..255, data : Seq(Octet)]
               /\ queue[a][i].originator \in Uint32
    <3> DEFINE q == queue[a]
    <3>1. q \in Seq(Items(a))
      BY <2>1 DEF Queues
    <3> HIDE DEF q
    <3>2. i \in 1..Len(q)
      BY DEF q
    <3>3. q[i] \in Items(a)
      BY <3>1, <3>2
    <3>4. q[i].command \in Command /\ q[i].originator \in Uint32
      BY <3>3 DEF Items
    <3>5. QED
      BY <3>4, CommandForm DEF q
  <2>3. \A d \in net : d.octets \in Seq(Octet)
    BY <2>1, StrayAssumption DEF Underway, RtpFine, FeedbackFine
  <2>4. ASSUME NEW c \in Conn, c[1] \in Program
        PROVE  /\ \A e \in journal[c] : e.number \in 2..seq[c] /\ e.event.data \in Seq(0..127)
               /\ \A h \in handed[c] : h.number \in 2..seq[c]
    <3>1. JournalFine(c) /\ \A h \in handed[c] : HandedFine(c, h)
      BY <2>1, <2>4 DEF Journals, Handings
    <3>2. QED
      BY <2>4, <3>1 DEF JournalFine, Journaled, HandedFine, Numbered
  <2>5. seq \in [Conn -> Nat] /\ entered \in 0..MaxEntered /\ doubled \in 0..MaxDoubled
    BY <2>1 DEF Counts
  <2>6. QED
    BY <2>2, <2>3, <2>4, <2>5 DEF TypeOK
<1>2. QED
  BY <1>1, WireInvariant, PTL

\* A command is handed over as it entered, whatever it came through
\* (midi_sender_send_single, net_socket_read), but a list of more than 15 octets
\* a raveloxmidi program sends.
THEOREM WireReceivedAsSent == Spec => []ReceivedAsSent
<1>1. WireInv => ReceivedAsSent
  <2> SUFFICES ASSUME WireInv, NEW c \in Conn, NEW h \in handed[c], ~LongList(c, h.meant)
               PROVE  h.command = h.meant
    BY DEF ReceivedAsSent
  <2>1. HandedFine(c, h)
    BY DEF WireInv, Handings
  <2>2. QED
    BY <2>1 DEF HandedFine, ReadAs
<1>2. QED
  BY <1>1, WireInvariant, PTL

\* A command never returns to a program or peer it came through
\* (midi_sender_send_single leaves the originator out).
THEOREM WireNotBack == Spec => []NotBack
<1>1. WireInv => NotBack
  <2> SUFFICES ASSUME WireInv, NEW d \in net PROVE d.to \notin d.via
    BY DEF NotBack
  <2>1. d = Stray \/ RtpFine(d) \/ FeedbackFine(d)
    BY DEF WireInv, Underway
  <2>2. CASE d = Stray
    BY <2>2, StrayAssumption
  <2>3. CASE RtpFine(d)
    <3>1. <<d.from, d.to>> \in Conn /\ Behind(d.to, d.from, d.via)
      BY <2>3 DEF RtpFine
    <3>2. <<d.to, d.from>> \in Conn
      BY <3>1, ConnIs
    <3>3. QED
      BY <3>1, <3>2, BehindNot
  <2>4. CASE FeedbackFine(d)
    BY <2>4 DEF FeedbackFine
  <2>5. QED
    BY <2>1, <2>2, <2>3, <2>4
<1>2. QED
  BY <1>1, WireInvariant, PTL

\* A feedback names a packet its sender received, and a journal holds every event
\* since the last packet the other side has received (applemidi_feedback_create,
\* applemidi_feedback_responder).
THEOREM WireAcknowledged == Spec => []Acknowledged
<1>1. WireInv => Acknowledged
  <2> SUFFICES ASSUME WireInv PROVE Acknowledged
    OBVIOUS
  <2>1. ASSUME NEW d \in net, IsSession(d.octets)
        PROVE  \E h \in handed[<<d.to, d.from>>] :
                   RtpSeq1(NetApplemidiUnpack(d.octets).apple_seq) = h.number % 65536
    <3>1. d # Stray /\ ~RtpFine(d)
      BY <2>1, StrayAssumption DEF RtpFine
    <3>2. FeedbackFine(d)
      BY <3>1 DEF WireInv, Underway
    <3> DEFINE c == <<d.to, d.from>>
    <3>3. PICK h \in handed[c] : \E k \in {<<d.from, d.to>>, <<d.to, d.from>>} :
              NetApplemidiUnpack(d.octets) =
                  [command |-> FEEDBACK, ssrc |-> Ssrc[k], apple_seq |-> <<h.read, 0>>]
      BY <3>2 DEF FeedbackFine
    <3>4. RtpSeq1(NetApplemidiUnpack(d.octets).apple_seq) = h.read
      <4>1. NetApplemidiUnpack(d.octets).apple_seq = <<h.read, 0>>
        BY <3>3
      <4>2. QED
        BY <4>1 DEF RtpSeq1
    <3>5. c \in Conn
      BY <3>2 DEF FeedbackFine
    <3> HIDE DEF c
    <3>6. h.read = Low16(h.number)
      BY <3>5 DEF WireInv, Handings, HandedFine
    <3>7. RtpSeq1(NetApplemidiUnpack(d.octets).apple_seq) = Low16(h.number)
      BY <3>4, <3>6
    <3>8. QED
      BY <3>7 DEF c, Low16
  <2>2. QED
    BY <2>1 DEF WireInv, Acknowledged, FeedbackHonest
<1>2. QED
  BY <1>1, WireInvariant, PTL
=============================================================================
