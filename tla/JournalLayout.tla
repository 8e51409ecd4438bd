--------------------------- MODULE JournalLayout ----------------------------
(***************************************************************************)
(* The octets of the recovery journal: what journal_pack makes of the      *)
(* journal of Journal.tla, and what a receiver reads from them.  The S     *)
(* bits are 1 but in the notes of chapter N, the H, A, T, Y and bank bits  *)
(* are 0, as the program never sets them otherwise.                        *)
(***************************************************************************)
EXTENDS Journal, Packets, SequencesExt

ASSUME ValueAssumption == Value \subseteq 0..127

\* The loops over the channels and the controllers go up: the i-th smallest number.
Ascending(S) ==
    [i \in 1..Cardinality(S) |-> CHOOSE x \in S : Cardinality({y \in S : y <= x}) = i]

\* The octets of a sequence of pairs.
Pairs(q) == [i \in 1..(2 * Len(q)) |-> q[(i + 1) \div 2][2 - (i % 2)]]

\* journal_header_pack: the flags S and A, the number of channels less one, and
\* header->seq.
JournalHeaderPack(seq) == <<(8 + 2) * 16 + ((totchan - 1) % 16)>> \o Put16(seq)

\* The bits of the chapters in the header of a channel.
Toc(chapters) == (IF "P" \in chapters THEN 128 ELSE 0) + (IF "C" \in chapters THEN 64 ELSE 0)
                     + (IF "N" \in chapters THEN 8 ELSE 0)

ChannelHeaderPack(c, len) ==
    Put16(32768 + PackChannel(c).number * 2048 + (len % 1024)) \o <<Toc(flags[c])>>

-----------------------------------------------------------------------------
\* chapter_p_pack, for a chapter that was created.
ChapterP(c) == IF program[c] = NONE THEN <<>> ELSE <<128 + program[c], 0, 0>>

\* chapter_c_pack.  What is left to write is counted in a uint8_t; the octets it
\* does not get to stay 0.
Active(c) == Ascending({k \in Controller : control[c][k] # NONE})

Copied(n) == (((1 + 2 * n) % 256) - 1) \div 2

LogOctets(c, i) == IF i <= Copied(Len(Active(c))) THEN <<128 + Active(c)[i], control[c][Active(c)[i]]>>
                   ELSE <<0, 0>>

ChapterC(c) ==
    LET n == Len(Active(c))
    IN  IF n = 0 THEN <<>>
        ELSE <<128 + ((n - 1) % 128)>> \o Pairs([i \in 1..n |-> LogOctets(c, i)])

\* Byte b of chapter_n->offbits, a bit of it with its weight 1 << x.
Weight == <<1, 2, 4, 8, 16, 32, 64, 128>>
Bit(c, b, x) == IF <<b, x>> \in offbits[c] THEN Weight[x + 1] ELSE 0
OffOctet(c, b) == Bit(c, b, 0) + Bit(c, b, 1) + Bit(c, b, 2) + Bit(c, b, 3) +
                  Bit(c, b, 4) + Bit(c, b, 5) + Bit(c, b, 6) + Bit(c, b, 7)

\* chapter_n_header_pack: B is set with the flag of the chapter.
ChapterNHead(c) == <<(IF "N" \in flags[c] THEN 128 ELSE 0) + (Len(notes[c]) % 128),
                     low[c] * 16 + high[c]>>

\* chapter_n_note_pack, with S and Y 0.
NoteOctets(n) == <<n[1] % 128, n[2] % 128>>

\* chapter_n_pack: of the bits it copies the bytes from low to high.
ChapterN(c) ==
    IF ~hasN[c] THEN <<>>
    ELSE ChapterNHead(c) \o Pairs([i \in 1..Len(notes[c]) |-> NoteOctets(notes[c][i])]) \o
         [i \in 1..MaxOf(0, high[c] - low[c] + 1) |-> OffOctet(c, low[c] + i - 1)]

-----------------------------------------------------------------------------
\* channel_pack: the length in the header counts the header.  The slip forgets it.
ChannelPackBare(c) ==
    LET chapters == ChapterP(c) \o ChapterC(c) \o ChapterN(c)
    IN  ChannelHeaderPack(c, Len(chapters)) \o chapters

ChannelPack(c) ==
    LET chapters == ChapterP(c) \o ChapterC(c) \o ChapterN(c)
    IN  ChannelHeaderPack(c, 3 + Len(chapters)) \o chapters

Created == Ascending({c \in Channel : created[c]})

\* journal_pack
JournalPack(seq) ==
    IF totchan = 0 THEN <<>>
    ELSE JournalHeaderPack(seq) \o FlattenSeq([i \in 1..Len(Created) |-> ChannelPack(Created[i])])

-----------------------------------------------------------------------------
\* What a receiver reads: an entry by the length in its header, in it the
\* chapters its header names, in the order P, C, N.
LengthAt(s, i) == Get16(s, i) % 1024

Names(toc) == {x \in {"P", "C", "N"} : (toc \div Toc({x})) % 2 = 1}

ReadBits(s, i, lowest, highest) ==
    {b \in (lowest..highest) \X (0..7) : (s[i + (b[1] - lowest)] \div Weight[b[2] + 1]) % 2 = 1}

ReadEntry(s, i) ==
    LET names   == Names(s[i + 2])
        atC     == i + 3 + (IF "P" \in names THEN 3 ELSE 0)
        logs    == (s[atC] % 128) + 1
        atN     == atC + (IF "C" \in names THEN 1 + 2 * logs ELSE 0)
        played  == s[atN] % 128
        lowest  == s[atN + 1] \div 16
        highest == s[atN + 1] % 16
    IN  [number  |-> (Get16(s, i) \div 2048) % 16,
         flags   |-> names,
         program |-> IF "P" \in names THEN s[i + 3] % 128 ELSE NONE,
         control |-> IF "C" \in names
                     THEN {<<s[atC + 2 * j - 1] % 128, s[atC + 2 * j]>> : j \in 1..logs} ELSE {},
         notes   |-> IF "N" \in names
                     THEN [j \in 1..played |-> <<s[atN + 2 * j], s[atN + 2 * j + 1]>>] ELSE <<>>,
         offbits |-> IF "N" \in names THEN ReadBits(s, atN + 2 + 2 * played, lowest, highest) ELSE {},
         next    |-> IF "N" \in names
                     THEN atN + 2 + 2 * played + MaxOf(0, highest - lowest + 1) ELSE atN]

\* What it should read of channel c, if no chapter P is left from before a reset.
Said(c) ==
    [number  |-> PackChannel(c).number,
     flags   |-> flags[c],
     program |-> IF "P" \in flags[c] THEN program[c] ELSE NONE,
     control |-> {<<k, control[c][k]>> : k \in {k \in Controller : control[c][k] # NONE}},
     notes   |-> notes[c],
     offbits |-> PackedOffBits(c)]

LeftOverP(c) == program[c] # NONE /\ "P" \notin flags[c]
LeftOverN(c) == hasN[c] /\ "N" \notin flags[c]

\* Where n entries begin, by their lengths.
EntriesAt(s, n) ==
    LET at[k \in 1..(n + 1)] == IF k = 1 THEN 4 ELSE at[k - 1] + LengthAt(s, at[k - 1])
    IN  at

\* From octet at on a receiver reads what the journal says of channel c and where the
\* next entry begins.  A chapter from before the last reset is packed though its entry
\* does not name it: an empty chapter N is skipped with the entry, after a chapter P
\* the entry cannot be read.
EntryReads(s, at, c, next) ==
    LET e == ReadEntry(s, at)
    IN  ~LeftOverP(c) => /\ \A f \in DOMAIN Said(c) : e[f] = Said(c)[f]
                         /\ ~LeftOverN(c) => e.next = next

\* Going from entry to entry by their lengths a receiver finds every channel and ends
\* where the journal ends, and the entries that name a chapter are as many as the
\* header announces.
ReadsWith(seq) ==
    LET s  == JournalPack(seq)
        n  == Len(Created)
        at == EntriesAt(s, n)
    IN  /\ Get16(s, 2) = seq
        /\ at[n + 1] = Len(s) + 1
        /\ Cardinality({k \in 1..n : s[at[k] + 2] # 0}) = (s[1] % 16) + 1
        /\ \A k \in 1..n : EntryReads(s, at[k], Created[k], at[k + 1])

\* The journal in a packet can be read: every entry says what the journal says of its
\* channel and is as long as its chapters, and the header gives the sequence number
\* and the number of channels.
ReadsAsPacked == totchan > 0 => \A seq \in {1, 65535} : ReadsWith(seq)
=============================================================================
