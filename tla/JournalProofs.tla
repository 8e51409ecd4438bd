---------------------------- MODULE JournalProofs ---------------------------
(***************************************************************************)
(* The recovery journal, for any channels, notes, controllers and values,  *)
(* any length of the list of notes and any number of events: nothing in it *)
(* is stale, every event that its fields can name can be recovered, and a  *)
(* receiver reads from its octets what was packed into them.               *)
(***************************************************************************)
EXTENDS JournalLayout, FiniteSetTheorems, SequenceTheorems, TLAPS

-----------------------------------------------------------------------------
\* The events of a kind in the log; one of them, if any, is the last.
At(kind, c, n) ==
    {i \in 1..Len(log) : log[i].kind = kind /\ log[i].channel = c /\ log[i].number = n}
IsLast(i, S) == i \in S /\ \A j \in S : j <= i
HasLatest == \A kind, c, n : At(kind, c, n) # {} => \E i \in At(kind, c, n) : IsLast(i, At(kind, c, n))

\* The inductive invariant.
JournalInv == TypeOK /\ HasLatest /\ NothingStale

\* The channels and notes the headers and bit fields have room for: channel 15 does not
\* fit in header->chan, and of a note that is a multiple of 8 no bit is set.
Numberable    == Channel \subseteq 0..14
Representable == Numberable /\ \A n \in Note : n % 8 # 0

\* What was added is where it belongs.
Entered(ev) ==
    LET c == ev.channel
    IN  /\ created[c] /\ chan[c] = c + 1
        /\ ev.kind = "on" => /\ "N" \in flags[c]
                             /\ \/ \E i \in 1..Len(notes[c]) : notes[c][i] = <<ev.number, ev.value>>
                                \/ Len(notes[c]) = MaxNotes
        /\ ev.kind = "off" => /\ "N" \in flags[c] /\ ev.number \in Note
                              /\ OffBit(ev.number) \subseteq offbits[c]
                              /\ ev.number \div 8 \in low[c]..high[c]
        /\ ev.kind = "control" => "C" \in flags[c] /\ ev.number \in Controller
        /\ ev.kind = "program" => "P" \in flags[c]

\* The channels that are counted are those with a number.
Numbered == {c \in Channel : chan[c] # 0}
Complete ==
    /\ \A c \in Channel : chan[c] \in {0, c + 1}
    /\ totchan = Cardinality(Numbered)
    /\ \A ev \in Logged : Entered(ev)

\* LatestOf, said with At.
LEMMA LatestAt ==
    ASSUME NEW kind, NEW c, NEW n
    PROVE  LatestOf(kind, c, n) = IF At(kind, c, n) = {} THEN NONE
                                  ELSE log[CHOOSE i \in At(kind, c, n) : \A j \in At(kind, c, n) : j <= i].value
  BY DEF LatestOf, At

\* An event that is added comes last, and is the latest of its kind; nothing else changes.
LEMMA LatestAppend ==
    ASSUME log \in Seq(Event), HasLatest, NEW ev \in Event, log' = Append(log, ev)
    PROVE  /\ HasLatest'
           /\ \A kind, c, n :
                 LatestOf(kind, c, n)' = IF ev.kind = kind /\ ev.channel = c /\ ev.number = n
                                         THEN ev.value ELSE LatestOf(kind, c, n)
           /\ Logged' = Logged \cup {ev}
           /\ log' \in Seq(Event) /\ log' # <<>>
<1> DEFINE m == Len(log) + 1
<1> HIDE DEF m
<1>1. /\ Len(log) \in Nat /\ m \in Nat /\ m > Len(log) /\ Len(log') = m
      /\ \A i \in 1..Len(log) : log'[i] = log[i] /\ i \in Nat /\ i <= m /\ i # m
      /\ log'[m] = ev /\ log' \in Seq(Event)
      /\ \A i : i \in 1..m <=> i \in 1..Len(log) \/ i = m
  <2>1. Len(log) \in Nat
    BY LenProperties
  <2>2. log' \in Seq(Event) /\ Len(log') = Len(log) + 1
        /\ (\A i \in 1..Len(log) : log'[i] = log[i]) /\ log'[Len(log) + 1] = ev
    BY AppendProperties
  <2>3. QED
    BY <2>1, <2>2 DEF m
<1>2. Logged' = Logged \cup {ev}
  <2>1. Logged' = {log'[i] : i \in 1..m}
    BY <1>1 DEF Logged
  <2>2. QED
    BY <1>1, <2>1 DEF Logged
<1>3. ASSUME NEW kind, NEW c, NEW n
      PROVE  /\ At(kind, c, n)' # {} => \E i \in At(kind, c, n)' : IsLast(i, At(kind, c, n)')
             /\ LatestOf(kind, c, n)' = IF ev.kind = kind /\ ev.channel = c /\ ev.number = n
                                        THEN ev.value ELSE LatestOf(kind, c, n)
  <2> DEFINE S == At(kind, c, n)
             T == {i \in 1..m : log'[i].kind = kind /\ log'[i].channel = c /\ log'[i].number = n}
  <2>1. At(kind, c, n)' = T
    BY <1>1 DEF At
  <2>2. \A i : i \in S <=> i \in 1..Len(log) /\ log[i].kind = kind /\ log[i].channel = c /\ log[i].number = n
    BY DEF At
  <2>3. LatestOf(kind, c, n)' = IF T = {} THEN NONE ELSE log'[CHOOSE i \in T : \A j \in T : j <= i].value
    BY <1>1 DEF LatestOf
  <2>4. LatestOf(kind, c, n) = IF S = {} THEN NONE ELSE log[CHOOSE i \in S : \A j \in S : j <= i].value
    BY LatestAt
  <2>5. S # {} => \E i \in S : \A j \in S : j <= i
    BY DEF HasLatest, IsLast
  <2>6. CASE ev.kind = kind /\ ev.channel = c /\ ev.number = n
    <3>1. m \in T /\ \A j \in T : j <= m /\ j \in Nat
      BY <1>1, <2>6
    <3>2. \A i \in T : (\A j \in T : j <= i) => i = m
      BY <1>1, <3>1
    <3> HIDE DEF T
    <3>3. (CHOOSE i \in T : \A j \in T : j <= i) = m
      BY <3>1, <3>2
    <3>4. QED
      BY <1>1, <2>1, <2>3, <2>6, <3>1, <3>3 DEF IsLast
  <2>7. CASE ~(ev.kind = kind /\ ev.channel = c /\ ev.number = n)
    <3>1. \A i : i \in T <=> i \in S
      BY <1>1, <2>2, <2>7
    <3> HIDE DEF T, S
    <3>2. T = S
      BY <3>1
    <3>3. S # {} => (CHOOSE i \in S : \A j \in S : j <= i) \in S
      BY <2>5
    <3>4. \A i \in S : log'[i] = log[i]
      BY <1>1, <2>2
    <3>5. LatestOf(kind, c, n)' = LatestOf(kind, c, n)
      BY <2>3, <2>4, <3>2, <3>3, <3>4
    <3>6. QED
      BY <2>1, <2>5, <2>7, <3>2, <3>5 DEF IsLast
  <2>8. QED
    BY <2>6, <2>7
<1>4. HasLatest'
  BY <1>3 DEF HasLatest
<1>5. log' # <<>>
  BY <1>1, EmptySeq
<1>6. QED
  BY <1>1, <1>2, <1>3, <1>4, <1>5

\* The journal that journal_init makes.
LEMMA InitJournal == Init => JournalInv
<1> SUFFICES ASSUME Init PROVE JournalInv
  OBVIOUS
<1>1. Len(log) = 0 /\ log \in Seq(Event)
  BY EmptySeq DEF Init
<1>2. \A kind, c, n : At(kind, c, n) = {}
  BY <1>1 DEF At
<1>3. \A kind, c, n : LatestOf(kind, c, n) = NONE
  BY <1>2, LatestAt
<1>4. \A c \in Channel : notes[c] = <<>> /\ Len(notes[c]) = 0 /\ notes[c] \in Seq(Note \X Value)
  BY EmptySeq DEF Init
<1>5. TypeOK
  BY <1>1, <1>4, BoundsAssumption DEF Init, TypeOK
<1>6. NothingStale
  BY <1>3, <1>4 DEF Init, NothingStale, Packed
<1>7. QED
  BY <1>2, <1>5, <1>6 DEF JournalInv, HasLatest

\* What journal_reset leaves is empty.
LEMMA ResetJournal == ASSUME JournalInv, Reset PROVE JournalInv'
<1>1. TypeOK
  BY DEF JournalInv
<1>2. log' = <<>> /\ log' \in Seq(Event) /\ Len(log') = 0
  BY EmptySeq DEF Reset
<1>3. \A kind, c, n : At(kind, c, n)' = {}
  BY <1>2 DEF At
<1>4. \A kind, c, n : LatestOf(kind, c, n)' = NONE
  BY <1>2 DEF LatestOf
<1>5. \A c \in Channel : notes'[c] = <<>> /\ Len(notes'[c]) = 0 /\ notes'[c] \in Seq(Note \X Value)
  BY EmptySeq DEF Reset
<1>6. TypeOK'
  BY <1>1, <1>2, <1>5, BoundsAssumption DEF Reset, TypeOK
<1>7. NothingStale'
  BY <1>4, <1>5 DEF Reset, NothingStale, Packed
<1>8. QED
  BY <1>3, <1>6, <1>7 DEF JournalInv, HasLatest

-----------------------------------------------------------------------------
\* What the header of a channel and of the journal are after an event.
LEMMA MarkType ==
    ASSUME TypeOK, NEW c \in Channel, NEW x \in {"P", "C", "N"}, Mark(c, x)
    PROVE  /\ created' \in [Channel -> BOOLEAN] /\ chan' \in [Channel -> 0..15]
           /\ flags' \in [Channel -> SUBSET {"P", "C", "N"}] /\ totchan' \in 0..255
           /\ created'[c] /\ chan'[c] = (c + 1) % 16 /\ flags'[c] = flags[c] \cup {x}
           /\ \A d \in Channel : d # c => /\ created'[d] = created[d] /\ chan'[d] = chan[d]
                                          /\ flags'[d] = flags[d]
<1>1. c \in 0..15
  BY ChannelAssumption
<1>2. (c + 1) % 16 \in 0..15 /\ (totchan + 1) % 256 \in 0..255
  BY <1>1 DEF TypeOK
<1>3. totchan' \in 0..255
  BY <1>2 DEF Mark, TypeOK
<1>4. QED
  BY <1>2, <1>3 DEF Mark, TypeOK

\* The byte and the bit of a note.
LEMMA OffBitType == ASSUME NEW n \in Note
                    PROVE  n \div 8 \in 0..15 /\ OffBit(n) \subseteq (0..15) \X (0..7)
<1>1. n \in 0..127
  BY NoteAssumption
<1>2. n \div 8 \in 0..15 /\ n % 8 \in 0..7
  BY <1>1
<1>3. QED
  BY <1>2 DEF OffBit

\* An event recorded comes last in the log.
LEMMA RecordAppend ==
    ASSUME JournalInv, NEW kind \in {"on", "off", "control", "program"}, NEW c \in Channel,
           NEW n \in Note \cup Controller \cup {NONE}, NEW v \in Value \cup {NONE}, Record(kind, c, n, v)
    PROVE  \E ev \in Event :
              /\ ev = [kind |-> kind, channel |-> c, number |-> n, value |-> v]
              /\ HasLatest'
              /\ \A k, d, m : LatestOf(k, d, m)' = IF k = kind /\ d = c /\ m = n
                                                   THEN v ELSE LatestOf(k, d, m)
              /\ Logged' = Logged \cup {ev}
              /\ log' \in Seq(Event) /\ log' # <<>>
<1>1. PICK ev \in Event : ev = [kind |-> kind, channel |-> c, number |-> n, value |-> v]
  BY DEF Event
<1>2. log \in Seq(Event) /\ HasLatest /\ log' = Append(log, ev)
  BY <1>1 DEF JournalInv, TypeOK, Record
<1>3. /\ HasLatest'
      /\ \A k, d, m : LatestOf(k, d, m)' = IF ev.kind = k /\ ev.channel = d /\ ev.number = m
                                           THEN ev.value ELSE LatestOf(k, d, m)
      /\ Logged' = Logged \cup {ev}
      /\ log' \in Seq(Event) /\ log' # <<>>
  BY <1>2, LatestAppend
<1>4. ev.kind = kind /\ ev.channel = c /\ ev.number = n /\ ev.value = v
  BY <1>1
<1>5. QED
  BY <1>1, <1>3, <1>4

-----------------------------------------------------------------------------
\* midi_journal_add_note with NOTE ON.
LEMMA NoteOnStep ==
    ASSUME JournalInv, NEW c \in Channel, NEW n \in Note, NEW v \in Value, AddNoteOn(c, n, v)
    PROVE  JournalInv'
<1>1. TypeOK /\ NothingStale
  BY DEF JournalInv
<1>2. Record("on", c, n, v) /\ Mark(c, "N")
  BY DEF AddNoteOn
<1>3. PICK ev \in Event :
         /\ ev = [kind |-> "on", channel |-> c, number |-> n, value |-> v]
         /\ HasLatest'
         /\ \A k, d, m : LatestOf(k, d, m)' = IF k = "on" /\ d = c /\ m = n
                                              THEN v ELSE LatestOf(k, d, m)
         /\ Logged' = Logged \cup {ev}
         /\ log' \in Seq(Event) /\ log' # <<>>
  BY <1>2, RecordAppend
<1>4. /\ created' \in [Channel -> BOOLEAN] /\ chan' \in [Channel -> 0..15]
      /\ flags' \in [Channel -> SUBSET {"P", "C", "N"}] /\ totchan' \in 0..255
      /\ flags'[c] = flags[c] \cup {"N"} /\ \A d \in Channel : d # c => flags'[d] = flags[d]
  BY <1>1, <1>2, MarkType
<1>5. \A d \in Channel : notes[d] \in Seq(Note \X Value) /\ Len(notes[d]) <= MaxNotes
  BY <1>1 DEF TypeOK
<1>6. \/ notes' = notes
      \/ /\ notes' = [notes EXCEPT ![c] = Append(@, <<n, v>>)]
         /\ Len(notes[c]) # MaxNotes
  BY DEF AddNoteOn
<1>7. ASSUME NEW d \in Channel
      PROVE  /\ notes'[d] \in Seq(Note \X Value) /\ Len(notes'[d]) <= MaxNotes
             /\ \A i \in 1..Len(notes'[d]) : \E e \in Logged' :
                   e.kind = "on" /\ e.channel = d /\ <<e.number, e.value>> = notes'[d][i]
  <2>1. \A i \in 1..Len(notes[d]) : \E e \in Logged' :
           e.kind = "on" /\ e.channel = d /\ <<e.number, e.value>> = notes[d][i]
    BY <1>1, <1>3 DEF NothingStale
  <2>2. CASE notes'[d] = notes[d]
    BY <1>5, <2>1, <2>2
  <2>3. CASE d = c /\ notes'[d] = Append(notes[d], <<n, v>>) /\ Len(notes[d]) # MaxNotes
    <3>1. /\ notes'[d] \in Seq(Note \X Value) /\ Len(notes'[d]) = Len(notes[d]) + 1
          /\ \A i \in 1..Len(notes[d]) : notes'[d][i] = notes[d][i]
          /\ notes'[d][Len(notes[d]) + 1] = <<n, v>> /\ Len(notes[d]) \in Nat
      BY <1>5, <2>3, AppendProperties, LenProperties
    <3>2. Len(notes'[d]) <= MaxNotes
      BY <1>5, <2>3, <3>1, BoundsAssumption
    <3>3. ev \in Logged' /\ ev.kind = "on" /\ ev.channel = d /\ <<ev.number, ev.value>> = <<n, v>>
      BY <1>3, <2>3
    <3>4. ASSUME NEW i \in 1..Len(notes'[d])
          PROVE  \E e \in Logged' : e.kind = "on" /\ e.channel = d /\ <<e.number, e.value>> = notes'[d][i]
      <4>1. i \in 1..Len(notes[d]) \/ i = Len(notes[d]) + 1
        BY <3>1
      <4>2. QED
        BY <2>1, <3>1, <3>3, <4>1
    <3>5. QED
      BY <3>1, <3>2, <3>4
  <2>4. notes'[d] = notes[d] \/ (d = c /\ notes'[d] = Append(notes[d], <<n, v>>) /\ Len(notes[d]) # MaxNotes)
    BY <1>1, <1>6 DEF TypeOK
  <2>5. QED
    BY <2>2, <2>3, <2>4
<1>8. hasN' \in [Channel -> BOOLEAN] /\ notes' \in [Channel -> Seq(Note \X Value)]
  BY <1>1, <1>6, <1>7 DEF AddNoteOn, TypeOK
<1>9. TypeOK'
  BY <1>1, <1>3, <1>4, <1>7, <1>8 DEF AddNoteOn, TypeOK
<1>10. \A d \in Channel : "P" \in flags'[d] => program'[d] = LatestOf("program", d, NONE)'
  BY <1>1, <1>3, <1>4 DEF AddNoteOn, NothingStale
<1>11. \A d \in Channel, m \in Controller : control'[d][m] = LatestOf("control", d, m)'
  BY <1>1, <1>3 DEF AddNoteOn, NothingStale
<1>12. \A d \in Channel : \A b \in offbits'[d] : \E e \in Logged' :
          e.kind = "off" /\ e.channel = d /\ b \in OffBit(e.number)
  BY <1>1, <1>3 DEF AddNoteOn, NothingStale
<1>13. NothingStale'
  BY <1>3, <1>7, <1>10, <1>11, <1>12 DEF NothingStale
<1>14. QED
  BY <1>3, <1>9, <1>13 DEF JournalInv

\* midi_journal_add_note with NOTE OFF.
LEMMA NoteOffStep ==
    ASSUME JournalInv, NEW c \in Channel, NEW n \in Note, AddNoteOff(c, n)
    PROVE  JournalInv'
<1>1. TypeOK /\ NothingStale
  BY DEF JournalInv
<1>2. Record("off", c, n, NONE) /\ Mark(c, "N")
  BY DEF AddNoteOff
<1>3. PICK ev \in Event :
         /\ ev = [kind |-> "off", channel |-> c, number |-> n, value |-> NONE]
         /\ HasLatest'
         /\ \A k, d, m : LatestOf(k, d, m)' = IF k = "off" /\ d = c /\ m = n
                                              THEN NONE ELSE LatestOf(k, d, m)
         /\ Logged' = Logged \cup {ev}
         /\ log' \in Seq(Event) /\ log' # <<>>
  BY <1>2, RecordAppend
<1>4. /\ created' \in [Channel -> BOOLEAN] /\ chan' \in [Channel -> 0..15]
      /\ flags' \in [Channel -> SUBSET {"P", "C", "N"}] /\ totchan' \in 0..255
      /\ flags'[c] = flags[c] \cup {"N"} /\ \A d \in Channel : d # c => flags'[d] = flags[d]
  BY <1>1, <1>2, MarkType
<1>5. n \div 8 \in 0..15 /\ OffBit(n) \subseteq (0..15) \X (0..7)
  BY OffBitType
<1>6. \A d \in Channel : offbits'[d] = IF d = c THEN offbits[d] \cup OffBit(n) ELSE offbits[d]
  BY <1>1 DEF AddNoteOff, TypeOK
<1>7. low' \in [Channel -> 0..15] /\ high' \in [Channel -> 0..15]
  BY <1>1, <1>5 DEF AddNoteOff, TypeOK, MinOf, MaxOf
<1>8. offbits' \in [Channel -> SUBSET ((0..15) \X (0..7))] /\ hasN' \in [Channel -> BOOLEAN]
  BY <1>1, <1>5 DEF AddNoteOff, TypeOK
<1>9. TypeOK'
  BY <1>1, <1>3, <1>4, <1>7, <1>8 DEF AddNoteOff, TypeOK
<1>10. ASSUME NEW d \in Channel, NEW b \in offbits'[d]
       PROVE  \E e \in Logged' : e.kind = "off" /\ e.channel = d /\ b \in OffBit(e.number)
  <2>1. CASE b \in offbits[d]
    BY <1>1, <1>3, <2>1 DEF NothingStale
  <2>2. CASE d = c /\ b \in OffBit(n)
    <3>1. ev \in Logged' /\ ev.kind = "off" /\ ev.channel = d /\ ev.number = n
      BY <1>3, <2>2
    <3>2. QED
      BY <2>2, <3>1
  <2>3. QED
    BY <1>6, <1>10, <2>1, <2>2
<1>11. \A d \in Channel : \A i \in 1..Len(notes[d]) : \E e \in Logged' :
          e.kind = "on" /\ e.channel = d /\ <<e.number, e.value>> = notes[d][i]
  BY <1>1, <1>3 DEF NothingStale
<1>12. \A d \in Channel : "P" \in flags'[d] => program'[d] = LatestOf("program", d, NONE)'
  BY <1>1, <1>3, <1>4 DEF AddNoteOff, NothingStale
<1>13. \A d \in Channel, m \in Controller : control'[d][m] = LatestOf("control", d, m)'
  BY <1>1, <1>3 DEF AddNoteOff, NothingStale
<1>14. notes' = notes
  BY DEF AddNoteOff
<1>15. NothingStale'
  BY <1>3, <1>10, <1>11, <1>12, <1>13, <1>14 DEF NothingStale
<1>16. QED
  BY <1>3, <1>9, <1>15 DEF JournalInv

\* midi_journal_add_control.
LEMMA ControlStep ==
    ASSUME JournalInv, NEW c \in Channel, NEW k \in Controller, NEW v \in Value, AddControl(c, k, v)
    PROVE  JournalInv'
<1>1. TypeOK /\ NothingStale
  BY DEF JournalInv
<1>2. Record("control", c, k, v) /\ Mark(c, "C")
  BY DEF AddControl
<1>3. PICK ev \in Event :
         /\ ev = [kind |-> "control", channel |-> c, number |-> k, value |-> v]
         /\ HasLatest'
         /\ \A x, d, m : LatestOf(x, d, m)' = IF x = "control" /\ d = c /\ m = k
                                              THEN v ELSE LatestOf(x, d, m)
         /\ Logged' = Logged \cup {ev}
         /\ log' \in Seq(Event) /\ log' # <<>>
  BY <1>2, RecordAppend
<1>4. /\ created' \in [Channel -> BOOLEAN] /\ chan' \in [Channel -> 0..15]
      /\ flags' \in [Channel -> SUBSET {"P", "C", "N"}] /\ totchan' \in 0..255
      /\ flags'[c] = flags[c] \cup {"C"} /\ \A d \in Channel : d # c => flags'[d] = flags[d]
  BY <1>1, <1>2, MarkType
<1>5. \A d \in Channel, m \in Controller : control'[d][m] = IF d = c /\ m = k THEN v ELSE control[d][m]
  BY <1>1 DEF AddControl, TypeOK
<1>6. control' \in [Channel -> [Controller -> Value \cup {NONE}]]
  BY <1>1 DEF AddControl, TypeOK
<1>7. TypeOK'
  BY <1>1, <1>3, <1>4, <1>6 DEF AddControl, TypeOK, chapterN
<1>8. \A d \in Channel : /\ \A i \in 1..Len(notes[d]) : \E e \in Logged' :
                               e.kind = "on" /\ e.channel = d /\ <<e.number, e.value>> = notes[d][i]
                         /\ \A b \in offbits[d] : \E e \in Logged' :
                               e.kind = "off" /\ e.channel = d /\ b \in OffBit(e.number)
  BY <1>1, <1>3 DEF NothingStale
<1>9. \A d \in Channel : "P" \in flags'[d] => program'[d] = LatestOf("program", d, NONE)'
  BY <1>1, <1>3, <1>4 DEF AddControl, NothingStale
<1>10. \A d \in Channel, m \in Controller : control'[d][m] = LatestOf("control", d, m)'
  BY <1>1, <1>3, <1>5 DEF NothingStale
<1>11. NothingStale'
  BY <1>3, <1>8, <1>9, <1>10 DEF AddControl, NothingStale, chapterN
<1>12. QED
  BY <1>3, <1>7, <1>11 DEF JournalInv

\* midi_journal_add_program.
LEMMA ProgramStep ==
    ASSUME JournalInv, NEW c \in Channel, NEW v \in Value, AddProgram(c, v)
    PROVE  JournalInv'
<1>1. TypeOK /\ NothingStale
  BY DEF JournalInv
<1>2. Record("program", c, NONE, v) /\ Mark(c, "P")
  BY DEF AddProgram
<1>3. PICK ev \in Event :
         /\ ev = [kind |-> "program", channel |-> c, number |-> NONE, value |-> v]
         /\ HasLatest'
         /\ \A x, d, m : LatestOf(x, d, m)' = IF x = "program" /\ d = c /\ m = NONE
                                              THEN v ELSE LatestOf(x, d, m)
         /\ Logged' = Logged \cup {ev}
         /\ log' \in Seq(Event) /\ log' # <<>>
  BY <1>2, RecordAppend
<1>4. /\ created' \in [Channel -> BOOLEAN] /\ chan' \in [Channel -> 0..15]
      /\ flags' \in [Channel -> SUBSET {"P", "C", "N"}] /\ totchan' \in 0..255
      /\ flags'[c] = flags[c] \cup {"P"} /\ \A d \in Channel : d # c => flags'[d] = flags[d]
  BY <1>1, <1>2, MarkType
<1>5. program' \in [Channel -> Value \cup {NONE}]
      /\ \A d \in Channel : program'[d] = IF d = c THEN v ELSE program[d]
  BY <1>1 DEF AddProgram, TypeOK
<1>6. TypeOK'
  BY <1>1, <1>3, <1>4, <1>5 DEF AddProgram, TypeOK, chapterN
<1>7. \A d \in Channel : /\ \A i \in 1..Len(notes[d]) : \E e \in Logged' :
                               e.kind = "on" /\ e.channel = d /\ <<e.number, e.value>> = notes[d][i]
                         /\ \A b \in offbits[d] : \E e \in Logged' :
                               e.kind = "off" /\ e.channel = d /\ b \in OffBit(e.number)
  BY <1>1, <1>3 DEF NothingStale
<1>8. \A d \in Channel : "P" \in flags'[d] => program'[d] = LatestOf("program", d, NONE)'
  BY <1>1, <1>3, <1>4, <1>5 DEF NothingStale
<1>9. \A d \in Channel, m \in Controller : control'[d][m] = LatestOf("control", d, m)'
  BY <1>1, <1>3 DEF AddProgram, NothingStale
<1>10. NothingStale'
  BY <1>3, <1>7, <1>8, <1>9 DEF AddProgram, NothingStale, chapterN
<1>11. QED
  BY <1>3, <1>6, <1>10 DEF JournalInv

\* Every operation keeps the invariant.
LEMMA StepJournal == ASSUME JournalInv, [Next]_vars PROVE JournalInv'
<1>1. CASE UNCHANGED vars
  <2>1. \A kind, c, n : LatestOf(kind, c, n)' = LatestOf(kind, c, n) /\ At(kind, c, n)' = At(kind, c, n)
    BY <1>1 DEF vars, LatestOf, At
  <2>2. Logged' = Logged
    BY <1>1 DEF vars, Logged
  <2>3. TypeOK' /\ HasLatest'
    BY <1>1, <2>1 DEF JournalInv, vars, TypeOK, HasLatest, IsLast
  <2>4. Packed' = Packed
    BY <1>1 DEF vars, Packed, PackChannel, PackedOffBits
  <2>5. NothingStale'
    BY <1>1, <2>1, <2>2, <2>4 DEF JournalInv, vars, NothingStale
  <2>6. QED
    BY <2>3, <2>5 DEF JournalInv
<1>2. QED
  BY <1>1, NoteOnStep, NoteOffStep, ControlStep, ProgramStep, ResetJournal DEF Next

-----------------------------------------------------------------------------
\* The invariant holds whatever is added to the journal and whenever it is reset.
THEOREM JournalInvariant == Spec => []JournalInv
  BY InitJournal, StepJournal, PTL DEF Spec

\* Every field of the headers and chapters fits where midi_journal.c stores it.
THEOREM JournalTypeOK == Spec => []TypeOK
<1>1. JournalInv => TypeOK
  BY DEF JournalInv
<1>2. QED
  BY <1>1, JournalInvariant, PTL

\* journal_pack never replays what the peer has acknowledged, nor a value that a later
\* event has replaced.
THEOREM JournalNothingStale == Spec => []NothingStale
<1>1. JournalInv => NothingStale
  BY DEF JournalInv
<1>2. QED
  BY <1>1, JournalInvariant, PTL

-----------------------------------------------------------------------------
\* The channels are few enough to be counted in a byte.
LEMMA FewChannels ==
    ASSUME Numberable, NEW S, S \subseteq Channel
    PROVE  IsFiniteSet(S) /\ Cardinality(S) \in Nat /\ Cardinality(S) <= 15
<1>1. IsFiniteSet(0..14) /\ Cardinality(0..14) = 15
  <2>1. \A a, b \in Int : IsFiniteSet(a..b) /\ Cardinality(a..b) = IF a > b THEN 0 ELSE b - a + 1
    BY FS_Interval
  <2>2. PICK a, b \in Int : a = 0 /\ b = 14
    OBVIOUS
  <2>3. IsFiniteSet(a..b) /\ Cardinality(a..b) = IF a > b THEN 0 ELSE b - a + 1
    BY <2>1, <2>2
  <2>4. (IF a > b THEN 0 ELSE b - a + 1) = 15
    BY <2>2
  <2>5. Cardinality(a..b) = 15
    BY <2>3, <2>4
  <2>6. QED
    BY <2>2, <2>3, <2>5
<1>2. S \subseteq 0..14
  BY DEF Numberable
<1>3. QED
  BY <1>1, <1>2, FS_Subset, FS_CardinalityType

\* A channel is counted with the first event that is added to it.
LEMMA MarkCounts ==
    ASSUME Numberable, TypeOK, Complete, NEW c \in Channel, NEW x \in {"P", "C", "N"}, Mark(c, x)
    PROVE  /\ \A d \in Channel : chan'[d] \in {0, d + 1}
           /\ totchan' = Cardinality(Numbered')
           /\ created'[c] /\ chan'[c] = c + 1 /\ x \in flags'[c]
           /\ \A d \in Channel : /\ created[d] => created'[d]
                                 /\ chan[d] = d + 1 => chan'[d] = d + 1
                                 /\ flags[d] \subseteq flags'[d]
<1>1. c \in 0..14 /\ (c + 1) % 16 = c + 1 /\ c + 1 # 0
  BY DEF Numberable
<1>2. /\ created'[c] /\ chan'[c] = c + 1 /\ flags'[c] = flags[c] \cup {x}
      /\ \A d \in Channel : d # c => /\ created'[d] = created[d] /\ chan'[d] = chan[d]
                                     /\ flags'[d] = flags[d]
  BY <1>1, MarkType
<1>3. \A d \in Channel : d \in Nat /\ chan[d] \in {0, d + 1}
  BY DEF Complete, Numberable
<1>4. Numbered' = Numbered \cup {c}
  BY <1>1, <1>2 DEF Numbered
<1>5. CASE chan[c] = c + 1
  <2>1. c \in Numbered /\ totchan' = totchan
    BY <1>1, <1>5 DEF Numbered, Mark
  <2>2. Numbered' = Numbered
    BY <1>4, <2>1
  <2>3. QED
    BY <1>2, <1>3, <2>1, <2>2 DEF Complete
<1>6. CASE chan[c] # c + 1
  <2>1. c \notin Numbered /\ totchan' = (totchan + 1) % 256
    BY <1>3, <1>6 DEF Numbered, Mark
  <2>2. IsFiniteSet(Numbered) /\ Cardinality(Numbered) \in Nat /\ Cardinality(Numbered) <= 15
    BY FewChannels DEF Numbered
  <2>3. Cardinality(Numbered') = Cardinality(Numbered) + 1
    BY <1>4, <2>1, <2>2, FS_AddElement
  <2>4. totchan' = totchan + 1
    BY <2>1, <2>2 DEF Complete
  <2>5. QED
    BY <1>2, <1>3, <2>3, <2>4 DEF Complete
<1>7. QED
  BY <1>5, <1>6

\* The events of the log are in it with a channel of the journal.
LEMMA LoggedType == ASSUME TypeOK, NEW ev \in Logged PROVE ev \in Event
<1>1. PICK i \in 1..Len(log) : ev = log[i]
  BY DEF Logged
<1> DEFINE E == Event
<1>2. log \in Seq(E)
  BY DEF TypeOK
<1> HIDE DEF E
<1>3. log[i] \in E
  BY <1>2, ElementOfSeq
<1>4. QED
  BY <1>1, <1>3 DEF E

\* An event that is added is entered, and no other is removed.
LEMMA StepComplete == ASSUME Numberable, JournalInv, Complete, [Next]_vars PROVE Complete'
<1>1. TypeOK
  BY DEF JournalInv
<1>2. \A ev \in Logged : ev.channel \in Channel
  BY <1>1, LoggedType DEF Event
<1>3. ASSUME NEW c \in Channel, NEW n \in Note, NEW v \in Value, AddNoteOn(c, n, v) PROVE Complete'
  <2>1. Record("on", c, n, v) /\ Mark(c, "N") /\ UNCHANGED <<offbits, low, high>>
    BY <1>3 DEF AddNoteOn
  <2>2. PICK e \in Event : e = [kind |-> "on", channel |-> c, number |-> n, value |-> v]
                           /\ Logged' = Logged \cup {e}
    BY <2>1, RecordAppend
  <2>3. /\ \A d \in Channel : chan'[d] \in {0, d + 1}
        /\ totchan' = Cardinality(Numbered')
        /\ created'[c] /\ chan'[c] = c + 1 /\ "N" \in flags'[c]
        /\ \A d \in Channel : /\ created[d] => created'[d]
                              /\ chan[d] = d + 1 => chan'[d] = d + 1
                              /\ flags[d] \subseteq flags'[d]
    BY <1>1, <2>1, MarkCounts
  <2>4. /\ \A d \in Channel : notes[d] \in Seq(Note \X Value) /\ Len(notes[d]) <= MaxNotes
        /\ \A d \in Channel : notes'[d] = notes[d] \/ (d = c /\ notes'[d] = Append(notes[d], <<n, v>>))
        /\ Len(notes[c]) # MaxNotes => notes'[c] = Append(notes[c], <<n, v>>)
        /\ Len(notes[c]) = MaxNotes => notes' = notes
    BY <1>1, <1>3 DEF AddNoteOn, TypeOK
  <2>5. \A d \in Channel : /\ Len(notes[d]) \in Nat /\ (notes'[d] # notes[d] => Len(notes[d]) # MaxNotes)
                           /\ \A i \in 1..Len(notes[d]) : i \in 1..Len(notes'[d]) /\ notes'[d][i] = notes[d][i]
    <3> TAKE d \in Channel
    <3>1. Len(notes[d]) \in Nat
      BY <2>4, LenProperties
    <3>2. CASE notes'[d] = notes[d]
      BY <3>1, <3>2
    <3>3. CASE notes'[d] # notes[d]
      <4>1. d = c /\ notes'[d] = Append(notes[d], <<n, v>>) /\ Len(notes[d]) # MaxNotes
        BY <2>4, <3>3
      <4>2. Len(notes'[d]) = Len(notes[d]) + 1 /\ \A i \in 1..Len(notes[d]) : notes'[d][i] = notes[d][i]
        BY <2>4, <4>1, AppendProperties
      <4>3. QED
        BY <3>1, <4>1, <4>2
    <3>4. QED
      BY <3>2, <3>3
  <2>6. ASSUME NEW ev \in Logged PROVE Entered(ev)'
    <3> DEFINE d == ev.channel
    <3>1. d \in Channel /\ Entered(ev)
      BY <1>2 DEF Complete
    <3>2. ev.kind = "on" => \/ \E i \in 1..Len(notes'[d]) : notes'[d][i] = <<ev.number, ev.value>>
                            \/ Len(notes'[d]) = MaxNotes
      BY <2>5, <3>1 DEF Entered
    <3>3. QED
      BY <2>1, <2>3, <3>1, <3>2 DEF Entered
  <2>7. Entered(e)'
    <3>1. \/ \E i \in 1..Len(notes'[c]) : notes'[c][i] = <<n, v>>
          \/ Len(notes'[c]) = MaxNotes
      <4>1. CASE Len(notes[c]) = MaxNotes
        BY <2>4, <4>1
      <4>2. CASE Len(notes[c]) # MaxNotes
        <5>1. /\ Len(notes'[c]) = Len(notes[c]) + 1 /\ notes'[c][Len(notes[c]) + 1] = <<n, v>>
              /\ Len(notes[c]) \in Nat
          BY <2>4, <2>5, <4>2, AppendProperties
        <5>2. Len(notes[c]) + 1 \in 1..Len(notes'[c])
          BY <5>1
        <5>3. QED
          BY <5>1, <5>2
      <4>3. QED
        BY <4>1, <4>2
    <3>2. e.kind = "on" /\ e.channel = c /\ e.number = n /\ e.value = v
      BY <2>2
    <3>3. QED
      BY <2>3, <3>1, <3>2 DEF Entered
  <2>8. QED
    BY <2>2, <2>3, <2>6, <2>7 DEF Complete
<1>4. ASSUME NEW c \in Channel, NEW n \in Note, AddNoteOff(c, n) PROVE Complete'
  <2>1. Record("off", c, n, NONE) /\ Mark(c, "N") /\ notes' = notes
    BY <1>4 DEF AddNoteOff
  <2>2. PICK e \in Event : e = [kind |-> "off", channel |-> c, number |-> n, value |-> NONE]
                           /\ Logged' = Logged \cup {e}
    BY <2>1, RecordAppend
  <2>3. /\ \A d \in Channel : chan'[d] \in {0, d + 1}
        /\ totchan' = Cardinality(Numbered')
        /\ created'[c] /\ chan'[c] = c + 1 /\ "N" \in flags'[c]
        /\ \A d \in Channel : /\ created[d] => created'[d]
                              /\ chan[d] = d + 1 => chan'[d] = d + 1
                              /\ flags[d] \subseteq flags'[d]
    BY <1>1, <2>1, MarkCounts
  <2>4. n \div 8 \in 0..15
    BY OffBitType
  <2>5. /\ \A d \in Channel : offbits[d] \subseteq offbits'[d]
        /\ OffBit(n) \subseteq offbits'[c]
    BY <1>1, <1>4 DEF AddNoteOff, TypeOK
  <2>6. /\ \A d \in Channel : /\ low[d] \in 0..15 /\ high[d] \in 0..15
                              /\ low'[d] \in 0..15 /\ high'[d] \in 0..15
                              /\ low'[d] <= low[d] /\ high'[d] >= high[d]
        /\ low'[c] <= n \div 8 /\ high'[c] >= n \div 8
    <3>1. PICK b : b = n \div 8
      OBVIOUS
    <3>2. low' = [low EXCEPT ![c] = MinOf(b, @)] /\ high' = [high EXCEPT ![c] = MaxOf(b, @)]
      BY <1>4, <3>1 DEF AddNoteOff
    <3>3. \A d \in Channel : low[d] \in 0..15 /\ high[d] \in 0..15
      BY <1>1 DEF TypeOK
    <3>4. low \in [Channel -> 0..15] /\ high \in [Channel -> 0..15] /\ b \in 0..15
      BY <1>1, <2>4, <3>1 DEF TypeOK
    <3>5. \A d \in Channel : /\ low'[d] = IF d = c THEN MinOf(b, low[d]) ELSE low[d]
                             /\ high'[d] = IF d = c THEN MaxOf(b, high[d]) ELSE high[d]
      BY <3>2, <3>4
    <3>6. QED
      BY <3>1, <3>3, <3>4, <3>5 DEF MinOf, MaxOf
  <2>7. ASSUME NEW ev \in Logged PROVE Entered(ev)'
    <3> DEFINE d == ev.channel
    <3>1. d \in Channel /\ Entered(ev)
      BY <1>2 DEF Complete
    <3>2. ev.kind = "off" => ev.number \in Note /\ ev.number \div 8 \in low[d]..high[d]
      BY <3>1 DEF Entered
    <3>3. ev.kind = "off" => ev.number \div 8 \in low'[d]..high'[d]
      <4>1. ev.kind = "off" => ev.number \div 8 \in 0..15
        BY <3>2, OffBitType
      <4>2. QED
        BY <2>6, <3>1, <3>2, <4>1
    <3>4. ev.kind = "off" => OffBit(ev.number) \subseteq offbits'[d]
      BY <2>5, <3>1 DEF Entered
    <3>5. QED
      BY <2>1, <2>3, <3>1, <3>2, <3>3, <3>4 DEF Entered
  <2>8. Entered(e)'
    <3>1. e.kind = "off" /\ e.channel = c /\ e.number = n
      BY <2>2
    <3>2. n \div 8 \in low'[c]..high'[c]
      BY <2>4, <2>6
    <3>3. QED
      BY <2>3, <2>5, <3>1, <3>2 DEF Entered
  <2>9. QED
    BY <2>2, <2>3, <2>7, <2>8 DEF Complete
<1>5. ASSUME NEW c \in Channel, NEW k \in Controller, NEW v \in Value, AddControl(c, k, v) PROVE Complete'
  <2>1. Record("control", c, k, v) /\ Mark(c, "C") /\ UNCHANGED <<notes, offbits, low, high>>
    BY <1>5 DEF AddControl, chapterN
  <2>2. PICK e \in Event : e = [kind |-> "control", channel |-> c, number |-> k, value |-> v]
                           /\ Logged' = Logged \cup {e}
    BY <2>1, RecordAppend
  <2>3. /\ \A d \in Channel : chan'[d] \in {0, d + 1}
        /\ totchan' = Cardinality(Numbered')
        /\ created'[c] /\ chan'[c] = c + 1 /\ "C" \in flags'[c]
        /\ \A d \in Channel : /\ created[d] => created'[d]
                              /\ chan[d] = d + 1 => chan'[d] = d + 1
                              /\ flags[d] \subseteq flags'[d]
    BY <1>1, <2>1, MarkCounts
  <2>4. ASSUME NEW ev \in Logged PROVE Entered(ev)'
    <3>1. ev.channel \in Channel /\ Entered(ev)
      BY <1>2 DEF Complete
    <3>2. QED
      BY <2>1, <2>3, <3>1 DEF Entered
  <2>5. Entered(e)'
    <3>1. e.kind = "control" /\ e.channel = c /\ e.number = k
      BY <2>2
    <3>2. QED
      BY <2>3, <3>1 DEF Entered
  <2>6. QED
    BY <2>2, <2>3, <2>4, <2>5 DEF Complete
<1>6. ASSUME NEW c \in Channel, NEW v \in Value, AddProgram(c, v) PROVE Complete'
  <2>1. Record("program", c, NONE, v) /\ Mark(c, "P") /\ UNCHANGED <<notes, offbits, low, high>>
    BY <1>6 DEF AddProgram, chapterN
  <2>2. PICK e \in Event : e = [kind |-> "program", channel |-> c, number |-> NONE, value |-> v]
                           /\ Logged' = Logged \cup {e}
    BY <2>1, RecordAppend
  <2>3. /\ \A d \in Channel : chan'[d] \in {0, d + 1}
        /\ totchan' = Cardinality(Numbered')
        /\ created'[c] /\ chan'[c] = c + 1 /\ "P" \in flags'[c]
        /\ \A d \in Channel : /\ created[d] => created'[d]
                              /\ chan[d] = d + 1 => chan'[d] = d + 1
                              /\ flags[d] \subseteq flags'[d]
    BY <1>1, <2>1, MarkCounts
  <2>4. ASSUME NEW ev \in Logged PROVE Entered(ev)'
    <3>1. ev.channel \in Channel /\ Entered(ev)
      BY <1>2 DEF Complete
    <3>2. QED
      BY <2>1, <2>3, <3>1 DEF Entered
  <2>5. Entered(e)'
    <3>1. e.kind = "program" /\ e.channel = c
      BY <2>2
    <3>2. QED
      BY <2>3, <3>1 DEF Entered
  <2>6. QED
    BY <2>2, <2>3, <2>4, <2>5 DEF Complete
<1>7. CASE Reset
  <2>1. Logged' = {} /\ Numbered' = {} /\ totchan' = 0 /\ \A d \in Channel : chan'[d] = 0
    <3>1. Len(log') = 0
      BY <1>7, EmptySeq DEF Reset
    <3>2. QED
      BY <1>7, <3>1 DEF Reset, Logged, Numbered
  <2>2. QED
    BY <2>1, FS_EmptySet DEF Complete
<1>8. CASE UNCHANGED vars
  <2>1. Logged' = Logged /\ Numbered' = Numbered
    BY <1>8 DEF vars, Logged, Numbered
  <2>2. \A ev \in Logged : Entered(ev)'
    BY <1>8 DEF vars, Entered, Complete
  <2>3. QED
    BY <1>8, <2>1, <2>2 DEF vars, Complete
<1>9. QED
  BY <1>3, <1>4, <1>5, <1>6, <1>7, <1>8 DEF Next

\* What is entered can be recovered from what journal_pack makes of it.
LEMMA CompleteRecovers == ASSUME Representable, JournalInv, Complete PROVE EventsInJournal
<1>1. TypeOK /\ NothingStale
  BY DEF JournalInv
<1>2. SUFFICES ASSUME NEW ev \in Logged PROVE \E e \in Packed : Recovers(e, ev)
  BY DEF EventsInJournal
<1> DEFINE c == ev.channel
<1>3. c \in Channel /\ ev.kind \in {"on", "off", "control", "program"} /\ Entered(ev)
  BY <1>1, LoggedType DEF Event, Complete
<1>4. totchan > 0
  <2>1. c \in Nat /\ chan[c] = c + 1 /\ c + 1 # 0
    <3>1. chan[c] = c + 1
      BY <1>3 DEF Entered
    <3>2. c \in 0..15
      BY <1>3, ChannelAssumption
    <3>3. QED
      BY <3>1, <3>2
  <2>2. c \in Numbered
    BY <1>3, <2>1 DEF Numbered
  <2>3. IsFiniteSet(Numbered) /\ Cardinality(Numbered) \in Nat
    BY FewChannels DEF Numbered, Representable
  <2>4. Cardinality(Numbered) # 0
    BY <2>2, <2>3, FS_EmptySet
  <2>5. QED
    BY <2>3, <2>4 DEF Complete
<1>5. PackChannel(c) \in Packed
  BY <1>3, <1>4 DEF Packed, Entered
<1>6. /\ PackChannel(c).number = c /\ PackChannel(c).flags = flags[c]
      /\ PackChannel(c).program = program[c] /\ PackChannel(c).control = control[c]
      /\ PackChannel(c).notes = notes[c] /\ PackChannel(c).offbits = PackedOffBits(c)
  <2>1. c \in 0..15 /\ chan[c] = c + 1
    BY <1>3, ChannelAssumption DEF Entered
  <2>2. QED
    BY <2>1 DEF PackChannel
<1>7. CASE ev.kind = "on"
  BY <1>3, <1>5, <1>6, <1>7 DEF Entered, Recovers
<1>8. CASE ev.kind = "off"
  <2>1. /\ "N" \in flags[c] /\ ev.number \in Note /\ OffBit(ev.number) \subseteq offbits[c]
        /\ ev.number \div 8 \in low[c]..high[c]
    BY <1>3, <1>8 DEF Entered
  <2>2. PICK b : b = <<ev.number \div 8, (ev.number % 8) - 1>>
    OBVIOUS
  <2>3. OffBit(ev.number) = {b}
    BY <2>1, <2>2 DEF OffBit, Representable
  <2>4. b \in PackedOffBits(c)
    BY <2>1, <2>2, <2>3 DEF PackedOffBits
  <2>5. QED
    BY <1>5, <1>6, <1>8, <2>1, <2>3, <2>4 DEF Recovers
<1>9. CASE ev.kind = "control"
  BY <1>1, <1>3, <1>5, <1>6, <1>9 DEF Entered, Recovers, NothingStale
<1>10. CASE ev.kind = "program"
  BY <1>1, <1>3, <1>5, <1>6, <1>10 DEF Entered, Recovers, NothingStale
<1>11. QED
  BY <1>3, <1>7, <1>8, <1>9, <1>10

\* Nothing is counted in the journal that journal_init makes.
LEMMA InitComplete == Init => Complete
<1> SUFFICES ASSUME Init PROVE Complete
  OBVIOUS
<1>1. Len(log) = 0
  BY EmptySeq DEF Init
<1>2. Logged = {} /\ Numbered = {}
  BY <1>1 DEF Init, Logged, Numbered
<1>3. QED
  BY <1>2, FS_EmptySet DEF Init, Complete

\* Every event added since the last journal_reset is in what journal_pack makes, as long as
\* its channel and note are ones the fields have room for.
THEOREM JournalEventsInJournal == Representable => (Spec => []EventsInJournal)
<1> SUFFICES ASSUME Representable PROVE Spec => []EventsInJournal
  OBVIOUS
<1>1. Init => Complete
  BY InitComplete
<1>2. JournalInv /\ Complete /\ [Next]_vars => JournalInv' /\ Complete'
  BY StepJournal, StepComplete DEF Representable
<1>3. JournalInv /\ Complete => EventsInJournal
  BY CompleteRecovers
<1>4. QED
  BY <1>1, <1>2, <1>3, InitJournal, PTL DEF Spec

-----------------------------------------------------------------------------
\* A set that holds 0 and with a number the next holds every number: the initial
\* segment below a number it misses would be as large without its 0.
LEMMA SetInduction ==
    ASSUME NEW S, 0 \in S, \A k \in Nat : k \in S => k + 1 \in S
    PROVE  Nat \subseteq S
<1>1. SUFFICES ASSUME NEW n \in Nat, n \notin S PROVE FALSE
  OBVIOUS
<1> DEFINE T == S \cap (0..n)
           up == [k \in T |-> k + 1]
<1>2. IsFiniteSet(0..n)
  BY FS_Interval
<1>3. IsFiniteSet(T) /\ 0 \in T
  BY <1>1, <1>2, FS_Subset
<1>4. IsFiniteSet(T \ {0}) /\ Cardinality(T \ {0}) = Cardinality(T) - 1 /\ Cardinality(T) \in Nat
  BY <1>3, FS_RemoveElement, FS_CardinalityType
<1>5. up \in [T -> T \ {0}]
  <2>1. \A k \in T : k \in Nat /\ k + 1 \in S /\ k # n /\ k <= n
    BY <1>1
  <2>2. \A k \in T : k + 1 \in 0..n /\ k + 1 # 0
    BY <2>1
  <2>3. QED
    BY <2>1, <2>2
<1>6. \A a, b \in T : up[a] = up[b] => a = b
  OBVIOUS
<1>7. up \in Injection(T, T \ {0})
  BY <1>5, <1>6 DEF Injection, IsInjective
<1>8. Cardinality(T) <= Cardinality(T \ {0})
  BY <1>4, <1>7, FS_Injection
<1>9. QED
  BY <1>4, <1>8

\* The numbers of a finite set in ascending order, each once.
LEMMA AscendingOrder ==
    ASSUME NEW S, S \subseteq Nat, IsFiniteSet(S)
    PROVE  /\ Cardinality(S) \in Nat /\ Ascending(S) \in [1..Cardinality(S) -> S]
           /\ \A x \in S : \E i \in 1..Cardinality(S) : Ascending(S)[i] = x
           /\ \A i, j \in 1..Cardinality(S) : i < j => Ascending(S)[i] < Ascending(S)[j]
<1> DEFINE n == Cardinality(S)
           Upto(x) == {y \in S : y <= x}
           rank == [x \in S |-> Cardinality(Upto(x))]
<1>1. n \in Nat
  BY FS_CardinalityType
<1>2. ASSUME NEW x \in S PROVE rank[x] \in 1..n
  <2>1. Upto(x) \in SUBSET S /\ x \in Upto(x)
    OBVIOUS
  <2>2. IsFiniteSet(Upto(x)) /\ Cardinality(Upto(x)) <= n
    BY <2>1, FS_Subset
  <2>3. Cardinality(Upto(x)) \in Nat /\ Cardinality(Upto(x)) # 0
    BY <2>1, <2>2, FS_CardinalityType, FS_EmptySet
  <2>4. QED
    BY <1>1, <2>2, <2>3
<1>3. ASSUME NEW x \in S, NEW y \in S, x < y PROVE rank[x] < rank[y]
  <2>0. \A z \in S : z \in Nat /\ (z <= x => z <= y) /\ ~(y <= x) /\ y <= y
    BY <1>3
  <2>1. Upto(x) \in SUBSET Upto(y) /\ y \notin Upto(x) /\ y \in Upto(y) /\ Upto(y) \in SUBSET S
    BY <2>0
  <2>2. IsFiniteSet(Upto(y))
    BY <2>1, FS_Subset
  <2>3. Cardinality(Upto(x)) <= Cardinality(Upto(y)) /\ Cardinality(Upto(y)) # Cardinality(Upto(x))
    BY <2>1, <2>2, FS_Subset
  <2>4. rank[x] \in Nat /\ rank[y] \in Nat
    BY <1>2
  <2>5. QED
    BY <2>3, <2>4
<1>4. \A x, y \in S : rank[x] = rank[y] => x = y
  <2>1. \A x, y \in S : x < y \/ y < x \/ x = y
    OBVIOUS
  <2>2. \A x \in S : rank[x] \in Nat
    BY <1>2
  <2> HIDE DEF rank
  <2>3. QED
    BY <1>3, <2>1, <2>2
<1>5. rank \in Surjection(S, 1..n)
  <2>1. rank \in Injection(S, 1..n)
    BY <1>2, <1>4 DEF Injection, IsInjective
  <2>2. IsFiniteSet(1..n) /\ Cardinality(1..n) = n
    BY <1>1, FS_Interval
  <2>3. QED
    BY <2>1, <2>2, FS_Injection
<1>6. ASSUME NEW i \in 1..n PROVE Ascending(S)[i] \in S /\ rank[Ascending(S)[i]] = i
  <2>1. \E x \in S : rank[x] = i
    BY <1>5 DEF Surjection
  <2>2. (CHOOSE x \in S : Cardinality(Upto(x)) = i) \in S
        /\ Cardinality(Upto(CHOOSE x \in S : Cardinality(Upto(x)) = i)) = i
    BY <2>1
  <2>3. QED
    BY <2>2 DEF Ascending
<1>7. Ascending(S) \in [1..n -> S]
  BY <1>6 DEF Ascending
<1> HIDE DEF rank
<1>8. \A x \in S : \E i \in 1..n : Ascending(S)[i] = x
  BY <1>2, <1>4, <1>6
<1>9. ASSUME NEW i \in 1..n, NEW j \in 1..n, i < j PROVE Ascending(S)[i] < Ascending(S)[j]
  <2>1. Ascending(S)[i] \in S /\ Ascending(S)[j] \in S /\ rank[Ascending(S)[i]] = i /\ rank[Ascending(S)[j]] = j
    BY <1>6
  <2>2. PICK x \in S, y \in S : x = Ascending(S)[i] /\ y = Ascending(S)[j] /\ rank[x] = i /\ rank[y] = j
    BY <2>1
  <2>3. x < y \/ y < x \/ x = y
    OBVIOUS
  <2>4. x < y
    BY <1>3, <1>9, <2>2, <2>3
  <2>5. QED
    BY <2>2, <2>4
<1>10. QED
  BY <1>1, <1>7, <1>8, <1>9

-----------------------------------------------------------------------------
\* The octets of e are in s from the i-th on.
Stands(s, i, e) == \A j \in 1..Len(e) : s[i + (j - 1)] = e[j]

\* What stands there, stands there part by part.
LEMMA StandsParts ==
    ASSUME NEW S, NEW s, NEW i \in Nat, NEW a \in Seq(S), NEW b \in Seq(S), Stands(s, i, a \o b)
    PROVE  /\ Stands(s, i, a) /\ Stands(s, i + Len(a), b)
           /\ a \o b \in Seq(S) /\ Len(a \o b) = Len(a) + Len(b) /\ Len(a) \in Nat /\ Len(b) \in Nat
<1> DEFINE m == Len(a)
           n == Len(b)
           ab == a \o b
<1>1. /\ ab \in Seq(S) /\ Len(ab) = m + n /\ m \in Nat /\ n \in Nat
      /\ \A j \in 1..(m + n) : ab[j] = IF j <= m THEN a[j] ELSE b[j - m]
  BY ConcatProperties, LenProperties
<1>2. \A j \in 1..Len(ab) : s[i + (j - 1)] = ab[j]
  BY DEF Stands
<1> HIDE DEF m, n, ab
<1>3. ASSUME NEW j \in 1..m PROVE s[i + (j - 1)] = a[j]
  <2>1. j \in 1..(m + n) /\ j <= m
    BY <1>1
  <2>2. QED
    BY <1>1, <1>2, <2>1
<1>4. ASSUME NEW j \in 1..n PROVE s[(i + m) + (j - 1)] = b[j]
  <2>1. m + j \in 1..(m + n) /\ ~(m + j <= m) /\ (m + j) - m = j /\ i + ((m + j) - 1) = (i + m) + (j - 1)
    BY <1>1
  <2>2. ab[m + j] = b[(m + j) - m] /\ s[i + ((m + j) - 1)] = ab[m + j]
    BY <1>1, <1>2, <2>1
  <2>3. QED
    BY <2>1, <2>2
<1>5. QED
  BY <1>1, <1>3, <1>4 DEF m, n, ab, Stands

\* The entries of a journal one after the other: where each begins.
LEMMA FlattenStands ==
    ASSUME NEW S, NEW n \in Nat, NEW q, q \in [1..n -> Seq(S)]
    PROVE  /\ FlattenSeq(q) \in Seq(S)
           /\ \E off \in [1..(n + 1) -> Nat] :
                 /\ off[1] = 0 /\ off[n + 1] = Len(FlattenSeq(q))
                 /\ \A k \in 1..n : off[k + 1] = off[k] + Len(q[k])
                 /\ \A s : \A i \in Nat : Stands(s, i, FlattenSeq(q)) =>
                       \A k \in 1..n : Stands(s, i + off[k], q[k])
<1>1. Len(q) = n
  OBVIOUS
<1> DEFINE Grown(g, m) == g = [i \in 1..m |-> IF i = 1 THEN q[i] ELSE g[i - 1] \o q[i]]
<1>2. CASE n = 0
  <2>1. FlattenSeq(q) = q
    BY <1>1, <1>2 DEF FlattenSeq
  <2>2. q = <<>> /\ q \in Seq(S) /\ Len(q) = 0
    BY <1>2
  <2>3. PICK off : off = [k \in 1..(n + 1) |-> 0]
    OBVIOUS
  <2>4. off \in [1..(n + 1) -> Nat] /\ off[1] = 0 /\ off[n + 1] = 0
    BY <1>2, <2>3
  <2>5. ~\E k : k \in 1..n
    BY <1>2
  <2>6. QED
    BY <2>1, <2>2, <2>4, <2>5
<1>3. CASE n # 0
  <2>1. \E g : Grown(g, n)
    <3> DEFINE T == {m \in Nat : \E g : Grown(g, m)}
    <3>1. 0 \in T
      <4>1. Grown(<<>>, 0)
        OBVIOUS
      <4>2. QED
        BY <4>1
    <3>2. ASSUME NEW m \in Nat, m \in T PROVE m + 1 \in T
      <4>1. PICK g : Grown(g, m)
        BY <3>2
      <4> DEFINE h == [i \in 1..(m + 1) |-> IF i = 1 THEN q[i] ELSE g[i - 1] \o q[i]]
      <4>2. \A i \in 1..m : g[i] = h[i]
        <5>1. \A i \in 1..m : g[i] = IF i = 1 THEN q[i] ELSE g[i - 1] \o q[i]
          BY <4>1
        <5>2. \A i \in 1..m : i \in 1..(m + 1)
          OBVIOUS
        <5>3. QED
          BY <5>1, <5>2
      <4>3. \A i \in 1..(m + 1) : h[i] = IF i = 1 THEN q[i] ELSE h[i - 1] \o q[i]
        <5> TAKE i \in 1..(m + 1)
        <5>1. h[i] = IF i = 1 THEN q[i] ELSE g[i - 1] \o q[i]
          OBVIOUS
        <5>2. i # 1 => i - 1 \in 1..m
          OBVIOUS
        <5> HIDE DEF h
        <5>3. QED
          BY <4>2, <5>1, <5>2
      <4>4. h = [i \in 1..(m + 1) |-> h[i]]
        OBVIOUS
      <4> HIDE DEF h
      <4>5. Grown(h, m + 1)
        BY <4>3, <4>4
      <4> HIDE DEF Grown
      <4>6. \E f : Grown(f, m + 1)
        BY <4>5
      <4>7. m + 1 \in Nat
        OBVIOUS
      <4>8. QED
        BY <4>6, <4>7
    <3> HIDE DEF T
    <3>3. Nat \subseteq T
      BY <3>1, <3>2, SetInduction
    <3>4. QED
      BY <3>3 DEF T
  <2>2. \E g : Grown(g, n) /\ FlattenSeq(q) = g[n]
    <3> DEFINE f[i \in 1..n] == IF i = 1 THEN q[i] ELSE f[i - 1] \o q[i]
    <3>1. FlattenSeq(q) = f[n]
      BY <1>1, <1>3 DEF FlattenSeq
    <3>2. Grown(f, n)
      BY <2>1
    <3>3. QED
      BY <3>1, <3>2
  <2>3. PICK g : Grown(g, n) /\ FlattenSeq(q) = g[n]
    BY <2>2
  <2>4. \A i \in 1..n : g[i] = IF i = 1 THEN q[i] ELSE g[i - 1] \o q[i]
    BY <2>3
  <2> HIDE DEF Grown
  <2>5. \A k \in 1..n : g[k] \in Seq(S)
    <3> DEFINE T == {m \in Nat : m + 1 <= n => g[m + 1] \in Seq(S)}
    <3>1. 0 \in T
      BY <2>4
    <3>2. ASSUME NEW m \in Nat, m \in T PROVE m + 1 \in T
      <4>1. SUFFICES ASSUME (m + 1) + 1 <= n PROVE g[(m + 1) + 1] \in Seq(S)
        OBVIOUS
      <4>2. g[m + 1] \in Seq(S) /\ m + 2 \in 1..n /\ (m + 1) + 1 = m + 2
        BY <3>2, <4>1
      <4>3. PICK k \in 1..n : k = m + 2 /\ k # 1 /\ k - 1 = m + 1
        BY <4>2
      <4>4. g[k] = g[k - 1] \o q[k] /\ q[k] \in Seq(S)
        BY <2>4, <4>3
      <4>5. g[k] \in Seq(S)
        BY <4>2, <4>3, <4>4, ConcatProperties
      <4>6. QED
        BY <4>2, <4>3, <4>5
    <3> HIDE DEF T
    <3>3. Nat \subseteq T
      BY <3>1, <3>2, SetInduction
    <3>4. TAKE k \in 1..n
    <3>5. k - 1 \in T /\ (k - 1) + 1 = k /\ k <= n
      BY <3>3
    <3>6. QED
      BY <3>5 DEF T
  <2>6. PICK off : off = [k \in 1..(n + 1) |-> IF k = 1 THEN 0 ELSE Len(g[k - 1])]
    OBVIOUS
  <2>7. \A k \in 1..n : Len(g[k]) \in Nat
    BY <2>5, LenProperties
  <2>8. off \in [1..(n + 1) -> Nat] /\ off[1] = 0 /\ \A k \in 1..n : off[k + 1] = Len(g[k])
    BY <2>6, <2>7
  <2>9. \A k \in 1..n : k # 1 => k - 1 \in 1..n /\ (k - 1) + 1 = k
    OBVIOUS
  <2>10. ASSUME NEW k \in 1..n PROVE off[k + 1] = off[k] + Len(q[k])
    <3>1. CASE k = 1
      <4>1. g[k] = q[k] /\ off[k] = 0 /\ off[k + 1] = Len(g[k]) /\ Len(g[k]) \in Nat
        BY <2>4, <2>7, <2>8, <3>1
      <4>2. QED
        BY <4>1
    <3>2. CASE k # 1
      <4>1. g[k] = g[k - 1] \o q[k] /\ g[k - 1] \in Seq(S) /\ q[k] \in Seq(S)
        BY <2>4, <2>5, <2>9, <3>2
      <4>2. Len(g[k]) = Len(g[k - 1]) + Len(q[k])
        BY <4>1, ConcatProperties
      <4>3. off[k] = Len(g[k - 1])
        BY <2>8, <2>9, <3>2
      <4>4. QED
        BY <2>8, <4>2, <4>3
    <3>3. QED
      BY <3>1, <3>2
  <2>11. ASSUME NEW s, NEW i \in Nat, Stands(s, i, g[n]) PROVE \A k \in 1..n : Stands(s, i + off[k], q[k])
    <3> DEFINE T == {m \in Nat : m < n => Stands(s, i, g[n - m])}
    <3>1. 0 \in T
      BY <2>11
    <3>2. ASSUME NEW m \in Nat, m \in T PROVE m + 1 \in T
      <4>1. SUFFICES ASSUME m + 1 < n PROVE Stands(s, i, g[n - (m + 1)])
        OBVIOUS
      <4>2. PICK k \in 1..n : k = n - m /\ k # 1 /\ k - 1 = n - (m + 1)
        BY <4>1
      <4>3. Stands(s, i, g[k])
        BY <3>2, <4>1, <4>2
      <4>4. g[k] = g[k - 1] \o q[k] /\ g[k - 1] \in Seq(S) /\ q[k] \in Seq(S)
        BY <2>4, <2>5, <2>9, <4>2
      <4>5. Stands(s, i, g[k - 1])
        BY <4>3, <4>4, StandsParts
      <4>6. QED
        BY <4>2, <4>5
    <3> HIDE DEF T
    <3>3. Nat \subseteq T
      BY <3>1, <3>2, SetInduction
    <3>4. TAKE k \in 1..n
    <3>5. n - k \in T /\ n - k < n /\ n - (n - k) = k
      BY <3>3
    <3>6. Stands(s, i, g[k])
      BY <3>5 DEF T
    <3>7. CASE k = 1
      <4>1. g[k] = q[k] /\ i + off[k] = i
        BY <2>4, <2>8, <3>7
      <4>2. QED
        BY <3>6, <4>1
    <3>8. CASE k # 1
      <4>1. g[k] = g[k - 1] \o q[k] /\ g[k - 1] \in Seq(S) /\ q[k] \in Seq(S)
        BY <2>4, <2>5, <2>9, <3>8
      <4>2. Stands(s, i + Len(g[k - 1]), q[k])
        <5>1. PICK a \in Seq(S), b \in Seq(S) : a = g[k - 1] /\ b = q[k]
          BY <4>1
        <5>2. Stands(s, i, a \o b)
          BY <3>6, <4>1, <5>1
        <5>3. Stands(s, i + Len(a), b)
          BY <5>2, StandsParts
        <5>4. QED
          BY <5>1, <5>3
      <4>3. off[k] = Len(g[k - 1])
        BY <2>8, <2>9, <3>8
      <4>4. QED
        BY <4>2, <4>3
    <3>9. QED
      BY <3>7, <3>8
  <2>12. n \in 1..n
    BY <1>3
  <2>13. FlattenSeq(q) \in Seq(S) /\ off[n + 1] = Len(FlattenSeq(q))
    BY <2>3, <2>5, <2>8, <2>12
  <2>14. \A s : \A i \in Nat : Stands(s, i, FlattenSeq(q)) => \A k \in 1..n : Stands(s, i + off[k], q[k])
    BY <2>3, <2>11
  <2>15. QED
    BY <2>8, <2>10, <2>13, <2>14
<1>4. QED
  BY <1>2, <1>3

\* A receiver that goes by the lengths finds every entry.
LEMMA WalkFinds ==
    ASSUME NEW s, NEW n \in Nat, NEW off \in [1..(n + 1) -> Nat], off[1] = 0,
           \A k \in 1..n : LengthAt(s, 4 + off[k]) = off[k + 1] - off[k]
    PROVE  \A k \in 1..(n + 1) : EntriesAt(s, n)[k] = 4 + off[k]
<1> DEFINE Walk(at) == at = [k \in 1..(n + 1) |-> IF k = 1 THEN 4 ELSE at[k - 1] + LengthAt(s, at[k - 1])]
<1>1. \E at : Walk(at)
  <2> DEFINE at == [k \in 1..(n + 1) |-> 4 + off[k]]
  <2>1. ASSUME NEW k \in 1..(n + 1)
        PROVE  at[k] = IF k = 1 THEN 4 ELSE at[k - 1] + LengthAt(s, at[k - 1])
    <3>1. CASE k = 1
      BY <3>1
    <3>2. CASE k # 1
      <4>1. PICK j \in 1..n : j = k - 1 /\ j + 1 = k /\ j \in 1..(n + 1)
        BY <3>2
      <4>2. at[j] = 4 + off[j] /\ at[k] = 4 + off[k] /\ off[j] \in Nat /\ off[k] \in Nat
        BY <4>1
      <4>3. LengthAt(s, 4 + off[j]) = off[k] - off[j]
        BY <4>1
      <4> HIDE DEF at
      <4>4. at[k] = at[j] + LengthAt(s, at[j])
        BY <4>2, <4>3
      <4>5. QED
        BY <3>2, <4>1, <4>4
    <3>3. QED
      BY <3>1, <3>2
  <2>2. at = [k \in 1..(n + 1) |-> at[k]]
    OBVIOUS
  <2> HIDE DEF at
  <2>3. Walk(at)
    BY <2>1, <2>2
  <2>4. QED
    BY <2>3
<1>2. Walk(EntriesAt(s, n))
  BY <1>1 DEF EntriesAt
<1>3. PICK at : at = EntriesAt(s, n) /\ Walk(at)
  BY <1>2
<1>4. \A k \in 1..(n + 1) : at[k] = IF k = 1 THEN 4 ELSE at[k - 1] + LengthAt(s, at[k - 1])
  BY <1>3
<1> HIDE DEF Walk
<1> DEFINE T == {m \in Nat : m <= n => at[m + 1] = 4 + off[m + 1]}
<1>5. 0 \in T
  BY <1>4
<1>6. ASSUME NEW m \in Nat, m \in T PROVE m + 1 \in T
  <2>1. SUFFICES ASSUME m + 1 <= n PROVE at[(m + 1) + 1] = 4 + off[(m + 1) + 1]
    OBVIOUS
  <2>2. PICK j \in 1..n : j = m + 1 /\ j + 1 = (m + 1) + 1 /\ j + 1 \in 1..(n + 1) /\ j + 1 # 1 /\ (j + 1) - 1 = j
    BY <2>1
  <2>3. at[j] = 4 + off[j]
    BY <1>6, <2>1, <2>2
  <2>4. at[j + 1] = at[j] + LengthAt(s, at[j])
    BY <1>4, <2>2
  <2>5. LengthAt(s, 4 + off[j]) = off[j + 1] - off[j] /\ off[j] \in Nat /\ off[j + 1] \in Nat
    BY <2>2
  <2>6. at[j + 1] = 4 + off[j + 1]
    BY <2>3, <2>4, <2>5
  <2>7. QED
    BY <2>2, <2>6
<1> HIDE DEF T
<1>7. Nat \subseteq T
  BY <1>5, <1>6, SetInduction
<1>8. ASSUME NEW k \in 1..(n + 1) PROVE at[k] = 4 + off[k]
  <2>1. k - 1 \in T /\ k - 1 <= n /\ (k - 1) + 1 = k
    BY <1>7
  <2>2. QED
    BY <2>1 DEF T
<1>9. QED
  BY <1>3, <1>8

\* The sequences of octets, by their length.
Sized(a, n) == n \in Nat /\ a \in Seq(Int) /\ Len(a) = n

\* Two of them one after the other.
LEMMA Joined ==
    ASSUME NEW a, NEW b, NEW m, NEW n, Sized(a, m), Sized(b, n)
    PROVE  /\ Sized(a \o b, m + n)
           /\ \A s : \A i \in Nat : Stands(s, i, a \o b) => Stands(s, i, a) /\ Stands(s, i + m, b)
<1>1. PICK S : S = Int
  OBVIOUS
<1>2. a \in Seq(S) /\ b \in Seq(S) /\ Len(a) = m /\ Len(b) = n /\ m \in Nat /\ n \in Nat
  BY <1>1 DEF Sized
<1>3. a \o b \in Seq(S) /\ Len(a \o b) = m + n
  BY <1>2, ConcatProperties
<1>4. ASSUME NEW s, NEW i \in Nat, Stands(s, i, a \o b) PROVE Stands(s, i, a) /\ Stands(s, i + m, b)
  <2>1. Stands(s, i, a) /\ Stands(s, i + Len(a), b)
    BY <1>2, <1>4, StandsParts
  <2>2. QED
    BY <1>2, <2>1
<1>5. QED
  BY <1>1, <1>2, <1>3, <1>4 DEF Sized

\* The octet at a place of what stands there.
LEMMA OctetOf ==
    ASSUME NEW a, NEW n, Sized(a, n), NEW s, NEW i \in Nat, Stands(s, i, a), NEW j \in 1..n
    PROVE  s[i + (j - 1)] = a[j]
  BY DEF Sized, Stands

\* The octets of pairs.
LEMMA PairsOctets ==
    ASSUME NEW n \in Nat, NEW q, q \in [1..n -> Int \X Int]
    PROVE  /\ Sized(Pairs(q), 2 * n)
           /\ \A j \in 1..n : Pairs(q)[2 * j - 1] = q[j][1] /\ Pairs(q)[2 * j] = q[j][2]
<1> DEFINE S == Int
<1>1. Len(q) = n
  OBVIOUS
<1>2. PICK p : p = Pairs(q)
  OBVIOUS
<1>3. p = [i \in 1..(2 * n) |-> q[(i + 1) \div 2][2 - (i % 2)]]
  BY <1>1, <1>2 DEF Pairs
<1>4. ASSUME NEW i \in 1..(2 * n) PROVE p[i] \in S
  <2>1. PICK j \in 1..n : j = (i + 1) \div 2
    OBVIOUS
  <2>2. PICK x \in {1, 2} : x = 2 - (i % 2)
    OBVIOUS
  <2>3. p[i] = q[j][x]
    BY <1>3, <2>1, <2>2
  <2>4. q[j] \in S \X S
    OBVIOUS
  <2>5. q[j][1] \in S /\ q[j][2] \in S
    BY <2>4
  <2>6. QED
    BY <2>2, <2>3, <2>5
<1>5. ASSUME NEW j \in 1..n PROVE p[2 * j - 1] = q[j][1] /\ p[2 * j] = q[j][2]
  <2>1. /\ 2 * j - 1 \in 1..(2 * n) /\ ((2 * j - 1) + 1) \div 2 = j /\ 2 - ((2 * j - 1) % 2) = 1
        /\ 2 * j \in 1..(2 * n) /\ ((2 * j) + 1) \div 2 = j /\ 2 - ((2 * j) % 2) = 2
    OBVIOUS
  <2>2. QED
    BY <1>3, <2>1
<1>6. p \in [1..(2 * n) -> S] /\ 2 * n \in Nat
  BY <1>3, <1>4
<1>7. Sized(p, 2 * n)
  BY <1>6 DEF Sized
<1>8. QED
  BY <1>2, <1>5, <1>7

-----------------------------------------------------------------------------
\* The 16 bits an entry begins with: S, the number of the channel, H and the length.
EntryHead(num, len) == Put16(32768 + num * 2048 + (len % 1024))

HeadFits(num, len) == num \in 0..15 /\ len \in 0..1023
HeadSays(s, i, num, len) == LengthAt(s, i) = len /\ (Get16(s, i) \div 2048) % 16 = num

\* The 16 bits are read as they were packed.
LEMMA HeaderReads ==
    ASSUME NEW num, NEW len, HeadFits(num, len), NEW s, NEW i \in Nat, Stands(s, i, EntryHead(num, len))
    PROVE  HeadSays(s, i, num, len)
<1>0. num \in 0..15 /\ len \in 0..1023
  BY DEF HeadFits
<1>1. PICK v \in Nat : v = 32768 + num * 2048 + (len % 1024)
  BY <1>0
<1>2. v % 1024 = len /\ (v \div 2048) % 16 = num
  BY <1>0, <1>1
<1>3. Put16(v) = <<v \div 256, v % 256>> /\ Len(Put16(v)) = 2
  BY DEF Put16
<1>4. s[i + (1 - 1)] = v \div 256 /\ s[i + (2 - 1)] = v % 256
  <2>1. Stands(s, i, Put16(v))
    BY <1>1 DEF EntryHead
  <2>2. PICK g : g = Put16(v)
    OBVIOUS
  <2>3. Len(g) = 2 /\ g[1] = v \div 256 /\ g[2] = v % 256
    BY <1>3, <2>2
  <2>4. \A k \in 1..2 : s[i + (k - 1)] = g[k]
    BY <2>1, <2>2, <2>3 DEF Stands
  <2>5. QED
    BY <2>3, <2>4
<1>5. s[i] = v \div 256 /\ s[i + 1] = v % 256
  BY <1>4
<1>6. (v \div 256) * 256 + (v % 256) = v
  OBVIOUS
<1>7. Get16(s, i) = v
  BY <1>5, <1>6 DEF Get16
<1>8. QED
  BY <1>2, <1>7 DEF LengthAt, HeadSays

\* The chapters an entry names are those it was packed with.
LEMMA NamesReads ==
    ASSUME NEW F \in SUBSET {"P", "C", "N"}
    PROVE  Toc(F) \in Int /\ Names(Toc(F)) = F /\ (Toc(F) # 0 <=> F # {})
<1>1. Toc({"P"}) = 128 /\ Toc({"C"}) = 64 /\ Toc({"N"}) = 8
  BY DEF Toc
<1>2. PICK p, q, r \in {0, 1} : /\ p = (IF "P" \in F THEN 1 ELSE 0)
                                /\ q = (IF "C" \in F THEN 1 ELSE 0)
                                /\ r = (IF "N" \in F THEN 1 ELSE 0)
  OBVIOUS
<1>3. PICK t \in Int : t = p * 128 + q * 64 + r * 8
  OBVIOUS
<1>4. Toc(F) = t
  BY <1>2, <1>3 DEF Toc
<1>5. (t \div 128) % 2 = p /\ (t \div 64) % 2 = q /\ (t \div 8) % 2 = r
  BY <1>3
<1>6. t # 0 <=> p = 1 \/ q = 1 \/ r = 1
  BY <1>3
<1>bits. ("P" \in F <=> p = 1) /\ ("C" \in F <=> q = 1) /\ ("N" \in F <=> r = 1)
  <2>1. "P" \in F <=> p = 1
    BY <1>2
  <2>2. "C" \in F <=> q = 1
    BY <1>2
  <2>3. "N" \in F <=> r = 1
    BY <1>2
  <2>4. QED
    BY <2>1, <2>2, <2>3
<1>7. ASSUME NEW x \in {"P", "C", "N"} PROVE (t \div Toc({x})) % 2 = 1 <=> x \in F
  <2>1. CASE x = "P"
    BY <1>1, <1>5, <1>bits, <2>1
  <2>2. CASE x = "C"
    BY <1>1, <1>5, <1>bits, <2>2
  <2>3. CASE x = "N"
    BY <1>1, <1>5, <1>bits, <2>3
  <2>4. QED
    BY <2>1, <2>2, <2>3
<1>8. Names(t) = F
  BY <1>7 DEF Names
<1>9. F = {} \/ "P" \in F \/ "C" \in F \/ "N" \in F
  OBVIOUS
<1>10. t # 0 <=> F # {}
  BY <1>6, <1>9, <1>bits
<1>11. QED
  BY <1>4, <1>8, <1>10

\* Bit x of a byte of offbits.
LEMMA BitReads ==
    ASSUME NEW c, NEW b, NEW x \in 0..7
    PROVE  OffOctet(c, b) \in Int /\ ((OffOctet(c, b) \div Weight[x + 1]) % 2 = 1 <=> <<b, x>> \in offbits[c])
<1> DEFINE Z(k) == IF <<b, k>> \in offbits[c] THEN 1 ELSE 0
<1>1. PICK z \in [0..7 -> {0, 1}] : \A k \in 0..7 : z[k] = Z(k)
  <2>1. [k \in 0..7 |-> Z(k)] \in [0..7 -> {0, 1}]
    OBVIOUS
  <2>2. QED
    BY <2>1
<1>2. \A k \in 0..7 : <<b, k>> \in offbits[c] <=> z[k] = 1
  BY <1>1
<1>3. /\ Weight[1] = 1 /\ Weight[2] = 2 /\ Weight[3] = 4 /\ Weight[4] = 8 /\ Weight[5] = 16
      /\ Weight[6] = 32 /\ Weight[7] = 64 /\ Weight[8] = 128
  BY DEF Weight
<1>4. PICK z0, z1, z2, z3, z4, z5, z6, z7 \in {0, 1} :
         z0 = z[0] /\ z1 = z[1] /\ z2 = z[2] /\ z3 = z[3] /\ z4 = z[4] /\ z5 = z[5] /\ z6 = z[6] /\ z7 = z[7]
  OBVIOUS
<1> HIDE DEF Z
<1>5. /\ Bit(c, b, 0) = z0 /\ Bit(c, b, 1) = 2 * z1 /\ Bit(c, b, 2) = 4 * z2 /\ Bit(c, b, 3) = 8 * z3
      /\ Bit(c, b, 4) = 16 * z4 /\ Bit(c, b, 5) = 32 * z5 /\ Bit(c, b, 6) = 64 * z6 /\ Bit(c, b, 7) = 128 * z7
  BY <1>2, <1>3, <1>4 DEF Bit
<1>6. PICK o \in Int : o = z0 + 2 * z1 + 4 * z2 + 8 * z3 + 16 * z4 + 32 * z5 + 64 * z6 + 128 * z7
  OBVIOUS
<1>7. OffOctet(c, b) = o
  BY <1>5, <1>6 DEF OffOctet
<1>8. /\ o % 2 = z0 /\ (o \div 2) % 2 = z1 /\ (o \div 4) % 2 = z2 /\ (o \div 8) % 2 = z3
      /\ (o \div 16) % 2 = z4 /\ (o \div 32) % 2 = z5 /\ (o \div 64) % 2 = z6 /\ (o \div 128) % 2 = z7
  BY <1>6
<1>9. (o \div 1) % 2 = z0
  BY <1>8
<1>10. x = 0 \/ x = 1 \/ x = 2 \/ x = 3 \/ x = 4 \/ x = 5 \/ x = 6 \/ x = 7
  OBVIOUS
<1>11. (o \div Weight[x + 1]) % 2 = z[x]
  BY <1>3, <1>4, <1>8, <1>9, <1>10
<1>12. QED
  BY <1>2, <1>7, <1>11

-----------------------------------------------------------------------------
\* Chapter P.
LEMMA ChapterPReads ==
    ASSUME TypeOK, NEW c \in Channel
    PROVE  /\ program[c] = NONE => Sized(ChapterP(c), 0)
           /\ program[c] # NONE =>
                /\ Sized(ChapterP(c), 3)
                /\ \A s : \A i \in Nat : Stands(s, i, ChapterP(c)) => s[i] % 128 = program[c]
<1>1. CASE program[c] = NONE
  BY <1>1, EmptySeq DEF ChapterP, Sized
<1>2. CASE program[c] # NONE
  <2>1. PICK v \in 0..127 : v = program[c]
    BY <1>2, ValueAssumption DEF TypeOK
  <2>2. PICK p : p = <<128 + v, 0, 0>>
    OBVIOUS
  <2>3. Sized(p, 3) /\ p[1] = 128 + v
    BY <2>2 DEF Sized
  <2>4. ChapterP(c) = p
    BY <1>2, <2>1, <2>2 DEF ChapterP
  <2>5. ASSUME NEW s, NEW i \in Nat, Stands(s, i, p) PROVE s[i] % 128 = v
    <3>1. s[i + (1 - 1)] = p[1]
      BY <2>3, <2>5, OctetOf
    <3>2. s[i] = 128 + v
      BY <2>3, <3>1
    <3>3. QED
      BY <3>2
  <2>6. QED
    BY <1>2, <2>1, <2>3, <2>4, <2>5
<1>3. QED
  BY <1>1, <1>2

\* The controllers logged for a channel, and what chapter C is to say of them.
Controls(c) == {k \in Controller : control[c][k] # NONE}
Logs(c) == {<<k, control[c][k]>> : k \in Controls(c)}

\* Any controllers are finitely many numbers.
LEMMA FewControllers == \A S \in SUBSET Controller : S \subseteq Nat /\ IsFiniteSet(S)
<1>1. PICK a, b \in Int : a = 0 /\ b = 127
  OBVIOUS
<1>2. IsFiniteSet(a..b)
  BY FS_Interval
<1>3. \A S \in SUBSET Controller : S \in SUBSET (a..b) /\ S \subseteq Nat
  BY <1>1, ControllerAssumption
<1>4. QED
  BY <1>2, <1>3, FS_Subset

\* What chapter C is made of: a header h and the logs p of the n controllers a.
ChapterCOf(c, n, a, h, p) ==
    /\ n \in 1..127 /\ n = Cardinality(Controls(c)) /\ a \in [1..n -> Controls(c)]
    /\ \A x \in Controls(c) : \E i \in 1..n : a[i] = x
    /\ ChapterC(c) = h \o p /\ Sized(h, 1) /\ Sized(p, 2 * n) /\ h[1] = 128 + (n - 1)
    /\ \A j \in 1..n : p[2 * j - 1] = 128 + a[j] /\ p[2 * j] = control[c][a[j]] /\ a[j] \in 0..127

\* Chapter C is made of that: the 1 + 2 * n octets of at most 127 controllers can be
\* counted in the uint8_t of chapter_c_pack.
LEMMA ChapterCMade ==
    ASSUME TypeOK, NEW c \in Channel, Cardinality(Controls(c)) <= 127
    PROVE  /\ ~HasControl(c) => ChapterC(c) = <<>>
           /\ HasControl(c) => \E n, a, h, p : ChapterCOf(c, n, a, h, p)
<1> DEFINE K == Controls(c)
           n == Cardinality(K)
           a == Active(c)
<1>1. K \subseteq Controller /\ K \subseteq Nat /\ IsFiniteSet(K) /\ n \in Nat
  <2>1. K \subseteq Controller
    BY DEF Controls
  <2>2. QED
    BY <2>1, FewControllers, FS_CardinalityType
<1>2. a = Ascending(K)
  BY DEF Active, Controls
<1>3. /\ a \in [1..n -> K]
      /\ \A x \in K : \E i \in 1..n : a[i] = x
  BY <1>1, <1>2, AscendingOrder
<1>4. Len(a) = n
  BY <1>1, <1>3
<1>5. n <= 127
  OBVIOUS
<1>6. HasControl(c) <=> K # {}
  BY DEF HasControl, Controls
<1>7. K # {} <=> n # 0
  BY <1>1, FS_EmptySet
<1>8. CASE n = 0
  BY <1>4, <1>6, <1>7, <1>8 DEF ChapterC
<1>9. CASE n # 0
  <2>1. n \in 1..127 /\ Copied(n) = n /\ (n - 1) % 128 = n - 1
    <3>1. PICK m \in 1..127 : m = n
      BY <1>1, <1>5, <1>9
    <3>2. (1 + 2 * m) % 256 = 1 + 2 * m /\ ((1 + 2 * m) - 1) \div 2 = m /\ (m - 1) % 128 = m - 1
      OBVIOUS
    <3>3. QED
      BY <3>1, <3>2 DEF Copied
  <2> HIDE DEF n, a
  <2> DEFINE q == [i \in 1..n |-> LogOctets(c, i)]
  <2>2. \A i \in 1..n : LogOctets(c, i) = <<128 + a[i], control[c][a[i]]>>
    BY <1>4, <2>1 DEF LogOctets, a
  <2>3. \A i \in 1..n : a[i] \in K /\ a[i] \in 0..127 /\ control[c][a[i]] \in 0..127
    <3> TAKE i \in 1..n
    <3>1. a[i] \in K
      BY <1>3
    <3>2. a[i] \in Controller /\ control[c][a[i]] # NONE
      BY <3>1 DEF Controls
    <3>3. control[c][a[i]] \in Value
      BY <3>2 DEF TypeOK
    <3>4. QED
      BY <3>1, <3>2, <3>3, ControllerAssumption, ValueAssumption
  <2>4. q \in [1..n -> Int \X Int] /\ \A i \in 1..n : q[i] = <<128 + a[i], control[c][a[i]]>>
    BY <2>2, <2>3
  <2>5. ChapterC(c) = <<128 + (n - 1)>> \o Pairs(q)
    BY <1>4, <1>9, <2>1 DEF ChapterC, a
  <2> HIDE DEF q
  <2>6. /\ Sized(Pairs(q), 2 * n)
        /\ \A j \in 1..n : Pairs(q)[2 * j - 1] = q[j][1] /\ Pairs(q)[2 * j] = q[j][2]
    BY <1>1, <2>4, PairsOctets
  <2>7. PICK h, p : h = <<128 + (n - 1)>> /\ p = Pairs(q)
    OBVIOUS
  <2>8. Sized(h, 1) /\ h[1] = 128 + (n - 1)
    BY <2>1, <2>7 DEF Sized
  <2>9. \A j \in 1..n : p[2 * j - 1] = 128 + a[j] /\ p[2 * j] = control[c][a[j]]
    BY <2>4, <2>6, <2>7
  <2>10. ChapterCOf(c, n, a, h, p)
    BY <1>3, <2>1, <2>3, <2>5, <2>6, <2>7, <2>8, <2>9 DEF ChapterCOf, n
  <2>11. QED
    BY <1>6, <1>7, <1>9, <2>10
<1>10. QED
  BY <1>8, <1>9

\* From octet i of s a receiver reads the n logs of chapter C of c.
ChapterCRead(c, n, s, i) ==
    /\ (s[i] % 128) + 1 = n
    /\ {<<s[i + 2 * j - 1] % 128, s[i + 2 * j]>> : j \in 1..n} = Logs(c)

\* What a receiver reads from it.
LEMMA ChapterCReads ==
    ASSUME NEW c, NEW n, NEW a, NEW h, NEW p, ChapterCOf(c, n, a, h, p)
    PROVE  /\ Sized(ChapterC(c), 1 + 2 * n)
           /\ \A s : \A i \in Nat : Stands(s, i, ChapterC(c)) => ChapterCRead(c, n, s, i)
<1>1. /\ n \in 1..127 /\ ChapterC(c) = h \o p /\ Sized(h, 1) /\ Sized(p, 2 * n) /\ h[1] = 128 + (n - 1)
      /\ \A j \in 1..n : /\ p[2 * j - 1] = 128 + a[j] /\ p[2 * j] = control[c][a[j]]
                         /\ a[j] \in 0..127 /\ a[j] \in Controls(c)
      /\ \A x \in Controls(c) : \E i \in 1..n : a[i] = x
  BY DEF ChapterCOf
<1>2. /\ Sized(h \o p, 1 + 2 * n)
      /\ \A s : \A i \in Nat : Stands(s, i, h \o p) => Stands(s, i, h) /\ Stands(s, i + 1, p)
  BY <1>1, Joined
<1>3. ASSUME NEW s, NEW i \in Nat, Stands(s, i, h \o p)
      PROVE  /\ (s[i] % 128) + 1 = n
             /\ {<<s[i + 2 * j - 1] % 128, s[i + 2 * j]>> : j \in 1..n} = Logs(c)
  <2>1. Stands(s, i, h) /\ Stands(s, i + 1, p)
    BY <1>2, <1>3
  <2>2. (s[i] % 128) + 1 = n
    <3>1. s[i + (1 - 1)] = h[1]
      BY <1>1, <2>1, OctetOf
    <3>2. s[i] = 128 + (n - 1)
      BY <1>1, <3>1
    <3>3. n \in 1..127
      BY <1>1
    <3>4. ((128 + (n - 1)) % 128) + 1 = n
      BY <3>3
    <3>5. QED
      BY <3>2, <3>4
  <2>3. ASSUME NEW j \in 1..n PROVE s[i + 2 * j - 1] % 128 = a[j] /\ s[i + 2 * j] = control[c][a[j]]
    <3>1. 2 * j - 1 \in 1..(2 * n) /\ 2 * j \in 1..(2 * n) /\ i + 1 \in Nat
      BY <1>1
    <3>2. s[(i + 1) + ((2 * j - 1) - 1)] = p[2 * j - 1] /\ s[(i + 1) + (2 * j - 1)] = p[2 * j]
      BY <1>1, <2>1, <3>1, OctetOf
    <3>3. (i + 1) + ((2 * j - 1) - 1) = i + 2 * j - 1 /\ (i + 1) + (2 * j - 1) = i + 2 * j
      BY <1>1
    <3>4. s[i + 2 * j - 1] = 128 + a[j] /\ s[i + 2 * j] = control[c][a[j]]
      BY <1>1, <3>2, <3>3
    <3>5. \A x \in 0..127 : (128 + x) % 128 = x
      OBVIOUS
    <3>6. a[j] \in 0..127
      BY <1>1
    <3>7. (128 + a[j]) % 128 = a[j]
      BY <3>5, <3>6
    <3>8. QED
      BY <3>4, <3>7
  <2>4. {<<s[i + 2 * j - 1] % 128, s[i + 2 * j]>> : j \in 1..n} = {<<a[j], control[c][a[j]]>> : j \in 1..n}
    BY <2>3
  <2>5. {<<a[j], control[c][a[j]]>> : j \in 1..n} = Logs(c)
    BY <1>1 DEF Logs
  <2>6. QED
    BY <2>2, <2>4, <2>5
<1>4. PICK w : w = ChapterC(c) /\ w = h \o p
  BY <1>1
<1>5. \A s : \A i \in Nat : Stands(s, i, w) => ChapterCRead(c, n, s, i)
  BY <1>3, <1>4 DEF ChapterCRead
<1>6. Sized(w, 1 + 2 * n)
  BY <1>2, <1>4
<1>7. QED
  BY <1>4, <1>5, <1>6

\* The bytes of offbits that are packed.
BitBytes(c) == MaxOf(0, high[c] - low[c] + 1)

\* What chapter N is made of: a header h, the n notes p and the bytes o of offbits.
ChapterNOf(c, n, h, p, o) ==
    /\ n \in 0..127 /\ n = Len(notes[c]) /\ BitBytes(c) \in 0..16
    /\ low[c] \in 0..15 /\ high[c] \in 0..15
    /\ ChapterN(c) = (h \o p) \o o /\ Sized(h, 2) /\ Sized(p, 2 * n) /\ Sized(o, BitBytes(c))
    /\ h[1] % 128 = n /\ h[2] = low[c] * 16 + high[c]
    /\ \A j \in 1..n : notes[c][j] = <<p[2 * j - 1], p[2 * j]>>
    /\ \A j \in 1..BitBytes(c) : o[j] = OffOctet(c, low[c] + j - 1)
    /\ notes[c] = [j \in 1..n |-> notes[c][j]]

\* Chapter N is made of that: 7 bits of its header count at most 127 notes.
LEMMA ChapterNMade ==
    ASSUME TypeOK, MaxNotes <= 127, NEW c \in Channel
    PROVE  /\ ~hasN[c] => ChapterN(c) = <<>>
           /\ hasN[c] => \E n, h, p, o : ChapterNOf(c, n, h, p, o)
<1>1. CASE ~hasN[c]
  BY <1>1 DEF ChapterN
<1>2. CASE hasN[c]
  <2> DEFINE n == Len(notes[c])
             m == BitBytes(c)
  <2>1. notes[c] \in Seq(Note \X Value) /\ n \in Nat /\ n <= MaxNotes
    BY LenProperties DEF TypeOK
  <2>3. low[c] \in 0..15 /\ high[c] \in 0..15
    BY DEF TypeOK
  <2>4. m \in 0..16
    BY <2>3 DEF BitBytes, MaxOf
  <2> HIDE DEF n, m
  <2>2. n \in 0..127
    <3>1. MaxNotes \in Nat
      BY BoundsAssumption
    <3>2. QED
      BY <2>1, <3>1
  <2>5. notes[c] \in [1..n -> Note \X Value]
    BY <2>1, LenProperties DEF n
  <2>6. \A j \in 1..n : NoteOctets(notes[c][j]) = notes[c][j] /\ notes[c][j] \in Int \X Int
    <3> TAKE j \in 1..n
    <3>0. notes[c][j] \in Note \X Value
      BY <2>5
    <3>1. PICK x \in Note, y \in Value : notes[c][j] = <<x, y>>
      BY <3>0
    <3>2. x \in 0..127 /\ y \in 0..127
      BY NoteAssumption, ValueAssumption
    <3>3. x % 128 = x /\ y % 128 = y
      BY <3>2
    <3>4. QED
      BY <3>1, <3>2, <3>3 DEF NoteOctets
  <2> DEFINE q == [j \in 1..n |-> NoteOctets(notes[c][j])]
             o == [j \in 1..m |-> OffOctet(c, low[c] + j - 1)]
  <2>7. q \in [1..n -> Int \X Int] /\ \A j \in 1..n : q[j] = notes[c][j]
    BY <2>6
  <2>8. o \in Seq(Int) /\ Len(o) = m /\ \A j \in 1..m : o[j] = OffOctet(c, low[c] + j - 1)
    <3>1. \A j \in 1..m : OffOctet(c, low[c] + j - 1) \in Int
      <4>1. 0 \in 0..7
        OBVIOUS
      <4>2. QED
        BY <4>1, BitReads
    <3>2. o \in [1..m -> Int] /\ m \in Nat
      BY <2>4, <3>1
    <3>3. QED
      BY <3>2
  <2>9. Sized(o, m)
    BY <2>4, <2>8 DEF Sized
  <2>10. ChapterN(c) = (ChapterNHead(c) \o Pairs(q)) \o o
    BY <1>2 DEF ChapterN, n, m, BitBytes
  <2> HIDE DEF q, o
  <2>11. /\ Sized(Pairs(q), 2 * n)
         /\ \A j \in 1..n : Pairs(q)[2 * j - 1] = q[j][1] /\ Pairs(q)[2 * j] = q[j][2]
    BY <2>1, <2>7, PairsOctets
  <2>12. PICK h, p : h = ChapterNHead(c) /\ p = Pairs(q)
    OBVIOUS
  <2>13. Sized(h, 2) /\ h[1] % 128 = n /\ h[2] = low[c] * 16 + high[c]
    <3>1. PICK x \in {0, 128} : x = IF "N" \in flags[c] THEN 128 ELSE 0
      OBVIOUS
    <3>2. PICK k \in 0..127 : k = n
      BY <2>2
    <3>3. h = <<x + (k % 128), low[c] * 16 + high[c]>>
      BY <2>12, <3>1, <3>2 DEF ChapterNHead, n
    <3>4. (x + (k % 128)) % 128 = k
      OBVIOUS
    <3>5. x + (k % 128) \in Int /\ low[c] * 16 + high[c] \in Int
      BY <2>3
    <3>6. QED
      BY <3>2, <3>3, <3>4, <3>5 DEF Sized
  <2>14. \A j \in 1..n : notes[c][j] = <<p[2 * j - 1], p[2 * j]>>
    <3> TAKE j \in 1..n
    <3>1. PICK x, y \in Int : notes[c][j] = <<x, y>>
      BY <2>6
    <3>2. q[j] = <<x, y>>
      BY <2>7, <3>1
    <3>3. p[2 * j - 1] = q[j][1] /\ p[2 * j] = q[j][2]
      BY <2>11, <2>12
    <3>4. QED
      BY <3>1, <3>2, <3>3
  <2>15. notes[c] = [j \in 1..n |-> notes[c][j]]
    BY <2>5
  <2>16. Sized(p, 2 * n) /\ ChapterN(c) = (h \o p) \o o
    BY <2>10, <2>11, <2>12
  <2>17. ChapterNOf(c, n, h, p, o)
    BY <2>2, <2>3, <2>4, <2>8, <2>9, <2>13, <2>14, <2>15, <2>16 DEF ChapterNOf, n, m
  <2>18. QED
    BY <1>2, <2>17
<1>3. QED
  BY <1>1, <1>2

\* From octet i of s a receiver reads the n notes and the bits of chapter N of c.
ChapterNRead(c, n, s, i) ==
    /\ s[i] % 128 = n
    /\ s[i + 1] \div 16 = low[c] /\ s[i + 1] % 16 = high[c]
    /\ [j \in 1..n |-> <<s[i + 2 * j], s[i + 2 * j + 1]>>] = notes[c]
    /\ ReadBits(s, i + 2 + 2 * n, low[c], high[c]) = PackedOffBits(c)

\* Chapter N is read as it was packed.
LEMMA ChapterNReads ==
    ASSUME TypeOK, NEW c \in Channel, NEW n, NEW h, NEW p, NEW o, ChapterNOf(c, n, h, p, o)
    PROVE  /\ Sized(ChapterN(c), 2 + 2 * n + BitBytes(c))
           /\ \A s : \A i \in Nat : Stands(s, i, ChapterN(c)) => ChapterNRead(c, n, s, i)
<1> DEFINE m == BitBytes(c)
           l == low[c]
           u == high[c]
<1>1. /\ n \in 0..127 /\ m \in 0..16 /\ l \in 0..15 /\ u \in 0..15
      /\ Sized(h, 2) /\ Sized(p, 2 * n) /\ Sized(o, m)
      /\ h[1] % 128 = n /\ h[2] = l * 16 + u
      /\ \A j \in 1..n : notes[c][j] = <<p[2 * j - 1], p[2 * j]>>
      /\ \A j \in 1..m : o[j] = OffOctet(c, l + j - 1)
      /\ notes[c] = [j \in 1..n |-> notes[c][j]]
  BY DEF ChapterNOf
<1>2. m = MaxOf(0, u - l + 1)
  BY DEF BitBytes
<1>3. PICK w : w = ChapterN(c) /\ w = (h \o p) \o o
  BY DEF ChapterNOf
<1> HIDE DEF m, l, u
<1>4. /\ Sized(h \o p, 2 + 2 * n)
      /\ \A s : \A i \in Nat : Stands(s, i, h \o p) => Stands(s, i, h) /\ Stands(s, i + 2, p)
  BY <1>1, Joined
<1>5. /\ Sized(w, 2 + 2 * n + m)
      /\ \A s : \A i \in Nat : Stands(s, i, w) => Stands(s, i, h \o p) /\ Stands(s, i + (2 + 2 * n), o)
  <2>1. PICK g, k : g = h \o p /\ k = 2 + 2 * n
    OBVIOUS
  <2>2. Sized(g, k) /\ Sized(o, m)
    BY <1>1, <1>4, <2>1
  <2>3. /\ Sized(g \o o, k + m)
        /\ \A s : \A i \in Nat : Stands(s, i, g \o o) => Stands(s, i, g) /\ Stands(s, i + k, o)
    BY <2>2, Joined
  <2>4. QED
    BY <1>3, <2>1, <2>3
<1>6. ASSUME NEW s, NEW i \in Nat, Stands(s, i, w) PROVE ChapterNRead(c, n, s, i)
  <2>1. Stands(s, i, h) /\ Stands(s, i + 2, p) /\ Stands(s, i + (2 + 2 * n), o)
    BY <1>4, <1>5, <1>6
  <2>2. s[i] = h[1] /\ s[i + 1] = h[2]
    <3>1. s[i + (1 - 1)] = h[1] /\ s[i + (2 - 1)] = h[2]
      BY <1>1, <2>1, OctetOf
    <3>2. QED
      BY <3>1
  <2>3. (l * 16 + u) \div 16 = l /\ (l * 16 + u) % 16 = u
    <3>1. \A x, y \in 0..15 : (x * 16 + y) \div 16 = x /\ (x * 16 + y) % 16 = y
      OBVIOUS
    <3>2. QED
      BY <1>1, <3>1
  <2>4. s[i] % 128 = n /\ s[i + 1] \div 16 = l /\ s[i + 1] % 16 = u
    BY <1>1, <2>2, <2>3
  <2>5. ASSUME NEW j \in 1..n PROVE <<s[i + 2 * j], s[i + 2 * j + 1]>> = notes[c][j]
    <3>1. 2 * j - 1 \in 1..(2 * n) /\ 2 * j \in 1..(2 * n) /\ i + 2 \in Nat
      BY <1>1
    <3>2. s[(i + 2) + ((2 * j - 1) - 1)] = p[2 * j - 1] /\ s[(i + 2) + (2 * j - 1)] = p[2 * j]
      BY <1>1, <2>1, <3>1, OctetOf
    <3>3. (i + 2) + ((2 * j - 1) - 1) = i + 2 * j /\ (i + 2) + (2 * j - 1) = i + 2 * j + 1
      BY <1>1
    <3>4. QED
      BY <1>1, <3>2, <3>3
  <2>6. [j \in 1..n |-> <<s[i + 2 * j], s[i + 2 * j + 1]>>] = notes[c]
    <3>1. [j \in 1..n |-> <<s[i + 2 * j], s[i + 2 * j + 1]>>] = [j \in 1..n |-> notes[c][j]]
      BY <2>5
    <3>2. QED
      BY <1>1, <3>1
  <2> DEFINE k == i + 2 + 2 * n
  <2>7. ASSUME NEW y \in l..u PROVE s[k + (y - l)] = OffOctet(c, y)
    <3>1. PICK j \in 1..m : j = (y - l) + 1 /\ l + j - 1 = y /\ k + (y - l) = k + (j - 1)
      BY <1>1, <1>2 DEF MaxOf
    <3>2. k = i + (2 + 2 * n) /\ k \in Nat
      <4>1. n \in Nat
        <5>1. n \in 0..127
          BY <1>1
        <5>2. QED
          BY <5>1
      <4>2. QED
        BY <4>1
    <3> HIDE DEF k
    <3>3. s[k + (j - 1)] = o[j]
      BY <1>1, <2>1, <3>2, OctetOf
    <3>4. QED
      BY <1>1, <3>1, <3>3
  <2> HIDE DEF k
  <2>8. \A y \in l..u, x \in 0..7 : (s[k + (y - l)] \div Weight[x + 1]) % 2 = 1 <=> <<y, x>> \in offbits[c]
    BY <2>7, BitReads
  <2>9. offbits[c] \subseteq (0..15) \X (0..7)
    BY DEF TypeOK
  <2>10. \A b \in (l..u) \X (0..7) : (s[k + (b[1] - l)] \div Weight[b[2] + 1]) % 2 = 1 <=> b \in offbits[c]
    <3> TAKE b \in (l..u) \X (0..7)
    <3>1. PICK y \in l..u, x \in 0..7 : b = <<y, x>>
      OBVIOUS
    <3>2. b[1] = y /\ b[2] = x
      BY <3>1
    <3>3. QED
      BY <2>8, <3>1, <3>2
  <2>11. \A b \in offbits[c] : b[1] \in l..u <=> b \in (l..u) \X (0..7)
    BY <2>9
  <2>12. ReadBits(s, k, l, u) = {b \in offbits[c] : b[1] \in l..u}
    <3>1. ReadBits(s, k, l, u) = {b \in (l..u) \X (0..7) : b \in offbits[c]}
      BY <2>10 DEF ReadBits
    <3>2. QED
      BY <2>11, <3>1
  <2>13. QED
    BY <2>4, <2>6, <2>12 DEF ChapterNRead, PackedOffBits, k, l, u
<1>7. QED
  BY <1>3, <1>5, <1>6 DEF m

-----------------------------------------------------------------------------
\* What is in a journal is filed under the chapters its channel names.
Filed ==
    \A c \in Channel :
       /\ chan[c] # 0 <=> flags[c] # {}
       /\ flags[c] # {} => created[c]
       /\ "P" \in flags[c] => program[c] # NONE
       /\ "C" \in flags[c] <=> HasControl(c)
       /\ "N" \in flags[c] => hasN[c]
       /\ "N" \notin flags[c] => notes[c] = <<>> /\ offbits[c] = {}

\* Chapter C with its length, whether there is something in it or not.
LEMMA ChapterCPart ==
    ASSUME TypeOK, NEW c \in Channel, Cardinality(Controls(c)) <= 127
    PROVE  \E l \in 0..255 :
              /\ Sized(ChapterC(c), l)
              /\ ~HasControl(c) => l = 0
              /\ HasControl(c) => \E n \in 1..127 :
                   /\ l = 1 + 2 * n
                   /\ \A s : \A i \in Nat : Stands(s, i, ChapterC(c)) => ChapterCRead(c, n, s, i)
<1>1. CASE ~HasControl(c)
  <2>1. Sized(<<>>, 0)
    BY EmptySeq DEF Sized
  <2>2. ChapterC(c) = <<>>
    BY <1>1, ChapterCMade
  <2>3. PICK l \in 0..255 : l = 0
    OBVIOUS
  <2>4. QED
    BY <1>1, <2>1, <2>2, <2>3
<1>2. CASE HasControl(c)
  <2>1. PICK n, a, h, p : ChapterCOf(c, n, a, h, p)
    BY <1>2, ChapterCMade
  <2>2. n \in 1..127
    BY <2>1 DEF ChapterCOf
  <2>3. /\ Sized(ChapterC(c), 1 + 2 * n)
        /\ \A s : \A i \in Nat : Stands(s, i, ChapterC(c)) => ChapterCRead(c, n, s, i)
    BY <2>1, ChapterCReads
  <2>4. PICK l \in 0..255 : l = 1 + 2 * n
    BY <2>2
  <2>5. QED
    BY <1>2, <2>2, <2>3, <2>4
<1>3. QED
  BY <1>1, <1>2

\* Chapter N with its length, whether there is something in it or not.
LEMMA ChapterNPart ==
    ASSUME TypeOK, MaxNotes <= 127, NEW c \in Channel
    PROVE  \E l \in 0..272 :
              /\ Sized(ChapterN(c), l)
              /\ ~hasN[c] => l = 0
              /\ hasN[c] => \E n \in 0..127 :
                   /\ l = 2 + 2 * n + BitBytes(c)
                   /\ \A s : \A i \in Nat : Stands(s, i, ChapterN(c)) => ChapterNRead(c, n, s, i)
<1>1. CASE ~hasN[c]
  <2>1. Sized(<<>>, 0)
    BY EmptySeq DEF Sized
  <2>2. ChapterN(c) = <<>>
    BY <1>1, ChapterNMade
  <2>3. PICK l \in 0..272 : l = 0
    OBVIOUS
  <2>4. QED
    BY <1>1, <2>1, <2>2, <2>3
<1>2. CASE hasN[c]
  <2>1. PICK n, h, p, o : ChapterNOf(c, n, h, p, o)
    BY <1>2, ChapterNMade
  <2>2. n \in 0..127 /\ BitBytes(c) \in 0..16
    BY <2>1 DEF ChapterNOf
  <2>3. /\ Sized(ChapterN(c), 2 + 2 * n + BitBytes(c))
        /\ \A s : \A i \in Nat : Stands(s, i, ChapterN(c)) => ChapterNRead(c, n, s, i)
    BY <2>1, ChapterNReads
  <2>4. PICK l \in 0..272 : l = 2 + 2 * n + BitBytes(c)
    BY <2>2
  <2>5. QED
    BY <1>2, <2>2, <2>3, <2>4
<1>3. QED
  BY <1>1, <1>2

\* The octets of an entry whose chapters have the lengths lp, lc and ln.
EntryMade(c, lp, lc, ln) ==
    /\ lp \in 0..3 /\ lc \in 0..255 /\ ln \in 0..272
    /\ Sized(ChannelPack(c), 3 + ((lp + lc) + ln))
    /\ \A s : \A i \in Nat : Stands(s, i, ChannelPack(c)) =>
         /\ LengthAt(s, i) = 3 + ((lp + lc) + ln)
         /\ (Get16(s, i) \div 2048) % 16 = PackChannel(c).number
         /\ s[i + 2] = Toc(flags[c])
         /\ Stands(s, i + 3, ChapterP(c)) /\ Stands(s, (i + 3) + lp, ChapterC(c))
         /\ Stands(s, (i + 3) + (lp + lc), ChapterN(c))

\* An entry is a header with its length and then its chapters.
LEMMA EntryOctets ==
    ASSUME TypeOK, NEW c \in Channel, NEW lp \in 0..3, NEW lc \in 0..255, NEW ln \in 0..272,
           Sized(ChapterP(c), lp), Sized(ChapterC(c), lc), Sized(ChapterN(c), ln)
    PROVE  EntryMade(c, lp, lc, ln)
<1>1. PICK len \in 0..1023 : len = 3 + ((lp + lc) + ln)
  OBVIOUS
<1>2. PICK num \in 0..15 : num = PackChannel(c).number
  <2>1. chan[c] \in 0..15
    BY DEF TypeOK
  <2>2. PackChannel(c).number = IF chan[c] = 0 THEN 0 ELSE chan[c] - 1
    BY DEF PackChannel
  <2>3. QED
    BY <2>1, <2>2
<1>fits. HeadFits(num, len)
  BY DEF HeadFits
<1>3. PICK x, y, z : x = ChapterP(c) /\ y = ChapterC(c) /\ z = ChapterN(c)
  OBVIOUS
<1>4. PICK t \in Int : t = Toc(flags[c])
  BY NamesReads DEF TypeOK
<1>5. PICK g, k : g = EntryHead(num, len) /\ k = <<t>>
  OBVIOUS
<1>6. Sized(g, 2)
  <2>1. PICK v \in Int : v = 32768 + num * 2048 + (len % 1024)
    OBVIOUS
  <2>2. g = <<v \div 256, v % 256>>
    BY <1>5, <2>1 DEF Put16, EntryHead
  <2>3. QED
    BY <2>2 DEF Sized
<1>7. Sized(k, 1) /\ k[1] = t
  BY <1>5 DEF Sized
<1>8. ChannelPack(c) = (g \o k) \o ((x \o y) \o z)
  <2>1. Len((x \o y) \o z) = (lp + lc) + ln
    <3>1. Sized(x \o y, lp + lc)
      BY <1>3, Joined
    <3>2. PICK xy, m : xy = x \o y /\ m = lp + lc
      OBVIOUS
    <3>3. Sized(xy \o z, m + ln)
      BY <1>3, <3>1, <3>2, Joined
    <3>4. QED
      BY <3>2, <3>3 DEF Sized
  <2>2. ChannelPack(c) = ChannelHeaderPack(c, len) \o ((x \o y) \o z)
    BY <1>1, <1>3, <2>1 DEF ChannelPack
  <2>3. ChannelHeaderPack(c, len) = g \o k
    BY <1>2, <1>4, <1>5 DEF ChannelHeaderPack, EntryHead
  <2>4. QED
    BY <2>2, <2>3
<1>9. /\ Sized(x \o y, lp + lc)
      /\ \A s : \A i \in Nat : Stands(s, i, x \o y) => Stands(s, i, x) /\ Stands(s, i + lp, y)
  BY <1>3, Joined
<1>10. PICK xy, m : xy = x \o y /\ m = lp + lc
  OBVIOUS
<1>11. /\ Sized(xy \o z, m + ln)
       /\ \A s : \A i \in Nat : Stands(s, i, xy \o z) => Stands(s, i, xy) /\ Stands(s, i + m, z)
  <2>1. Sized(xy, m) /\ Sized(z, ln)
    BY <1>3, <1>9, <1>10
  <2>2. QED
    BY <2>1, Joined
<1>12. /\ Sized(g \o k, 3)
       /\ \A s : \A i \in Nat : Stands(s, i, g \o k) => Stands(s, i, g) /\ Stands(s, i + 2, k)
  <2>1. 2 + 1 = 3
    OBVIOUS
  <2>2. QED
    BY <1>6, <1>7, <2>1, Joined
<1>13. PICK gk, b, q : gk = g \o k /\ b = xy \o z /\ q = m + ln
  OBVIOUS
<1>14. /\ Sized(gk \o b, 3 + q)
       /\ \A s : \A i \in Nat : Stands(s, i, gk \o b) => Stands(s, i, gk) /\ Stands(s, i + 3, b)
  <2>1. Sized(gk, 3) /\ Sized(b, q)
    BY <1>11, <1>12, <1>13
  <2>2. QED
    BY <2>1, Joined
<1>15. PICK w : w = ChannelPack(c) /\ w = gk \o b
  BY <1>8, <1>10, <1>13
<1>16. Sized(w, 3 + ((lp + lc) + ln))
  BY <1>10, <1>13, <1>14, <1>15
<1>17. ASSUME NEW s, NEW i \in Nat, Stands(s, i, w)
       PROVE  /\ HeadSays(s, i, num, len) /\ s[i + 2] = t
              /\ Stands(s, i + 3, x) /\ Stands(s, (i + 3) + lp, y) /\ Stands(s, (i + 3) + m, z)
  <2>1. i + 3 \in Nat /\ i + 2 \in Nat
    OBVIOUS
  <2>2. Stands(s, i, gk) /\ Stands(s, i + 3, b)
    BY <1>14, <1>15, <1>17
  <2>3. Stands(s, i, g) /\ Stands(s, i + 2, k)
    BY <1>12, <1>13, <2>2
  <2>4. Stands(s, i + 3, xy) /\ Stands(s, (i + 3) + m, z)
    BY <1>11, <1>13, <2>1, <2>2
  <2>5. Stands(s, i + 3, x) /\ Stands(s, (i + 3) + lp, y)
    BY <1>9, <1>10, <2>1, <2>4
  <2>6. HeadSays(s, i, num, len)
    <3>1. Stands(s, i, EntryHead(num, len))
      BY <1>5, <2>3
    <3>2. QED
      BY <1>fits, <3>1, HeaderReads
  <2>7. s[(i + 2) + (1 - 1)] = k[1]
    BY <1>7, <2>1, <2>3, OctetOf
  <2>8. s[i + 2] = t
    BY <1>7, <2>7
  <2>9. QED
    BY <2>4, <2>5, <2>6, <2>8
<1>18. ASSUME NEW s, NEW i \in Nat, Stands(s, i, ChannelPack(c))
       PROVE  /\ LengthAt(s, i) = 3 + ((lp + lc) + ln)
              /\ (Get16(s, i) \div 2048) % 16 = PackChannel(c).number
              /\ s[i + 2] = Toc(flags[c])
              /\ Stands(s, i + 3, ChapterP(c)) /\ Stands(s, (i + 3) + lp, ChapterC(c))
              /\ Stands(s, (i + 3) + (lp + lc), ChapterN(c))
  <2>1. /\ HeadSays(s, i, num, len) /\ s[i + 2] = t
        /\ Stands(s, i + 3, x) /\ Stands(s, (i + 3) + lp, y) /\ Stands(s, (i + 3) + m, z)
    BY <1>15, <1>17, <1>18
  <2>2. LengthAt(s, i) = len /\ (Get16(s, i) \div 2048) % 16 = num
    BY <2>1 DEF HeadSays
  <2>3. QED
    BY <1>1, <1>2, <1>3, <1>4, <1>10, <2>1, <2>2
<1>19. QED
  BY <1>15, <1>16, <1>18 DEF EntryMade

\* At octet i of s stands the entry of c, of len octets.
EntryIs(s, i, c, len) ==
    LengthAt(s, i) = len /\ s[i + 2] = Toc(flags[c]) /\ EntryReads(s, i, c, i + len)

\* An entry is read as it was packed.
LEMMA EntryRead ==
    ASSUME TypeOK, Filed, MaxNotes <= 127, NEW c \in Channel, Cardinality(Controls(c)) <= 127
    PROVE  \E len \in 1..1023 :
              /\ Sized(ChannelPack(c), len)
              /\ \A s : \A i \in Nat : Stands(s, i, ChannelPack(c)) => EntryIs(s, i, c, len)
<1>1. PICK lp \in 0..3 : lp = IF program[c] = NONE THEN 0 ELSE 3
  OBVIOUS
<1>2. Sized(ChapterP(c), lp)
  BY <1>1, ChapterPReads
<1>3. PICK lc \in 0..255 :
         /\ Sized(ChapterC(c), lc)
         /\ ~HasControl(c) => lc = 0
         /\ HasControl(c) => \E n \in 1..127 :
              /\ lc = 1 + 2 * n
              /\ \A s : \A i \in Nat : Stands(s, i, ChapterC(c)) => ChapterCRead(c, n, s, i)
  BY ChapterCPart
<1>4. PICK ln \in 0..272 :
         /\ Sized(ChapterN(c), ln)
         /\ ~hasN[c] => ln = 0
         /\ hasN[c] => \E n \in 0..127 :
              /\ ln = 2 + 2 * n + BitBytes(c)
              /\ \A s : \A i \in Nat : Stands(s, i, ChapterN(c)) => ChapterNRead(c, n, s, i)
  BY ChapterNPart
<1>5. EntryMade(c, lp, lc, ln)
  BY <1>2, <1>3, <1>4, EntryOctets
<1>6. PICK len \in 1..1023 : len = 3 + ((lp + lc) + ln)
  OBVIOUS
<1>7. ASSUME NEW s, NEW i \in Nat, Stands(s, i, ChannelPack(c))
      PROVE  EntryIs(s, i, c, len)
  <2>1. /\ LengthAt(s, i) = len
        /\ (Get16(s, i) \div 2048) % 16 = PackChannel(c).number
        /\ s[i + 2] = Toc(flags[c])
        /\ Stands(s, i + 3, ChapterP(c)) /\ Stands(s, (i + 3) + lp, ChapterC(c))
        /\ Stands(s, (i + 3) + (lp + lc), ChapterN(c))
    BY <1>5, <1>6, <1>7 DEF EntryMade
  <2>2. SUFFICES ASSUME ~LeftOverP(c)
                 PROVE  /\ \A f \in DOMAIN Said(c) : ReadEntry(s, i)[f] = Said(c)[f]
                        /\ ~LeftOverN(c) => ReadEntry(s, i).next = i + len
    BY <2>1 DEF EntryIs, EntryReads
  <2>3. flags[c] \in SUBSET {"P", "C", "N"}
    BY DEF TypeOK
  <2>4. Names(s[i + 2]) = flags[c]
    BY <2>1, <2>3, NamesReads
  <2>5. /\ "P" \in flags[c] <=> program[c] # NONE
        /\ "C" \in flags[c] <=> HasControl(c)
        /\ "N" \in flags[c] => hasN[c]
        /\ "N" \notin flags[c] => notes[c] = <<>> /\ offbits[c] = {}
    BY <2>2 DEF Filed, LeftOverP
  <2> DEFINE names == Names(s[i + 2])
             atC == i + 3 + (IF "P" \in names THEN 3 ELSE 0)
             logs == (s[atC] % 128) + 1
             atN == atC + (IF "C" \in names THEN 1 + 2 * logs ELSE 0)
             played == s[atN] % 128
             lowest == s[atN + 1] \div 16
             highest == s[atN + 1] % 16
             e == ReadEntry(s, i)
  <2>6. e = [number  |-> (Get16(s, i) \div 2048) % 16,
             flags   |-> names,
             program |-> IF "P" \in names THEN s[i + 3] % 128 ELSE NONE,
             control |-> IF "C" \in names
                         THEN {<<s[atC + 2 * j - 1] % 128, s[atC + 2 * j]>> : j \in 1..logs} ELSE {},
             notes   |-> IF "N" \in names
                         THEN [j \in 1..played |-> <<s[atN + 2 * j], s[atN + 2 * j + 1]>>] ELSE <<>>,
             offbits |-> IF "N" \in names THEN ReadBits(s, atN + 2 + 2 * played, lowest, highest) ELSE {},
             next    |-> IF "N" \in names
                         THEN atN + 2 + 2 * played + MaxOf(0, highest - lowest + 1) ELSE atN]
    BY DEF ReadEntry
  <2>7. /\ atC = i + 3 + (IF "P" \in names THEN 3 ELSE 0)
        /\ logs = (s[atC] % 128) + 1
        /\ atN = atC + (IF "C" \in names THEN 1 + 2 * logs ELSE 0)
        /\ played = s[atN] % 128 /\ lowest = s[atN + 1] \div 16 /\ highest = s[atN + 1] % 16
    OBVIOUS
  <2>8. names = flags[c]
    BY <2>4
  <2>9. atC \in Nat
    OBVIOUS
  <2> HIDE DEF names, atC, logs, atN, played, lowest, highest, e
  <2>10. /\ e.number = (Get16(s, i) \div 2048) % 16
         /\ e.flags = flags[c]
         /\ e.program = (IF "P" \in flags[c] THEN s[i + 3] % 128 ELSE NONE)
         /\ e.control = (IF "C" \in flags[c]
                         THEN {<<s[atC + 2 * j - 1] % 128, s[atC + 2 * j]>> : j \in 1..logs} ELSE {})
         /\ e.notes = (IF "N" \in flags[c]
                       THEN [j \in 1..played |-> <<s[atN + 2 * j], s[atN + 2 * j + 1]>>] ELSE <<>>)
         /\ e.offbits = (IF "N" \in flags[c] THEN ReadBits(s, atN + 2 + 2 * played, lowest, highest) ELSE {})
         /\ e.next = (IF "N" \in flags[c]
                      THEN atN + 2 + 2 * played + MaxOf(0, highest - lowest + 1) ELSE atN)
    BY <2>6, <2>8
  <2>11. atC = (i + 3) + lp
    BY <1>1, <2>5, <2>7, <2>8
  <2>12. e.program = Said(c).program
    <3>1. i + 3 \in Nat
      OBVIOUS
    <3>2. CASE "P" \in flags[c]
      <4>1. program[c] # NONE
        BY <2>5, <3>2
      <4>2. s[i + 3] % 128 = program[c]
        BY <2>1, <3>1, <4>1, ChapterPReads
      <4>3. QED
        BY <2>10, <3>2, <4>2 DEF Said
    <3>3. CASE "P" \notin flags[c]
      BY <2>10, <3>3 DEF Said
    <3>4. QED
      BY <3>2, <3>3
  <2>13. e.control = Logs(c) /\ atN = (i + 3) + (lp + lc)
    <3>1. CASE "C" \in flags[c]
      <4>1. PICK n \in 1..127 :
               /\ lc = 1 + 2 * n
               /\ (s[atC] % 128) + 1 = n
               /\ {<<s[atC + 2 * j - 1] % 128, s[atC + 2 * j]>> : j \in 1..n} = Logs(c)
        <5>1. HasControl(c) /\ Stands(s, atC, ChapterC(c))
          BY <2>1, <2>5, <2>11, <3>1
        <5>2. PICK n \in 1..127 : lc = 1 + 2 * n /\ ChapterCRead(c, n, s, atC)
          BY <1>3, <2>9, <5>1
        <5>3. QED
          BY <5>2 DEF ChapterCRead
      <4>2. logs = n
        BY <2>7, <4>1
      <4>3. e.control = Logs(c)
        BY <2>10, <3>1, <4>1, <4>2
      <4>4. atN = atC + (1 + 2 * n)
        BY <2>7, <2>8, <3>1, <4>2
      <4>5. QED
        BY <2>11, <4>1, <4>3, <4>4
    <3>2. CASE "C" \notin flags[c]
      <4>1. ~HasControl(c) /\ lc = 0
        BY <1>3, <2>5, <3>2
      <4>2. Logs(c) = {}
        BY <4>1 DEF Logs, Controls, HasControl
      <4>3. e.control = {} /\ atN = atC + 0
        BY <2>7, <2>8, <2>10, <3>2
      <4>4. QED
        BY <2>11, <4>1, <4>2, <4>3
    <3>3. QED
      BY <3>1, <3>2
  <2>14. e.notes = notes[c] /\ e.offbits = PackedOffBits(c) /\ (~LeftOverN(c) => e.next = i + len)
    <3>1. CASE "N" \in flags[c]
      <4>1. hasN[c]
        BY <2>5, <3>1
      <4>2. atN \in Nat /\ Stands(s, atN, ChapterN(c))
        BY <2>1, <2>13
      <4>3. PICK n \in 0..127 : ln = 2 + 2 * n + BitBytes(c) /\ ChapterNRead(c, n, s, atN)
        BY <1>4, <4>1, <4>2
      <4>4. /\ played = n /\ lowest = low[c] /\ highest = high[c]
            /\ [j \in 1..n |-> <<s[atN + 2 * j], s[atN + 2 * j + 1]>>] = notes[c]
            /\ ReadBits(s, atN + 2 + 2 * n, low[c], high[c]) = PackedOffBits(c)
        BY <2>7, <4>3 DEF ChapterNRead
      <4>5. e.notes = notes[c] /\ e.offbits = PackedOffBits(c)
        BY <2>10, <3>1, <4>4
      <4>6. e.next = atN + 2 + 2 * n + BitBytes(c)
        BY <2>10, <3>1, <4>4 DEF BitBytes
      <4>7. BitBytes(c) \in Int
        <5>1. low[c] \in 0..15 /\ high[c] \in 0..15
          BY DEF TypeOK
        <5>2. QED
          BY <5>1 DEF BitBytes, MaxOf
      <4>8. e.next = i + len
        BY <1>6, <2>13, <4>3, <4>6, <4>7
      <4>9. QED
        BY <4>5, <4>8
    <3>2. CASE "N" \notin flags[c]
      <4>1. e.notes = <<>> /\ e.offbits = {} /\ e.next = atN
        BY <2>10, <3>2
      <4>2. notes[c] = <<>> /\ PackedOffBits(c) = {}
        BY <2>5, <3>2 DEF PackedOffBits
      <4>3. ~LeftOverN(c) => ln = 0
        BY <1>4, <3>2 DEF LeftOverN
      <4>4. ~LeftOverN(c) => e.next = i + len
        BY <1>6, <2>13, <4>1, <4>3
      <4>5. QED
        BY <4>1, <4>2, <4>4
    <3>3. QED
      BY <3>1, <3>2
  <2>15. e.number = Said(c).number /\ e.flags = Said(c).flags
    BY <2>1, <2>10 DEF Said
  <2>16. Said(c).control = Logs(c) /\ Said(c).notes = notes[c] /\ Said(c).offbits = PackedOffBits(c)
    BY DEF Said, Logs, Controls
  <2>17. DOMAIN Said(c) = {"number", "flags", "program", "control", "notes", "offbits"}
    BY DEF Said
  <2>18. \A f \in DOMAIN Said(c) : e[f] = Said(c)[f]
    BY <2>12, <2>13, <2>14, <2>15, <2>16, <2>17
  <2>19. QED
    BY <2>14, <2>18 DEF e
<1>8. Sized(ChannelPack(c), len)
  BY <1>5, <1>6 DEF EntryMade
<1>9. QED
  BY <1>7, <1>8

\* The header of the journal, as it was packed.
LEMMA JournalHeader ==
    ASSUME NEW n \in 1..15, totchan = n, NEW seq \in Uint16
    PROVE  /\ Sized(JournalHeaderPack(seq), 3)
           /\ \A s : Stands(s, 1, JournalHeaderPack(seq)) => (s[1] % 16) + 1 = n /\ Get16(s, 2) = seq
<1>1. PICK a \in Int : a = (8 + 2) * 16 + ((n - 1) % 16)
  OBVIOUS
<1>2. (a % 16) + 1 = n
  BY <1>1
<1>3. PICK v \in Nat : v = seq
  BY DEF Uint16
<1>4. v \div 256 \in Int /\ v % 256 \in Int /\ (v \div 256) * 256 + (v % 256) = v
  OBVIOUS
<1>5. PICK b, c \in Int : b = v \div 256 /\ c = v % 256
  BY <1>4
<1>6. PICK g, h : g = <<a>> /\ h = <<b, c>>
  OBVIOUS
<1>7. JournalHeaderPack(seq) = g \o h
  BY <1>1, <1>3, <1>5, <1>6 DEF JournalHeaderPack, Put16
<1>8. Sized(g, 1) /\ g[1] = a /\ Sized(h, 2) /\ h[1] = b /\ h[2] = c
  BY <1>6 DEF Sized
<1>9. /\ Sized(g \o h, 1 + 2)
      /\ \A s : \A i \in Nat : Stands(s, i, g \o h) => Stands(s, i, g) /\ Stands(s, i + 1, h)
  BY <1>8, Joined
<1>10. ASSUME NEW s, Stands(s, 1, g \o h) PROVE (s[1] % 16) + 1 = n /\ Get16(s, 2) = seq
  <2>1. PICK i \in Nat : i = 1
    OBVIOUS
  <2>2. Stands(s, i, g) /\ Stands(s, i + 1, h) /\ i + 1 \in Nat
    BY <1>9, <1>10, <2>1
  <2>3. s[i + (1 - 1)] = a
    BY <1>8, <2>2, OctetOf
  <2>4. s[(i + 1) + (1 - 1)] = b /\ s[(i + 1) + (2 - 1)] = c
    BY <1>8, <2>2, OctetOf
  <2>5. s[1] = a /\ s[2] = b /\ s[2 + 1] = c
    BY <2>1, <2>3, <2>4
  <2>6. Get16(s, 2) = b * 256 + c
    BY <2>5 DEF Get16
  <2>7. QED
    BY <1>2, <1>3, <1>4, <1>5, <2>5, <2>6
<1>11. QED
  BY <1>7, <1>9, <1>10

\* The entries of the journal: the channels that were created, in ascending order.
LEMMA CreatedOrder ==
    ASSUME Numberable
    PROVE  \E n \in Nat :
              /\ Created \in [1..n -> {c \in Channel : created[c]}] /\ Len(Created) = n
              /\ \A c \in Channel : created[c] => \E i \in 1..n : Created[i] = c
              /\ \A i, j \in 1..n : Created[i] = Created[j] => i = j
<1> DEFINE K == {c \in Channel : created[c]}
<1>1. K \subseteq Channel /\ K = {c \in Channel : created[c]}
  OBVIOUS
<1> HIDE DEF K
<1>2. IsFiniteSet(K) /\ Cardinality(K) \in Nat
  BY <1>1, FewChannels
<1>3. K \subseteq Nat
  <2>1. \A x \in 0..14 : x \in Nat
    OBVIOUS
  <2>2. QED
    BY <1>1, <2>1 DEF Numberable
<1>4. PICK n \in Nat : n = Cardinality(K)
  BY <1>2
<1>5. /\ Ascending(K) \in [1..n -> K]
      /\ \A x \in K : \E i \in 1..n : Ascending(K)[i] = x
      /\ \A i, j \in 1..n : i < j => Ascending(K)[i] < Ascending(K)[j]
  BY <1>2, <1>3, <1>4, AscendingOrder
<1>6. Created = Ascending(K)
  BY DEF Created, K
<1>7. ASSUME NEW i \in 1..n, NEW j \in 1..n, Created[i] = Created[j] PROVE i = j
  <2>1. Created[i] \in Nat /\ Created[j] \in Nat
    BY <1>3, <1>5, <1>6
  <2>2. ~(i < j) /\ ~(j < i)
    BY <1>5, <1>6, <1>7, <2>1
  <2>3. QED
    BY <2>2
<1>8. Len(Created) = n
  BY <1>5, <1>6
<1>9. \A c \in Channel : created[c] => \E i \in 1..n : Created[i] = c
  BY <1>1, <1>5, <1>6
<1>10. Created \in [1..n -> {c \in Channel : created[c]}]
  BY <1>1, <1>5, <1>6
<1>11. QED
  BY <1>7, <1>8, <1>9, <1>10

\* The n channels d are those that were created, each once.
Lists(d, n) == /\ d \in [1..n -> Channel]
               /\ \A c \in Channel : created[c] => \E i \in 1..n : d[i] = c
               /\ \A i, j \in 1..n : d[i] = d[j] => i = j

\* As many entries name a chapter as channels are counted; t are the octets of their
\* headers that name the chapters.
LEMMA NamedEntries ==
    ASSUME Numberable, TypeOK, Filed, NEW n \in Nat, NEW d, Lists(d, n), NEW t,
           \A i \in 1..n : t[i] = Toc(flags[d[i]])
    PROVE  Cardinality({i \in 1..n : t[i] # 0}) = Cardinality(Numbered)
<1> DEFINE N == {i \in 1..n : t[i] # 0}
<1>0. /\ d \in [1..n -> Channel]
      /\ \A c \in Channel : created[c] => \E i \in 1..n : d[i] = c
      /\ \A i, j \in 1..n : d[i] = d[j] => i = j
  BY DEF Lists
<1>1. ASSUME NEW i \in 1..n PROVE i \in N <=> d[i] \in Numbered
  <2>1. PICK F \in SUBSET {"P", "C", "N"} : F = flags[d[i]]
    BY <1>0 DEF TypeOK
  <2>2. t[i] # 0 <=> F # {}
    BY <2>1, NamesReads
  <2>3. F # {} <=> chan[d[i]] # 0
    BY <1>0, <2>1 DEF Filed
  <2>4. QED
    BY <1>0, <2>2, <2>3 DEF Numbered
<1>2. N \subseteq 1..n
  OBVIOUS
<1> HIDE DEF N
<1>3. IsFiniteSet(Numbered) /\ \A x \in Numbered : \E i \in 1..n : d[i] = x
  BY <1>0, FewChannels DEF Numbered, Filed
<1> DEFINE b == [i \in N |-> d[i]]
<1>4. b \in [N -> Numbered]
  BY <1>0, <1>1, <1>2
<1>5. \A i, j \in N : b[i] = b[j] => i = j
  BY <1>0, <1>2
<1>6. \A x \in Numbered : \E i \in N : b[i] = x
  BY <1>1, <1>3
<1> HIDE DEF b
<1>7. b \in Injection(N, Numbered)
  BY <1>4, <1>5 DEF Injection, IsInjective
<1>8. b \in Surjection(N, Numbered)
  BY <1>4, <1>6 DEF Surjection
<1>9. Cardinality(N) = Cardinality(Numbered)
  BY <1>3, <1>7, <1>8, FS_Injection
<1>10. QED
  BY <1>9 DEF N

-----------------------------------------------------------------------------
\* What is to pack of chapter C can be counted in the uint8_t it is counted in.
CountedInAByte == \A c \in Channel : Cardinality(Controls(c)) <= 127

\* A receiver reads from the journal what was packed into it.
LEMMA JournalRead ==
    ASSUME Numberable, MaxNotes <= 127, TypeOK, Filed, Complete, CountedInAByte,
           totchan > 0, NEW seq \in Uint16
    PROVE  ReadsWith(seq)
<1>1. PICK t \in 1..15 : totchan = t
  <2>1. Cardinality(Numbered) \in Nat /\ Cardinality(Numbered) <= 15
    BY FewChannels DEF Numbered
  <2>2. QED
    BY <2>1 DEF Complete
<1>2. PICK h : /\ h = JournalHeaderPack(seq) /\ Sized(h, 3)
               /\ \A s : Stands(s, 1, h) => (s[1] % 16) + 1 = t /\ Get16(s, 2) = seq
  BY <1>1, JournalHeader
<1>3. PICK n \in Nat :
         /\ Created \in [1..n -> {c \in Channel : created[c]}] /\ Len(Created) = n
         /\ \A c \in Channel : created[c] => \E i \in 1..n : Created[i] = c
         /\ \A i, j \in 1..n : Created[i] = Created[j] => i = j
  BY CreatedOrder
<1>4. PICK d : d = Created /\ d \in [1..n -> Channel] /\ Len(Created) = n /\ Lists(d, n)
  BY <1>3 DEF Lists
<1>5. PICK q : q = [i \in 1..n |-> ChannelPack(d[i])]
  OBVIOUS
<1>6. ASSUME NEW k \in 1..n
      PROVE  /\ q[k] \in Seq(Int) /\ Len(q[k]) \in Nat
             /\ \A s : \A i \in Nat : Stands(s, i, q[k]) => EntryIs(s, i, d[k], Len(q[k]))
  <2>1. PICK c \in Channel : c = d[k]
    BY <1>4
  <2>2. Cardinality(Controls(c)) <= 127
    BY DEF CountedInAByte
  <2>3. PICK len \in 1..1023 :
           /\ Sized(ChannelPack(c), len)
           /\ \A s : \A i \in Nat : Stands(s, i, ChannelPack(c)) => EntryIs(s, i, c, len)
    BY <2>2, EntryRead
  <2>4. q[k] = ChannelPack(c)
    BY <1>5, <2>1
  <2>5. q[k] \in Seq(Int) /\ Len(q[k]) = len /\ len \in Nat
    BY <2>3, <2>4 DEF Sized
  <2>6. QED
    BY <2>1, <2>3, <2>4, <2>5
<1>7. q \in [1..n -> Seq(Int)]
  BY <1>5, <1>6
<1>8. PICK f : f = FlattenSeq(q)
  OBVIOUS
<1>9. /\ f \in Seq(Int)
      /\ \E off \in [1..(n + 1) -> Nat] :
            /\ off[1] = 0 /\ off[n + 1] = Len(f)
            /\ \A k \in 1..n : off[k + 1] = off[k] + Len(q[k])
            /\ \A s : \A i \in Nat : Stands(s, i, f) => \A k \in 1..n : Stands(s, i + off[k], q[k])
  BY <1>7, <1>8, FlattenStands
<1>10. PICK off \in [1..(n + 1) -> Nat] :
          /\ off[1] = 0 /\ off[n + 1] = Len(f)
          /\ \A k \in 1..n : off[k + 1] = off[k] + Len(q[k])
          /\ \A s : \A i \in Nat : Stands(s, i, f) => \A k \in 1..n : Stands(s, i + off[k], q[k])
  BY <1>9
<1>11. PICK m \in Nat : m = Len(f) /\ Sized(f, m)
  BY <1>9, LenProperties DEF Sized
<1>12. PICK s : s = h \o f
  OBVIOUS
<1>13. JournalPack(seq) = s
  <2>1. [i \in 1..Len(Created) |-> ChannelPack(Created[i])] = q
    BY <1>4, <1>5
  <2>2. totchan # 0
    OBVIOUS
  <2>3. JournalPack(seq) = JournalHeaderPack(seq) \o FlattenSeq(q)
    BY <2>1, <2>2 DEF JournalPack
  <2>4. QED
    BY <1>2, <1>8, <1>12, <2>3
<1>14. Sized(s, 3 + m) /\ \A r : \A i \in Nat : Stands(r, i, s) => Stands(r, i, h) /\ Stands(r, i + 3, f)
  BY <1>2, <1>11, <1>12, Joined
<1>15. Stands(s, 1, s)
  BY <1>14 DEF Stands, Sized
<1>16. Stands(s, 1, h) /\ Stands(s, 4, f)
  <2>1. PICK i \in Nat : i = 1 /\ i + 3 = 4
    OBVIOUS
  <2>2. QED
    BY <1>14, <1>15, <2>1
<1>17. (s[1] % 16) + 1 = totchan /\ Get16(s, 2) = seq
  BY <1>1, <1>2, <1>16
<1>18. ASSUME NEW k \in 1..n
       PROVE  EntryIs(s, 4 + off[k], d[k], Len(q[k])) /\ off[k + 1] = off[k] + Len(q[k])
  <2>1. Stands(s, 4 + off[k], q[k])
    BY <1>10, <1>16
  <2>2. 4 + off[k] \in Nat
    BY <1>10
  <2>3. QED
    BY <1>6, <1>10, <2>1, <2>2
<1>19. \A k \in 1..n : LengthAt(s, 4 + off[k]) = off[k + 1] - off[k]
  <2> TAKE k \in 1..n
  <2>1. LengthAt(s, 4 + off[k]) = Len(q[k]) /\ off[k + 1] = off[k] + Len(q[k])
    BY <1>18 DEF EntryIs
  <2>2. off[k] \in Nat /\ Len(q[k]) \in Nat
    BY <1>6, <1>10
  <2>3. QED
    BY <2>1, <2>2
<1>20. PICK at : at = EntriesAt(s, n) /\ \A k \in 1..(n + 1) : at[k] = 4 + off[k]
  <2>1. off[1] = 0
    BY <1>10
  <2>2. \A k \in 1..(n + 1) : EntriesAt(s, n)[k] = 4 + off[k]
    BY <1>19, <2>1, WalkFinds
  <2>3. QED
    BY <2>2
<1>21. at[n + 1] = Len(s) + 1
  <2>1. at[n + 1] = 4 + m
    BY <1>10, <1>11, <1>20
  <2>2. Len(s) = 3 + m
    BY <1>14 DEF Sized
  <2>3. QED
    BY <2>1, <2>2
<1>22. ASSUME NEW k \in 1..n
       PROVE  EntryReads(s, at[k], d[k], at[k + 1]) /\ s[at[k] + 2] = Toc(flags[d[k]])
  <2>1. EntryIs(s, at[k], d[k], Len(q[k]))
    BY <1>18, <1>20
  <2>2. at[k + 1] = at[k] + Len(q[k])
    <3>1. k + 1 \in 1..(n + 1) /\ off[k] \in Nat /\ Len(q[k]) \in Nat
      BY <1>6, <1>10
    <3>2. at[k + 1] = 4 + off[k + 1] /\ at[k] = 4 + off[k]
      BY <1>20, <3>1
    <3>3. PICK x, y, l \in Nat : x = off[k] /\ y = off[k + 1] /\ l = Len(q[k]) /\ y = x + l
      BY <1>18, <3>1
    <3>4. y = x + l
      BY <3>3
    <3>5. 4 + y = (4 + x) + l
      BY <3>4
    <3>6. QED
      BY <3>2, <3>3, <3>5
  <2>3. QED
    BY <2>1, <2>2 DEF EntryIs
<1>23. Cardinality({k \in 1..n : s[at[k] + 2] # 0}) = totchan
  <2>1. PICK b : b = [k \in 1..n |-> s[at[k] + 2]]
    OBVIOUS
  <2>2. \A k \in 1..n : b[k] = Toc(flags[d[k]])
    BY <1>22, <2>1
  <2>3. Cardinality({k \in 1..n : b[k] # 0}) = Cardinality(Numbered)
    BY <1>4, <2>2, NamedEntries
  <2>4. {k \in 1..n : b[k] # 0} = {k \in 1..n : s[at[k] + 2] # 0}
    BY <2>1
  <2>5. QED
    BY <2>3, <2>4 DEF Complete
<1>24. QED
  BY <1>3, <1>4, <1>13, <1>17, <1>20, <1>21, <1>22, <1>23 DEF ReadsWith

\* In a journal that journal_init made nothing is filed.
LEMMA InitFiled == Init => Filed
  BY DEF Init, Filed, HasControl

\* What adding an event to chapter x of channel c does to the headers of the channels.
LEMMA MarkFiles ==
    ASSUME Numberable, TypeOK, NEW c \in Channel, NEW x \in {"P", "C", "N"}, Mark(c, x)
    PROVE  /\ chan'[c] # 0 /\ created'[c] /\ flags'[c] = flags[c] \cup {x} /\ flags'[c] # {}
           /\ \A d \in Channel : d # c => /\ created'[d] = created[d] /\ chan'[d] = chan[d]
                                          /\ flags'[d] = flags[d]
<1>1. c \in 0..14
  BY DEF Numberable
<1>2. (c + 1) % 16 # 0
  BY <1>1
<1>3. QED
  BY <1>2, MarkType

\* Every event is filed in a chapter that the header of its channel names.
LEMMA StepFiled == ASSUME Numberable, TypeOK, Filed, [Next]_vars PROVE Filed'
<1>1. ASSUME NEW c \in Channel, NEW n \in Note, NEW v \in Value, AddNoteOn(c, n, v) PROVE Filed'
  <2>1. Mark(c, "N") /\ UNCHANGED <<offbits, program, control>>
    BY <1>1 DEF AddNoteOn
  <2>2. /\ chan'[c] # 0 /\ created'[c] /\ flags'[c] = flags[c] \cup {"N"} /\ flags'[c] # {}
        /\ \A d \in Channel : d # c => /\ created'[d] = created[d] /\ chan'[d] = chan[d]
                                       /\ flags'[d] = flags[d]
    BY <2>1, MarkFiles
  <2>3. /\ hasN'[c] /\ \A d \in Channel : d # c => hasN'[d] = hasN[d] /\ notes'[d] = notes[d]
    BY <1>1 DEF AddNoteOn, TypeOK
  <2>4. QED
    BY <2>1, <2>2, <2>3 DEF Filed, HasControl
<1>2. ASSUME NEW c \in Channel, NEW n \in Note, AddNoteOff(c, n) PROVE Filed'
  <2>1. Mark(c, "N") /\ UNCHANGED <<notes, program, control>>
    BY <1>2 DEF AddNoteOff
  <2>2. /\ chan'[c] # 0 /\ created'[c] /\ flags'[c] = flags[c] \cup {"N"} /\ flags'[c] # {}
        /\ \A d \in Channel : d # c => /\ created'[d] = created[d] /\ chan'[d] = chan[d]
                                       /\ flags'[d] = flags[d]
    BY <2>1, MarkFiles
  <2>3. /\ hasN'[c] /\ \A d \in Channel : d # c => hasN'[d] = hasN[d] /\ offbits'[d] = offbits[d]
    BY <1>2 DEF AddNoteOff, TypeOK
  <2>4. QED
    BY <2>1, <2>2, <2>3 DEF Filed, HasControl
<1>3. ASSUME NEW c \in Channel, NEW k \in Controller, NEW v \in Value, AddControl(c, k, v) PROVE Filed'
  <2>1. Mark(c, "C") /\ UNCHANGED <<hasN, notes, offbits, program>>
    BY <1>3 DEF AddControl, chapterN
  <2>2. /\ chan'[c] # 0 /\ created'[c] /\ flags'[c] = flags[c] \cup {"C"} /\ flags'[c] # {}
        /\ \A d \in Channel : d # c => /\ created'[d] = created[d] /\ chan'[d] = chan[d]
                                       /\ flags'[d] = flags[d]
    BY <2>1, MarkFiles
  <2>3. control'[c][k] = v /\ \A d \in Channel : d # c => control'[d] = control[d]
    BY <1>3 DEF AddControl, TypeOK
  <2>4. HasControl(c)' /\ \A d \in Channel : d # c => (HasControl(d)' <=> HasControl(d))
    BY <2>3, NoneAssumption DEF HasControl
  <2>5. QED
    BY <2>1, <2>2, <2>4 DEF Filed
<1>4. ASSUME NEW c \in Channel, NEW v \in Value, AddProgram(c, v) PROVE Filed'
  <2>1. Mark(c, "P") /\ UNCHANGED <<hasN, notes, offbits, control>>
    BY <1>4 DEF AddProgram, chapterN
  <2>2. /\ chan'[c] # 0 /\ created'[c] /\ flags'[c] = flags[c] \cup {"P"} /\ flags'[c] # {}
        /\ \A d \in Channel : d # c => /\ created'[d] = created[d] /\ chan'[d] = chan[d]
                                       /\ flags'[d] = flags[d]
    BY <2>1, MarkFiles
  <2>3. program'[c] # NONE /\ \A d \in Channel : d # c => program'[d] = program[d]
    BY <1>4, NoneAssumption DEF AddProgram, TypeOK
  <2>4. QED
    BY <2>1, <2>2, <2>3 DEF Filed, HasControl
<1>5. CASE Reset
  BY <1>5 DEF Reset, Filed, HasControl
<1>6. CASE UNCHANGED vars
  BY <1>6 DEF vars, Filed, HasControl
<1>7. QED
  BY <1>1, <1>2, <1>3, <1>4, <1>5, <1>6 DEF Next

\* Of at most 127 controllers no chapter C is too long.
LEMMA CountedOf == ASSUME TypeOK, Cardinality(Controller) <= 127 PROVE CountedInAByte
<1>1. IsFiniteSet(Controller) /\ Cardinality(Controller) \in Nat
  BY FewControllers, FS_CardinalityType
<1>2. ASSUME NEW c \in Channel PROVE Cardinality(Controls(c)) <= 127
  <2>1. Controls(c) \in SUBSET Controller
    BY DEF Controls
  <2>2. IsFiniteSet(Controls(c)) /\ Cardinality(Controls(c)) <= Cardinality(Controller)
    BY <1>1, <2>1, FS_Subset
  <2>3. Cardinality(Controls(c)) \in Nat
    BY <2>2, FS_CardinalityType
  <2>4. QED
    BY <1>1, <2>2, <2>3
<1>3. QED
  BY <1>2 DEF CountedInAByte

\* With every sequence number the journal can be read, unless a channel has logged all 128
\* controllers.
Readable == CountedInAByte /\ totchan > 0 => \A seq \in Uint16 : ReadsWith(seq)

\* Whatever was added, and with every sequence number, a receiver reads from what
\* journal_pack makes what was packed into it, as long as no channel has logged all 128
\* controllers.
THEOREM JournalReadable == Numberable /\ MaxNotes <= 127 => (Spec => []Readable)
<1> SUFFICES ASSUME Numberable, MaxNotes <= 127 PROVE Spec => []Readable
  OBVIOUS
<1>1. Init => Complete /\ Filed
  BY InitComplete, InitFiled
<1>2. JournalInv /\ Complete /\ Filed /\ [Next]_vars => JournalInv' /\ Complete' /\ Filed'
  BY StepJournal, StepComplete, StepFiled DEF JournalInv
<1>3. JournalInv /\ Complete /\ Filed => Readable
  BY JournalRead DEF JournalInv, Readable
<1>4. QED
  BY <1>1, <1>2, <1>3, InitJournal, PTL DEF Spec

\* With at most 127 controllers in use it can always be read.
THEOREM JournalReadsAsPacked ==
    Numberable /\ MaxNotes <= 127 /\ Cardinality(Controller) <= 127 => (Spec => []ReadsAsPacked)
<1> SUFFICES ASSUME Numberable, MaxNotes <= 127, Cardinality(Controller) <= 127
             PROVE  Spec => []ReadsAsPacked
  OBVIOUS
<1>1. 1 \in Uint16 /\ 65535 \in Uint16
  BY DEF Uint16
<1>2. TypeOK /\ Readable => ReadsAsPacked
  BY <1>1, CountedOf DEF Readable, ReadsAsPacked
<1>3. QED
  BY <1>2, JournalReadable, JournalTypeOK, PTL

\* A receiver finds 128 logs at octet i, each of controller 0 with value 0.
Blank(s, i) ==
    /\ (s[i] % 128) + 1 = 128
    /\ {<<s[i + 2 * j - 1] % 128, s[i + 2 * j]>> : j \in 1..128} = {<<0, 0>>}

\* That is what it finds where chapter C of a channel with 128 controllers begins.
Overflows == \A c \in Channel : Cardinality(Controls(c)) = 128 =>
                \A s : \A i \in Nat : Stands(s, i, ChapterC(c)) => Blank(s, i)

\* Of 128 controllers the size of chapter C is 257, and 1 in the uint8_t of chapter_c_pack:
\* after the header no log is written.
LEMMA AllControllers == ASSUME TypeOK PROVE Overflows
<1>1. SUFFICES ASSUME NEW c \in Channel, Cardinality(Controls(c)) = 128,
                      NEW s, NEW i \in Nat, Stands(s, i, ChapterC(c))
               PROVE  Blank(s, i)
  BY DEF Overflows
<1>2. PICK n \in Nat : n = 128
  OBVIOUS
<1>3. Len(Active(c)) = n
  <2>1. Controls(c) \subseteq Controller
    BY DEF Controls
  <2>2. PICK K : K = Controls(c) /\ K \subseteq Nat /\ IsFiniteSet(K)
    BY <2>1, FewControllers
  <2>3. Ascending(K) \in [1..n -> K]
    BY <1>1, <1>2, <2>2, AscendingOrder
  <2>4. Active(c) = Ascending(K)
    BY <2>2 DEF Active, Controls
  <2>5. QED
    BY <2>3, <2>4
<1>4. Copied(n) = 0 /\ n # 0 /\ 128 + ((n - 1) % 128) = 255
  BY <1>2 DEF Copied
<1>5. PICK q : q = [j \in 1..n |-> LogOctets(c, j)]
  OBVIOUS
<1>6. \A j \in 1..n : q[j] = <<0, 0>>
  BY <1>3, <1>4, <1>5 DEF LogOctets
<1>7. q \in [1..n -> Int \X Int]
  <2>1. \A j \in 1..n : q[j] \in Int \X Int
    BY <1>6
  <2>2. QED
    BY <1>5, <2>1
<1>8. PICK h, p : h = <<255>> /\ p = Pairs(q)
  OBVIOUS
<1>9. ChapterC(c) = h \o p
  BY <1>3, <1>4, <1>5, <1>8 DEF ChapterC
<1>10. Sized(h, 1) /\ h[1] = 255
  BY <1>8 DEF Sized
<1>11. Sized(p, 2 * n) /\ \A j \in 1..n : p[2 * j - 1] = 0 /\ p[2 * j] = 0
  <2>1. /\ Sized(Pairs(q), 2 * n)
        /\ \A j \in 1..n : Pairs(q)[2 * j - 1] = q[j][1] /\ Pairs(q)[2 * j] = q[j][2]
    BY <1>7, PairsOctets
  <2>2. \A j \in 1..n : q[j][1] = 0 /\ q[j][2] = 0
    BY <1>6
  <2>3. QED
    BY <1>8, <2>1, <2>2
<1>12. Stands(s, i, h) /\ Stands(s, i + 1, p)
  <2>1. Stands(s, i, h \o p)
    BY <1>1, <1>9
  <2>2. \A r : \A k \in Nat : Stands(r, k, h \o p) => Stands(r, k, h) /\ Stands(r, k + 1, p)
    <3>1. Sized(h, 1)
      BY <1>10
    <3>2. Sized(p, 2 * n)
      BY <1>11
    <3>3. QED
      BY <3>1, <3>2, Joined
  <2>3. QED
    BY <2>1, <2>2
<1>13. s[i + (1 - 1)] = 255
  BY <1>10, <1>12, OctetOf
<1>14. ASSUME NEW j \in 1..n PROVE s[i + 2 * j - 1] = 0 /\ s[i + 2 * j] = 0
  <2>1. 2 * j - 1 \in 1..(2 * n) /\ 2 * j \in 1..(2 * n) /\ i + 1 \in Nat
    OBVIOUS
  <2>2. s[(i + 1) + ((2 * j - 1) - 1)] = p[2 * j - 1] /\ s[(i + 1) + (2 * j - 1)] = p[2 * j]
    BY <1>11, <1>12, <2>1, OctetOf
  <2>3. (i + 1) + ((2 * j - 1) - 1) = i + 2 * j - 1 /\ (i + 1) + (2 * j - 1) = i + 2 * j
    OBVIOUS
  <2>4. QED
    BY <1>11, <2>2, <2>3
<1>15. (s[i] % 128) + 1 = 128
  <2>1. s[i] = 255
    BY <1>13
  <2>2. (255 % 128) + 1 = 128
    OBVIOUS
  <2>3. QED
    BY <2>1, <2>2
<1>16. {<<s[i + 2 * j - 1] % 128, s[i + 2 * j]>> : j \in 1..n} = {<<0, 0>>}
  <2>1. ASSUME NEW j \in 1..n PROVE <<s[i + 2 * j - 1] % 128, s[i + 2 * j]>> = <<0, 0>>
    BY <1>14
  <2>2. 1 \in 1..n
    BY <1>2
  <2>3. QED
    BY <2>1, <2>2
<1>17. QED
  BY <1>2, <1>15, <1>16 DEF Blank

\* The bound of JournalReadable is exact: when a channel has logged all 128 controllers,
\* nothing of them can be read from the chapter C that is packed for it.
THEOREM JournalControllersLost == Spec => []Overflows
<1>1. TypeOK => Overflows
  BY AllControllers
<1>2. QED
  BY <1>1, JournalTypeOK, PTL

=============================================================================
