------------------------------ MODULE Journal -------------------------------
(***************************************************************************)
(* midi_journal.c with chapter_n.c, chapter_c.c and chapter_p.c: the       *)
(* recovery journal of one connection.  The sender adds note, control and  *)
(* program events to it, packs it into every RTP packet, and empties it    *)
(* when the peer has acknowledged what was sent.                           *)
(*                                                                         *)
(* Every operation runs under ctx->lock (net_ctx_add_journal_*,            *)
(* net_ctx_journal_pack, net_ctx_journal_reset).  Allocation does not      *)
(* fail.  What is packed is said here as a value; JournalLayout has its    *)
(* octets.                                                                 *)
(***************************************************************************)
EXTENDS Integers, Sequences, FiniteSets

CONSTANTS Channel,     \* the MIDI channels used, of 0..15
          Note,        \* the notes used, of 0..127
          Controller,  \* the controllers used, of 0..127
          Value,       \* velocities, controller values and programs
          NONE,        \* no value
          MaxNotes,    \* MAX_CHAPTER_N_NOTES
          MaxEvents    \* bound on the events between two resets

ASSUME ChannelAssumption == Channel \subseteq 0..15
ASSUME NoteAssumption == Note \subseteq 0..127
ASSUME ControllerAssumption == Controller \subseteq 0..127
ASSUME NoneAssumption == NONE \notin Value
ASSUME BoundsAssumption == MaxNotes \in Nat /\ MaxEvents \in Nat

VARIABLES
    created,   \* channels[c] is allocated
    chan,      \* channels[c]->header->chan, a field of 4 bits
    flags,     \* the chapters named in channels[c]->header->bitfield
    totchan,   \* header->totchan, a uint8_t
    program,   \* chapter_p->program, NONE until the chapter is created
    control,   \* chapter_c: the value logged for each controller
    hasN,      \* chapter_n is allocated
    notes,     \* chapter_n->notes, pairs of note and velocity
    offbits,   \* chapter_n->offbits, pairs of byte and bit
    low, high, \* chapter_n->header->low and high
    log        \* history: the events added since the last reset

channelVars == <<created, chan, flags, totchan>>
chapterN    == <<hasN, notes, offbits, low, high>>
vars == <<created, chan, flags, totchan, program, control, hasN, notes, offbits,
          low, high, log>>

Event == [kind : {"on", "off", "control", "program"}, channel : Channel,
          number : Note \cup Controller \cup {NONE}, value : Value \cup {NONE}]

\* journal_init, and the values channel_create and chapter_*_create will give.
Init ==
    /\ created = [c \in Channel |-> FALSE]
    /\ chan = [c \in Channel |-> 0]
    /\ flags = [c \in Channel |-> {}]
    /\ totchan = 0
    /\ program = [c \in Channel |-> NONE]
    /\ control = [c \in Channel |-> [k \in Controller |-> NONE]]
    /\ hasN = [c \in Channel |-> FALSE]
    /\ notes = [c \in Channel |-> <<>>]
    /\ offbits = [c \in Channel |-> {}]
    /\ low = [c \in Channel |-> 15]
    /\ high = [c \in Channel |-> 0]
    /\ log = <<>>

-----------------------------------------------------------------------------
\* What adding an event does to the headers: the chapter is flagged and the
\* channel counted unless it carries its number.  c + 1 does not fit in chan
\* when c = 15.
Mark(c, chapter) ==
    /\ created' = [created EXCEPT ![c] = TRUE]
    /\ flags' = [flags EXCEPT ![c] = @ \cup {chapter}]
    /\ chan' = [chan EXCEPT ![c] = (c + 1) % 16]
    /\ totchan' = IF chan[c] # c + 1 THEN (totchan + 1) % 256 ELSE totchan

Record(kind, c, n, v) ==
    /\ Len(log) < MaxEvents
    /\ log' = Append(log, [kind |-> kind, channel |-> c, number |-> n, value |-> v])

\* midi_journal_add_note with NOTE ON: the list of notes may be full.  The slip
\* writes past its end.
AddNoteOnUncapped(c, n, v) ==
    /\ Record("on", c, n, v)
    /\ Mark(c, "N")
    /\ hasN' = [hasN EXCEPT ![c] = TRUE]
    /\ notes' = [notes EXCEPT ![c] = Append(@, <<n, v>>)]
    /\ UNCHANGED <<offbits, low, high, program, control>>

AddNoteOn(c, n, v) ==
    /\ Record("on", c, n, v)
    /\ Mark(c, "N")
    /\ hasN' = [hasN EXCEPT ![c] = TRUE]
    /\ notes' = IF Len(notes[c]) = MaxNotes THEN notes
                ELSE [notes EXCEPT ![c] = Append(@, <<n, v>>)]
    /\ UNCHANGED <<offbits, low, high, program, control>>

\* 1 << shift stored in a byte, with shift = n % 8 - 1 in a uint8_t: for a
\* multiple of 8 the shift is by 255, undefined; on x86 and ARM, which take it
\* modulo 32 or give 0, no bit of the byte is set.
OffBit(n) == IF n % 8 = 0 THEN {} ELSE {<<n \div 8, (n % 8) - 1>>}

MinOf(a, b) == IF a < b THEN a ELSE b
MaxOf(a, b) == IF a > b THEN a ELSE b

\* midi_journal_add_note with NOTE OFF.  The slip moves the upper bound only.
AddNoteOffHigh(c, n) ==
    /\ Record("off", c, n, NONE)
    /\ Mark(c, "N")
    /\ hasN' = [hasN EXCEPT ![c] = TRUE]
    /\ high' = [high EXCEPT ![c] = MaxOf(n \div 8, @)]
    /\ offbits' = [offbits EXCEPT ![c] = @ \cup OffBit(n)]
    /\ UNCHANGED <<notes, low, program, control>>

AddNoteOff(c, n) ==
    /\ Record("off", c, n, NONE)
    /\ Mark(c, "N")
    /\ hasN' = [hasN EXCEPT ![c] = TRUE]
    /\ high' = [high EXCEPT ![c] = MaxOf(n \div 8, @)]
    /\ low' = [low EXCEPT ![c] = MinOf(n \div 8, @)]
    /\ offbits' = [offbits EXCEPT ![c] = @ \cup OffBit(n)]
    /\ UNCHANGED <<notes, program, control>>

\* midi_journal_add_control
AddControl(c, k, v) ==
    /\ Record("control", c, k, v)
    /\ Mark(c, "C")
    /\ control' = [control EXCEPT ![c][k] = v]
    /\ UNCHANGED <<chapterN, program>>

\* midi_journal_add_program
AddProgram(c, v) ==
    /\ Record("program", c, NONE, v)
    /\ Mark(c, "P")
    /\ program' = [program EXCEPT ![c] = v]
    /\ UNCHANGED <<chapterN, control>>

\* journal_reset: chapters N and C and the headers of every channel that was
\* created; chapter P stays as it is.  The slip keeps the controllers.
ResetKeepsControl ==
    /\ chan' = [c \in Channel |-> 0]
    /\ flags' = [c \in Channel |-> {}]
    /\ totchan' = 0
    /\ notes' = [c \in Channel |-> <<>>]
    /\ offbits' = [c \in Channel |-> {}]
    /\ low' = [c \in Channel |-> IF hasN[c] THEN 0 ELSE low[c]]
    /\ high' = [c \in Channel |-> IF hasN[c] THEN 0 ELSE high[c]]
    /\ log' = <<>>
    /\ UNCHANGED <<created, hasN, program, control>>

Reset ==
    /\ control' = [c \in Channel |-> [k \in Controller |-> NONE]]
    /\ chan' = [c \in Channel |-> 0]
    /\ flags' = [c \in Channel |-> {}]
    /\ totchan' = 0
    /\ notes' = [c \in Channel |-> <<>>]
    /\ offbits' = [c \in Channel |-> {}]
    /\ low' = [c \in Channel |-> IF hasN[c] THEN 0 ELSE low[c]]
    /\ high' = [c \in Channel |-> IF hasN[c] THEN 0 ELSE high[c]]
    /\ log' = <<>>
    /\ UNCHANGED <<created, hasN, program>>

Next ==
    \/ \E c \in Channel, n \in Note, v \in Value : AddNoteOn(c, n, v)
    \/ \E c \in Channel, n \in Note : AddNoteOff(c, n)
    \/ \E c \in Channel, k \in Controller, v \in Value : AddControl(c, k, v)
    \/ \E c \in Channel, v \in Value : AddProgram(c, v)
    \/ Reset

Spec == Init /\ [][Next]_vars

-----------------------------------------------------------------------------
\* journal_pack.

\* chapter_c_pack has nothing to pack without a controller.
HasControl(c) == \E k \in Controller : control[c][k] # NONE

\* chapter_n_pack copies the bytes of offbits from low to high.
PackedOffBits(c) == {b \in offbits[c] : b[1] \in low[c]..high[c]}

\* channel_pack: the header with the chapters it names, and what the chapters that
\* follow it say.
PackChannel(c) ==
    [number  |-> IF chan[c] = 0 THEN 0 ELSE chan[c] - 1,
     flags   |-> flags[c],
     program |-> program[c],
     control |-> control[c],
     notes   |-> notes[c],
     offbits |-> PackedOffBits(c)]

\* Nothing when journal_has_data is false, else one entry for every channel that
\* was ever created.
Packed == IF totchan > 0 THEN {PackChannel(c) : c \in {d \in Channel : created[d]}} ELSE {}

-----------------------------------------------------------------------------
\* header->high and low, of 4 bits, hold a byte number; totchan fits in a byte.
TypeOK ==
    /\ created \in [Channel -> BOOLEAN]
    /\ chan \in [Channel -> 0..15]
    /\ flags \in [Channel -> SUBSET {"P", "C", "N"}]
    /\ totchan \in 0..255
    /\ program \in [Channel -> Value \cup {NONE}]
    /\ control \in [Channel -> [Controller -> Value \cup {NONE}]]
    /\ hasN \in [Channel -> BOOLEAN]
    /\ notes \in [Channel -> Seq(Note \X Value)]
    /\ \A c \in Channel : Len(notes[c]) <= MaxNotes
    /\ offbits \in [Channel -> SUBSET ((0..15) \X (0..7))]
    /\ low \in [Channel -> 0..15]
    /\ high \in [Channel -> 0..15]
    /\ log \in Seq(Event)

\* The events since the last reset, and the last value among those of a kind.
Logged == {log[i] : i \in 1..Len(log)}
LatestOf(kind, c, n) ==
    LET at == {i \in 1..Len(log) : log[i].kind = kind /\ log[i].channel = c /\ log[i].number = n}
    IN  IF at = {} THEN NONE
        ELSE log[CHOOSE i \in at : \A j \in at : j <= i].value

\* An entry of the packed journal from which the event can be recovered: under
\* its channel, in a chapter the header names.  A note played when the list is
\* full is not in it.
Recovers(e, ev) ==
    /\ e.number = ev.channel
    /\ CASE ev.kind = "on"      -> /\ "N" \in e.flags
                                   /\ \/ \E i \in 1..Len(e.notes) : e.notes[i] = <<ev.number, ev.value>>
                                      \/ Len(e.notes) = MaxNotes
         [] ev.kind = "off"     -> "N" \in e.flags /\ \E b \in e.offbits : OffBit(ev.number) = {b}
         [] ev.kind = "control" -> /\ "C" \in e.flags
                                   /\ e.control[ev.number] = LatestOf("control", ev.channel, ev.number)
         [] OTHER               -> /\ "P" \in e.flags
                                   /\ e.program = LatestOf("program", ev.channel, NONE)

\* Every event added since the last reset can be recovered from what is packed
\* into the next packet: "raveloxmidi will add the note and control change
\* events to the journal" (README).
EventsInJournal == \A ev \in Logged : \E e \in Packed : Recovers(e, ev)

\* What an entry says in the chapters it names is the latest state and nothing
\* from before the last reset, and there is a journal only when there is
\* something to recover: events the peer has acknowledged are not replayed.
NothingStale ==
    /\ log = <<>> => Packed = {}
    /\ \A c \in Channel :
         /\ "P" \in flags[c] => program[c] = LatestOf("program", c, NONE)
         /\ \A k \in Controller : control[c][k] = LatestOf("control", c, k)
         /\ \A i \in 1..Len(notes[c]) : \E ev \in Logged :
               ev.kind = "on" /\ ev.channel = c /\ <<ev.number, ev.value>> = notes[c][i]
         /\ \A b \in offbits[c] : \E ev \in Logged :
               ev.kind = "off" /\ ev.channel = c /\ b \in OffBit(ev.number)
=============================================================================
