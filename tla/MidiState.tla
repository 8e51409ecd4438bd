----------------------------- MODULE MidiState ------------------------------
(***************************************************************************)
(* midi_state.c: the parser that cuts the bytes of a local socket or ALSA  *)
(* device (simple mode), or of the MIDI list in the RTP packets of one     *)
(* connection (RTP mode), into MIDI commands for midi_sender_add.          *)
(*                                                                         *)
(* The parser is fed by an encoder that sends well-formed MIDI: whole      *)
(* messages, some of them under running status, system exclusives in       *)
(* segments, and in simple mode cut into packets at any byte and with      *)
(* real-time bytes between any two others.  What the parser hands on must  *)
(* be what was sent.                                                       *)
(*                                                                         *)
(* The ring is the FIFO of module ByteFifo; net_socket_read holds the lock *)
(* of the socket from midi_state_write to the end of midi_state_send, so   *)
(* the encoder stands still while the parser runs.  current_delta, which   *)
(* is only printed, is left out; allocation does not fail.                 *)
(***************************************************************************)
EXTENDS Integers, Sequences, SequencesExt

CONSTANTS Modes,     \* the modes of midi_state_send that parsers may be run in
          Message,   \* the messages sent, each a sequence of bytes
          RealTimeByte, \* the real-time bytes sent inside other messages
          Delta,     \* delta times, each a sequence of bytes
          Capacity,  \* for each mode, the size of the ring
          MaxSent    \* and a bound on the messages sent in the life of a connection

ASSUME ModesAssumption == Modes \subseteq {"SIMPLE", "RTP"}
ASSUME BoundsAssumption == Capacity \in [Modes -> Nat] /\ MaxSent \in [Modes -> Nat]
ASSUME RealTimeAssumption == RealTimeByte \subseteq 248..255
ASSUME DeltaAssumption == \A d \in Delta :
    /\ d \in Seq(0..255) /\ d # <<>> /\ Last(d) < 128
    /\ \A i \in 1..(Len(d) - 1) : d[i] >= 128

VARIABLES
    mode,           \* the mode this parser is always called in
    status,         \* state->status
    running_status, \* state->running_status, 0 for none
    hold,           \* state->hold
    partial_sysex,  \* state->partial_sysex
    ring,           \* the unread bytes of state->ring
    sending,        \* whether midi_state_send is running
    get_delta,      \* its local variable
    emitted,        \* history: the commands passed to midi_sender_add
    packet,         \* encoder: the packet being filled
    z,              \* encoder: the Z flag of the packet
    rest,           \* encoder: what is left of the message being sent
    open,           \* encoder: the message being sent
    encRunning,     \* encoder: its running status, 0 for none
    encPartial,     \* encoder: a system exclusive is to be continued
    sent            \* history: the messages in the order they were completed

parserVars  == <<mode, status, running_status, hold, partial_sysex>>
encoderVars == <<mode, packet, z, rest, open, encRunning, encPartial, sent>>
vars == <<mode, status, running_status, hold, partial_sysex, ring, sending, get_delta,
          emitted, packet, z, rest, open, encRunning, encPartial, sent>>

Status == {"INIT", "WAIT_DELTA", "WAIT_COMMAND", "WAIT_BYTE_1", "WAIT_BYTE_2",
           "WAIT_END_SYSEX"}

IsData(b)    == b < 128
IsChannel(b) == 128 <= b /\ b < 240
IsRealTime(b) == b >= 248

\* midi_command_bytes_needed: the data bytes of the entry found in the map.
BytesNeeded(b) ==
    CASE b \div 16 \in {8, 9, 10, 11, 14} -> 2
      [] b \div 16 \in {12, 13}           -> 1
      [] b = 242                          -> 2
      [] b \in {241, 243}                 -> 1
      [] OTHER                            -> 0

\* What is sent is well-formed: a channel message has its data, a segment of a
\* system exclusive begins and ends as one, all else is a single byte.  F1 to F3,
\* whose data the parser does not wait for, and an F7 alone are left out.
WellFormed(m) ==
    /\ m \in Seq(0..255) /\ m # <<>>
    /\ \/ /\ IsChannel(m[1]) /\ Len(m) = 1 + BytesNeeded(m[1])
          /\ \A i \in 2..Len(m) : IsData(m[i])
       \/ /\ m[1] \in {240, 247} /\ Len(m) > 1
          /\ \A i \in 2..(Len(m) - 1) : IsData(m[i])
          /\ Last(m) \in {240, 247} \/ (m[1] = 247 /\ Last(m) = 244)
       \/ Len(m) = 1 /\ (m[1] \in 244..246 \/ IsRealTime(m[1]))

ASSUME MessageAssumption == \A m \in Message : WellFormed(m)

\* midi_state_create, for a local socket or device (simple mode) or for a
\* connection (RTP mode), without traffic.
Init ==
    /\ mode \in Modes
    /\ status = "INIT"
    /\ running_status = 0
    /\ hold = <<>>
    /\ partial_sysex = FALSE
    /\ ring = <<>>
    /\ sending = FALSE
    /\ get_delta = FALSE
    /\ emitted = <<>>
    /\ packet = <<>>
    /\ z = FALSE
    /\ rest = <<>>
    /\ open = <<>>
    /\ encRunning = 0
    /\ encPartial = FALSE
    /\ sent = <<>>

-----------------------------------------------------------------------------
\* The encoder.

\* Segments of a system exclusive: F0..F7 or F0..F0 starts one, F7.. continues
\* one that ended in F0, to its end in F7, its cancellation in F4 or another F0.
Starts(m)    == m[1] # 247
Continues(m) == m[1] = 247 /\ Len(m) > 1
Fits(m) == IF encPartial THEN Continues(m) ELSE ~ Continues(m)

\* The running status and pending segment a message leaves.
RunningAfter(m) == IF IsChannel(m[1]) THEN m[1]
                   ELSE IF IsRealTime(m[1]) THEN encRunning ELSE 0
PartialAfter(m) == IF m[1] \in {240, 247} /\ Len(m) > 1 THEN Last(m) = 240
                   ELSE encPartial

\* A message starts, in full or without the status byte that is running; in an
\* RTP packet it follows a delta time, which only the first may go without.
Begin(m, d, short) ==
    /\ ~ sending
    /\ rest = <<>>
    /\ Len(sent) < MaxSent[mode]
    /\ Fits(m)
    /\ short => IsChannel(m[1]) /\ m[1] = encRunning
    /\ d = <<>> <=> (mode = "SIMPLE" \/ (packet = <<>> /\ ~ z))
    /\ open' = m
    /\ rest' = d \o (IF short THEN Tail(m) ELSE m)
    /\ Len(packet) + Len(rest') <= Capacity[mode]
    /\ encRunning' = RunningAfter(m)
    /\ encPartial' = PartialAfter(m)
    /\ UNCHANGED <<parserVars, ring, sending, get_delta, emitted, packet, z, sent>>

ChooseZ ==
    /\ mode = "RTP"
    /\ ~ sending
    /\ packet = <<>> /\ rest = <<>> /\ ~ z
    /\ z' = TRUE
    /\ UNCHANGED <<parserVars, ring, sending, get_delta, emitted, packet, rest, open,
                   encRunning, encPartial, sent>>

PutByte ==
    /\ ~ sending
    /\ rest # <<>>
    /\ Len(packet) < Capacity[mode]
    /\ packet' = Append(packet, Head(rest))
    /\ rest' = Tail(rest)
    /\ IF Len(rest) = 1 THEN sent' = Append(sent, open) /\ open' = <<>>
                        ELSE UNCHANGED <<sent, open>>
    /\ UNCHANGED <<parserVars, ring, sending, get_delta, emitted, z,
                   encRunning, encPartial>>

PutRealTime(b) ==
    /\ mode = "SIMPLE"
    /\ ~ sending
    /\ Len(packet) < Capacity[mode]
    /\ Len(sent) < MaxSent[mode]
    /\ packet' = Append(packet, b)
    /\ sent' = Append(sent, <<b>>)
    /\ UNCHANGED <<parserVars, ring, sending, get_delta, emitted, z, rest, open,
                   encRunning, encPartial>>

\* A device opened in the middle of a message: data bytes without a status.
PutStray ==
    /\ mode = "SIMPLE"
    /\ ~ sending
    /\ sent = <<>> /\ open = <<>>
    /\ Len(packet) < Capacity[mode]
    /\ packet' = Append(packet, 1)
    /\ UNCHANGED <<parserVars, ring, sending, get_delta, emitted, z, rest, open,
                   encRunning, encPartial, sent>>

-----------------------------------------------------------------------------
\* net_socket_read: midi_state_write, which drops what does not fit, and the
\* call of midi_state_send.  An RTP packet holds whole messages.
Deliver ==
    /\ ~ sending
    /\ packet # <<>>
    /\ mode = "RTP" => rest = <<>>
    /\ ring' = IF Len(ring) + Len(packet) <= Capacity[mode] THEN ring \o packet ELSE ring
    /\ sending' = TRUE
    /\ get_delta' = z
    /\ packet' = <<>>
    /\ z' = FALSE
    /\ UNCHANGED <<parserVars, emitted, rest, open, encRunning, encPartial, sent>>

\* net_ctx_reset when a connection ends: midi_state_reset, which leaves
\* partial_sysex as it is.  The next peer in the slot starts afresh.
Reset ==
    /\ mode = "RTP"
    /\ ~ sending
    /\ status' = "INIT"
    /\ running_status' = 0
    /\ hold' = <<>>
    /\ ring' = <<>>
    /\ emitted' = <<>>
    /\ packet' = <<>>
    /\ z' = FALSE
    /\ rest' = <<>>
    /\ open' = <<>>
    /\ encRunning' = 0
    /\ encPartial' = FALSE
    /\ sent' = <<>>
    /\ UNCHANGED <<mode, partial_sysex, sending, get_delta>>

-----------------------------------------------------------------------------
\* midi_state_send: one action for each way round the loop.

\* The status the byte is read in.
Entry == IF status # "INIT" THEN status
         ELSE IF get_delta THEN "WAIT_DELTA" ELSE "WAIT_COMMAND"

\* Takes the byte b in a status of the set from.
Read(from, b) ==
    /\ sending
    /\ ring # <<>>
    /\ b = Head(ring)
    /\ Entry \in from
    /\ ring' = Tail(ring)
    /\ UNCHANGED <<sending, encoderVars>>

\* The part after midi_state_send_end: wait for more, or hand on what is held.
Wait(next, held) ==
    /\ status' = next
    /\ hold' = held
    /\ UNCHANGED <<get_delta, emitted>>

\* The slip does not put the status back.
ReceivedStuck(held) ==
    /\ status' = "COMMAND_RECEIVED"
    /\ hold' = <<>>
    /\ get_delta' = (get_delta \/ mode = "RTP")
    /\ emitted' = Append(emitted, held)

Received(held) ==
    /\ status' = "INIT"
    /\ hold' = <<>>
    /\ get_delta' = (get_delta \/ mode = "RTP")
    /\ emitted' = Append(emitted, held)

\* What a status byte that takes n data bytes leads to.
AfterStatus(n, held) ==
    CASE n = 1 -> Wait("WAIT_BYTE_1", held)
      [] n = 2 -> Wait("WAIT_BYTE_2", held)
      [] OTHER -> Received(held)

ReadDelta(b) ==
    /\ Read({"WAIT_DELTA"}, b)
    /\ Wait(IF IsData(b) THEN "WAIT_COMMAND" ELSE "WAIT_DELTA", hold)
    /\ UNCHANGED <<running_status, partial_sysex>>

NotDelta == Status \ {"INIT", "WAIT_DELTA"}

\* A real-time message is handed on at once.  The slip treats it like any other
\* status byte and drops what is held.
RealTimeResets(b) ==
    /\ IsRealTime(b)
    /\ Read(NotDelta, b)
    /\ Received(<<b>>)
    /\ running_status' = b
    /\ UNCHANGED partial_sysex

RealTime(b) ==
    /\ IsRealTime(b)
    /\ Read(NotDelta, b)
    /\ status' = Entry
    /\ emitted' = Append(emitted, <<b>>)
    /\ UNCHANGED <<get_delta, hold, running_status, partial_sysex>>

IgnoreData(b) ==
    /\ IsData(b)
    /\ running_status = 0
    /\ Read({"WAIT_COMMAND"}, b)
    /\ Wait("WAIT_COMMAND", hold)
    /\ UNCHANGED <<running_status, partial_sysex>>

\* A data byte under running status.
RunningData(b) ==
    /\ IsData(b)
    /\ running_status # 0
    /\ Read({"WAIT_COMMAND"}, b)
    /\ LET held == hold \o <<running_status, b>>
       IN  CASE BytesNeeded(running_status) = 1 -> Received(held)
             [] BytesNeeded(running_status) = 2 -> Wait("WAIT_BYTE_1", held)
             [] OTHER                           -> Wait("WAIT_COMMAND", held)
    /\ UNCHANGED <<running_status, partial_sysex>>

\* F0, or F7 when a segment is pending.
SysExStart(b) ==
    /\ b = 240 \/ (b = 247 /\ partial_sysex)
    /\ Read({"WAIT_COMMAND"}, b)
    /\ Wait("WAIT_END_SYSEX", Append(hold, b))
    /\ running_status' = 0
    /\ UNCHANGED partial_sysex

\* Every other status byte.  The branch on MIDI_END_SYSEX, an enumerator whose
\* value is 13, is never taken.
StatusByte(b) ==
    /\ ~ IsData(b) /\ ~ IsRealTime(b)
    /\ b # 240 /\ ~ (b = 247 /\ partial_sysex)
    /\ Read({"WAIT_COMMAND"}, b)
    /\ AfterStatus(BytesNeeded((b \div 16) * 16), Append(hold, b))
    /\ running_status' = b
    /\ UNCHANGED partial_sysex

DataByte2(b) ==
    /\ ~ IsRealTime(b)
    /\ Read({"WAIT_BYTE_2"}, b)
    /\ Wait("WAIT_BYTE_1", Append(hold, b))
    /\ UNCHANGED <<running_status, partial_sysex>>

DataByte1(b) ==
    /\ ~ IsRealTime(b)
    /\ Read({"WAIT_BYTE_1"}, b)
    /\ Received(Append(hold, b))
    /\ UNCHANGED <<running_status, partial_sysex>>

\* The slip forgets that a segment which ends in F0 is to be continued.
SysExByteForgets(b) ==
    /\ ~ IsRealTime(b)
    /\ Read({"WAIT_END_SYSEX"}, b)
    /\ IF b \in {240, 247} \/ (partial_sysex /\ b = 244)
       THEN Received(Append(hold, b))
       ELSE Wait("WAIT_END_SYSEX", Append(hold, b))
    /\ running_status' = 0
    /\ partial_sysex' = FALSE

SysExByte(b) ==
    /\ ~ IsRealTime(b)
    /\ Read({"WAIT_END_SYSEX"}, b)
    /\ LET ends == b = 247 \/ (partial_sysex /\ b = 244)
       IN  /\ IF ends \/ b = 240
              THEN Received(Append(hold, b))
              ELSE Wait("WAIT_END_SYSEX", Append(hold, b))
           /\ partial_sysex' = (b = 240 \/ (partial_sysex /\ ~ ends))
    /\ running_status' = 0

\* No bytes left.  The slip starts over in either mode.
ReturnRestarts ==
    /\ sending
    /\ ring = <<>>
    /\ sending' = FALSE
    /\ status' = "INIT"
    /\ UNCHANGED <<ring, hold, running_status, partial_sysex, get_delta, emitted,
                   encoderVars>>

Return ==
    /\ sending
    /\ ring = <<>>
    /\ sending' = FALSE
    /\ status' = IF mode = "RTP" THEN "INIT" ELSE status
    /\ UNCHANGED <<ring, hold, running_status, partial_sysex, get_delta, emitted,
                   encoderVars>>

-----------------------------------------------------------------------------
ReadByte(b) ==
    \/ ReadDelta(b)
    \/ RealTime(b)
    \/ IgnoreData(b)
    \/ RunningData(b)
    \/ SysExStart(b)
    \/ StatusByte(b)
    \/ DataByte2(b)
    \/ DataByte1(b)
    \/ SysExByte(b)

Next ==
    \/ \E m \in Message, d \in Delta \cup {<<>>}, short \in BOOLEAN : Begin(m, d, short)
    \/ ChooseZ
    \/ PutByte
    \/ \E b \in RealTimeByte : PutRealTime(b)
    \/ PutStray
    \/ Deliver
    \/ Reset
    \/ \E b \in Range(ring) : ReadByte(b)
    \/ Return

Spec == Init /\ [][Next]_vars

-----------------------------------------------------------------------------
TypeOK ==
    /\ mode \in Modes
    /\ status \in Status
    /\ running_status \in 0..255
    /\ hold \in Seq(0..255)
    /\ partial_sysex \in BOOLEAN
    /\ ring \in Seq(0..255) /\ Len(ring) <= Capacity[mode]
    /\ sending \in BOOLEAN
    /\ get_delta \in BOOLEAN
    /\ emitted \in Seq(Seq(0..255))
    /\ packet \in Seq(0..255)
    /\ z \in BOOLEAN
    /\ rest \in Seq(0..255)
    /\ open \in Seq(0..255)
    /\ encRunning \in 0..255
    /\ encPartial \in BOOLEAN
    /\ sent \in Seq(Seq(0..255))

\* The commands handed to midi_sender_add are the messages that were sent, each
\* with its own status byte and all its data, in the order they were completed,
\* wherever the packets were cut, whichever status bytes were left out and
\* whatever real-time bytes came in between.
EmittedInOrder == IsPrefix(emitted, sent)

\* Nothing is withheld: when midi_state_send has returned, every message that
\* was delivered whole has been handed on.
NothingWithheld == ~ sending /\ packet = <<>> => emitted = sent

\* What has been delivered of the message that is being sent.
OpenPart == SubSeq(open, 1, Len(open) - Len(rest))

\* Between two packets the parser remembers exactly what the stream implies: the
\* part it has of the open message under its status byte, and the pending
\* segment of a system exclusive.  hold is empty between messages, so nothing of
\* one message is ever put in front of the next.  (Of a message under running
\* status nothing is held until its first data byte.)  It is about the parsers
\* of local sockets and devices: that of a connection starts every packet anew,
\* and keeps partial_sysex when it is reset.
InStep ==
    mode = "SIMPLE" /\ ~ sending /\ packet = <<>> =>
        /\ hold = OpenPart \/ (hold = <<>> /\ OpenPart = <<running_status>>)
        /\ open = <<>> => partial_sysex = encPartial
        /\ open = <<>> /\ encRunning # 0 => running_status = encRunning
=============================================================================
