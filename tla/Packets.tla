------------------------------ MODULE Packets -------------------------------
(***************************************************************************)
(* What raveloxmidi puts on the wire and how it reads it: the integers of  *)
(* utils.c, the AppleMIDI session packets (net_applemidi.c), the header of *)
(* an RTP packet (rtp_packet.c) and that of the MIDI list in it            *)
(* (midi_payload.c, and midi_sender.c, which builds both in place).        *)
(*                                                                         *)
(* A packet is the sequence of its octets.  A uint32_t is the pair of its  *)
(* halves and a uint64_t the pair of its words, the high one first, so     *)
(* that every integer has its width.  Reading past the end of a packet is  *)
(* left undefined, as it is in the code; allocation does not fail.         *)
(***************************************************************************)
EXTENDS Integers, Sequences

Octet  == 0..255
Uint16 == 0..65535
Uint32 == Uint16 \X Uint16
Uint64 == Uint32 \X Uint32

-----------------------------------------------------------------------------
\* utils.c: network byte order.
Put16(v) == <<v \div 256, v % 256>>
Put32(w) == Put16(w[1]) \o Put16(w[2])
Put64(t) == Put32(t[1]) \o Put32(t[2])

\* Read at the i-th octet of the packet s.
Get16(s, i) == s[i] * 256 + s[i + 1]
Get32(s, i) == <<Get16(s, i), Get16(s, i + 2)>>
Get64(s, i) == <<Get32(s, i), Get32(s, i + 4)>>

-----------------------------------------------------------------------------
\* net_applemidi.h: the commands are pairs of letters.
Signature == 65535
INV       == 18766   \* "IN"
SYNC      == 17227   \* "CK"
ACCEPT    == 20299   \* "OK"
REJECT    == 20047   \* "NO"
END       == 16985   \* "BY"
FEEDBACK  == 21075   \* "RS"
BITRATE   == 21068   \* "RL"

\* The four commands whose data is a net_applemidi_inv.
Exchange == {INV, ACCEPT, REJECT, END}

\* A name is a C string with its NUL, or absent.
NULL     == <<>>
CString  == {s \in Seq(Octet) : /\ s # <<>> /\ s[Len(s)] = 0
                                /\ \A i \in 1..(Len(s) - 1) : s[i] # 0}

ExchangePacket == [command : Exchange, version : Uint32, initiator : Uint32,
                   ssrc : Uint32, name : CString \cup {NULL}]
FeedbackPacket == [command : {FEEDBACK}, ssrc : Uint32, apple_seq : Uint32]
BitratePacket  == [command : {BITRATE}, ssrc : Uint32, limit : Uint32]
SyncPacket     == [command : {SYNC}, ssrc : Uint32, count : Octet,
                   padding : Octet \X Octet \X Octet, timestamp1 : Uint64,
                   timestamp2 : Uint64, timestamp3 : Uint64]
SessionPacket  == ExchangePacket \cup FeedbackPacket \cup BitratePacket \cup SyncPacket

\* net_applemidi_pack
NetApplemidiPack(c) ==
    Put16(Signature) \o Put16(c.command) \o
        CASE c.command \in Exchange -> Put32(c.version) \o Put32(c.initiator) \o
                                       Put32(c.ssrc) \o c.name
          [] c.command = FEEDBACK   -> Put32(c.ssrc) \o Put32(c.apple_seq)
          [] c.command = BITRATE    -> Put32(c.ssrc) \o Put32(c.limit)
          [] c.command = SYNC       -> Put32(c.ssrc) \o <<c.count>> \o c.padding \o
                                       Put64(c.timestamp1) \o Put64(c.timestamp2) \o
                                       Put64(c.timestamp3)
          [] OTHER                  -> <<>>

\* strdup of what follows the i-th octet: up to the first NUL.
StrDup(s, i) ==
    LET nul == CHOOSE j \in i..Len(s) : s[j] = 0 /\ \A k \in i..(j - 1) : s[k] # 0
    IN  IF Len(s) < i THEN NULL ELSE SubSeq(s, i, nul)

\* No command, when net_applemidi_unpack returns NET_APPLEMIDI_NEED_DATA: the pointer
\* is NULL, and net_socket_read, which does not look at what was returned, ends the
\* program on it.  A command without data, when it is none of those above.
NoCommand  == [command |-> -1]
NoData(n)  == [command |-> n]

\* net_applemidi_unpack.  The static size of an exchange is taken as that of the
\* struct without its pointer, 16 - 8.
NetApplemidiUnpack(s) ==
    LET command == Get16(s, 3)
        rest    == Len(s) - 4
    IN  CASE Len(s) < 4 -> NoCommand
          [] Len(s) >= 4 /\ command \in Exchange ->
                IF rest < 8 THEN NoCommand
                ELSE [command |-> command, version |-> Get32(s, 5), initiator |-> Get32(s, 9),
                      ssrc |-> Get32(s, 13), name |-> StrDup(s, 17)]
          [] Len(s) >= 4 /\ command = FEEDBACK ->
                IF rest < 8 THEN NoCommand
                ELSE [command |-> command, ssrc |-> Get32(s, 5), apple_seq |-> Get32(s, 9)]
          [] Len(s) >= 4 /\ command = BITRATE ->
                IF rest < 8 THEN NoCommand
                ELSE [command |-> command, ssrc |-> Get32(s, 5), limit |-> Get32(s, 9)]
          [] Len(s) >= 4 /\ command = SYNC ->
                IF rest < 32 THEN NoCommand
                ELSE [command |-> command, ssrc |-> Get32(s, 5), count |-> s[9],
                      padding |-> <<s[10], s[11], s[12]>>, timestamp1 |-> Get64(s, 13),
                      timestamp2 |-> Get64(s, 21), timestamp3 |-> Get64(s, 29)]
          [] OTHER -> NoData(command)

\* net_socket_read takes a packet for one of these by its first two octets.
IsSession(s) == Len(s) >= 2 /\ s[1] = 255 /\ s[2] = 255

-----------------------------------------------------------------------------
\* applemidi_feedback_create.  apple_seq shares its octets with the array
\* rtp_seq, of which rtp_seq[1] is the high half on a little-endian machine.
RtpSeq1(apple_seq) == apple_seq[1]

ApplemidiFeedbackCreate(ssrc, rtp_seq) ==
    NetApplemidiPack([command |-> FEEDBACK, ssrc |-> ssrc, apple_seq |-> <<rtp_seq, 0>>])

-----------------------------------------------------------------------------
\* The header of an RTP packet.
RtpHeader == [v : 0..3, p : 0..1, x : 0..1, cc : 0..15, m : 0..1, pt : 0..127,
              seq : Uint16, timestamp : Uint32, ssrc : Uint32]

\* midi_sender_send_single: version 2, dynamic payload type 97.
RtpFields(seq, timestamp, ssrc) ==
    [v |-> 2, p |-> 0, x |-> 0, cc |-> 0, m |-> 0, pt |-> 97,
     seq |-> seq, timestamp |-> timestamp, ssrc |-> ssrc]

\* midi_sender_send_single, as rtp_packet_pack does it.
RtpPack(h) ==
    <<h.v * 64 + h.p * 32 + h.x * 16 + h.cc, h.m * 128 + h.pt>>
        \o Put16(h.seq) \o Put32(h.timestamp) \o Put32(h.ssrc)

\* rtp_packet_unpack: the header, and the payload, what follows its 12 octets.
RtpUnpack(s) ==
    [v |-> s[1] \div 64, p |-> (s[1] \div 32) % 2, x |-> (s[1] \div 16) % 2,
     cc |-> s[1] % 16, m |-> s[2] \div 128, pt |-> s[2] % 128,
     seq |-> Get16(s, 3), timestamp |-> Get32(s, 5), ssrc |-> Get32(s, 9)]

RtpPayload(s) == SubSeq(s, 13, Len(s))

-----------------------------------------------------------------------------
\* The MIDI list: four flags, its length in 4 or 12 bits, its octets.
ListFlags == [B : 0..1, J : 0..1, Z : 0..1, P : 0..1]

FlagBits(f) == f.B * 128 + f.J * 64 + f.Z * 32 + f.P * 16

\* midi_sender_send_single: a list of more than 15 octets gets the second octet
\* of length whatever B says.  The slip counts the status octet out.
PackListShort(f, list) ==
    (IF Len(list) <= 15 THEN <<FlagBits(f) + Len(list) - 1>>
     ELSE <<FlagBits(f) + ((Len(list) \div 256) % 16), Len(list) % 256>>) \o list

PackList(f, list) ==
    (IF Len(list) <= 15 THEN <<FlagBits(f) + Len(list)>>
     ELSE <<FlagBits(f) + ((Len(list) \div 256) % 16), Len(list) % 256>>) \o list

\* midi_payload_unpack: NoList when the packet is too short for what it says.
NoList == [list |-> <<>>, valid |-> FALSE]

UnpackList(s) ==
    LET b     == s[1] \div 128
        len   == IF b = 1 THEN (s[1] % 16) * 256 + s[2] ELSE s[1] % 16
        start == IF b = 1 THEN 3 ELSE 2
    IN  IF s = <<>> \/ (b = 1 /\ Len(s) = 1) \/ Len(s) < start - 1 + len THEN NoList
        ELSE [list  |-> SubSeq(s, start, start - 1 + len), valid |-> TRUE,
              flags |-> [B |-> b, J |-> (s[1] \div 64) % 2, Z |-> (s[1] \div 32) % 2,
                         P |-> (s[1] \div 16) % 2]]

-----------------------------------------------------------------------------
\* midi_command_to_payload with midi_payload_set_buffer, which finds the status
\* octet in place.
ListOf(m) == <<m.status>> \o m.data

\* midi_command_map: the upper half of the status octet tells the messages of a
\* channel apart.
Kind(m) == m.status \div 16

\* The records of the commands that are kept in the journal.
MidiNoteFromCommand(m) ==
    [kind    |-> IF Kind(m) = 9 THEN "on" ELSE "off", channel |-> m.status % 16,
     data    |-> <<m.data[1] % 128, m.data[2] % 128>>]
MidiControlFromCommand(m) ==
    [kind    |-> "control", channel |-> m.status % 16,
     data    |-> <<m.data[1] % 128, m.data[2] % 128>>]
MidiProgramFromCommand(m) ==
    [kind    |-> "program", channel |-> m.status % 16, data |-> <<m.data[1] % 128>>]

HasEvent(m) == Kind(m) \in {8, 9, 11, 12}

\* midi_sender_send_single: the record it makes of a command that has one.
EventOf(m) == CASE Kind(m) \in {8, 9} -> MidiNoteFromCommand(m)
                [] Kind(m) = 11        -> MidiControlFromCommand(m)
                [] Kind(m) = 12        -> MidiProgramFromCommand(m)
=============================================================================
