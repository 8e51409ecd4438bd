-------------------------------- MODULE Wire --------------------------------
(***************************************************************************)
(* Several raveloxmidi programs and other AppleMIDI peers that have        *)
(* sessions with each other, and the octets between them: a MIDI command   *)
(* goes from where it enters, through programs that forward it             *)
(* (midi_sender_send_single, net_socket_read), to every program and peer;  *)
(* every packet of it is acknowledged with a FEEDBACK                      *)
(* (applemidi_feedback_create, applemidi_feedback_responder).              *)
(*                                                                         *)
(* The sessions are open from the beginning, and form no cycle; how they   *)
(* are opened is the subject of Connections, the threads of one program    *)
(* are that of Session and DataQueue, how the octets of a MIDI list are    *)
(* taken apart that of MidiState: here a list is one command, after a      *)
(* delta time of one octet when Z is set.  Packets are lost, doubled and   *)
(* reordered; they arrive whole.  Allocation does not fail.                *)
(***************************************************************************)
EXTENDS Packets, FiniteSets

CONSTANTS Program,     \* the raveloxmidi programs
          JournalWrite,  \* those of them where journal.write is yes
          Peer,        \* the other AppleMIDI peers
          Link,        \* the sessions, sets of two of them
          Ssrc,        \* Ssrc[<<a, b>>]: the SSRC a uses in its session with b
          Stray,       \* a packet of a session that is over
          Command,     \* the MIDI commands, a status octet with its data
          Body,        \* the octets of the channels of a packed journal
          PeerSeq,     \* the sequence number a peer begins with
          MaxEntered,  \* bound on the commands that enter
          MaxDoubled   \* bound on the packets that arrive twice

Node == Program \cup Peer
Conn == {c \in Node \X Node : {c[1], c[2]} \in Link}

ASSUME NodeAssumption == Program \cap Peer = {}
ASSUME JournalWriteAssumption == JournalWrite \subseteq Program
ASSUME LinkAssumption == \A l \in Link : Cardinality(l) = 2 /\ l \subseteq Node /\ l \cap Program # {}
ASSUME SsrcAssumption == /\ Ssrc \in [Conn -> Uint32 \ {<<0, 0>>}]
                         /\ \A c, d \in Conn : Ssrc[c] = Ssrc[d] => c = d
\* No cycle: without the session of a and b there is no way from one to the other.
\* T is the side of b.
Apart(a, b, T) ==
    b \in T /\ a \notin T /\ \A l \in Link \ {{a, b}} : l \subseteq T \/ l \cap T = {}
ASSUME TreeAssumption == \A c \in Conn : \E T \in SUBSET Node : Apart(c[1], c[2], T)
\* A stray packet is an RTP packet to a program, which has no such SSRC in its table.
ASSUME StrayAssumption ==
    /\ Stray.octets \in Seq(Octet) /\ Len(Stray.octets) >= 12 /\ ~IsSession(Stray.octets)
    /\ RtpUnpack(Stray.octets).ssrc \notin {Ssrc[c] : c \in Conn}
    /\ Stray.to \in Program \ Stray.via
\* Commands are whole: with the data octets of their record, and of no more octets
\* than midi_payload_unpack takes for an empty list when B is not set.
ASSUME CommandAssumption ==
    /\ Command \subseteq [status : 128..255, data : Seq(Octet)]
    /\ \A m \in Command : /\ Len(m.data) <= 254
                          /\ HasEvent(m) => Len(m.data) = IF Kind(m) = 12 THEN 1 ELSE 2
ASSUME OctetsAssumption == Body \in Seq(Octet) /\ PeerSeq \in Nat
ASSUME BoundsAssumption == MaxEntered \in Nat /\ MaxDoubled \in Nat

VARIABLES
    seq,      \* ctx->seq of each connection, and that of the peers
    journal,  \* ctx->journal: the events it holds, with the number of their packet
    queue,    \* the data queue of each program
    net,      \* the packets on the network
    handed,   \* history: what the receiver of a connection took from its packets
    logged,   \* history: the events that belonged into the journal, likewise
    entered,  \* the commands that entered
    doubled   \* the packets that arrived twice

vars == <<seq, journal, queue, net, handed, logged, entered, doubled>>

\* A packet on the network: its octets, and for the properties the command it is
\* sent for, its number, and the programs and peers the command went through.
Packet(a, b, octets, meant, number, via) ==
    [from |-> a, to |-> b, octets |-> octets, meant |-> meant, number |-> number, via |-> via]

\* net_ctx_init: ctx->seq is 1.
Init ==
    /\ seq = [c \in Conn |-> IF c[1] \in Program THEN 1 ELSE PeerSeq]
    /\ journal = [c \in Conn |-> {}]
    /\ queue = [a \in Program |-> <<>>]
    /\ net = {Stray}
    /\ handed = [c \in Conn |-> {}]
    /\ logged = [c \in Conn |-> {}]
    /\ entered = 0
    /\ doubled = 0

\* net_ctx_find_by_ssrc: ctx->ssrc of the connection to b is the SSRC b uses.  The
\* slip takes any connection in use.
FindUsed(a, ssrc) == {b \in Node : <<a, b>> \in Conn}
FindBySsrc(a, ssrc) == {b \in Node : <<a, b>> \in Conn /\ Ssrc[<<b, a>>] = ssrc}

-----------------------------------------------------------------------------
\* midi_sender_send_single

\* The packed journal: the number of the last packet whose event it holds.
JournalOctets(c) ==
    LET last == CHOOSE e \in journal[c] : \A f \in journal[c] : f.number <= e.number
    IN  IF journal[c] = {} THEN <<>> ELSE <<160>> \o Put16(last.number % 65536) \o Body

\* The flags of the payload: B, Z and P are never set.
Flags(c) == [B |-> 0, J |-> IF journal[c] = {} THEN 0 ELSE 1, Z |-> 0, P |-> 0]

\* The packet for one connection, numbered after net_ctx_increment_seq.
RtpOctets(c, m) ==
    RtpPack(RtpFields((seq[c] + 1) % 65536, <<0, 0>>, Ssrc[c])) \o PackList(Flags(c), ListOf(m))
        \o JournalOctets(c)

\* net_ctx_add_journal_note, _control, _program, after the packet is sent and if the
\* program keeps journals.  The slip comes before its number is raised.
InJournal(c, m) == c[1] \in JournalWrite /\ HasEvent(m)
AddedEarly(c, m) == IF InJournal(c, m) THEN {[number |-> seq[c], event |-> EventOf(m)]} ELSE {}
Added(c, m) == IF InJournal(c, m) THEN {[number |-> seq[c] + 1, event |-> EventOf(m)]} ELSE {}

\* The connections of a but the one the command came from.  The slip compares
\* with the SSRC of this side.
NotToOwn(a, ssrc) == {c \in Conn : c[1] = a /\ Ssrc[c] # ssrc}
NotToOriginator(a, ssrc) == {c \in Conn : c[1] = a /\ Ssrc[<<c[2], a>>] # ssrc}

\* The queue thread takes a command and sends it to every connection in turn.
Send(a) ==
    /\ queue[a] # <<>>
    /\ LET item == Head(queue[a])
           to   == NotToOriginator(a, item.originator)
       IN  /\ queue' = [queue EXCEPT ![a] = Tail(@)]
           /\ net' = net \cup {Packet(a, c[2], RtpOctets(c, item.command), item.meant,
                                      seq[c] + 1, item.via \cup {a}) : c \in to}
           /\ seq' = [c \in Conn |-> IF c \in to THEN seq[c] + 1 ELSE seq[c]]
           /\ journal' = [c \in Conn |-> IF c \in to THEN journal[c] \cup Added(c, item.command)
                                         ELSE journal[c]]
           /\ logged' = [c \in Conn |->
                            IF c \in to /\ InJournal(c, item.meant)
                            THEN logged[c] \cup {[number |-> seq[c] + 1, event |-> EventOf(item.meant)]}
                            ELSE logged[c]]
    /\ UNCHANGED <<handed, entered, doubled>>

\* data_queue_add
Queue(a, command, originator, meant, via) ==
    queue' = [queue EXCEPT ![a] = Append(@, [command |-> command, originator |-> originator,
                                             meant |-> meant, via |-> via])]

\* A command of a local socket, an ALSA device or the file descriptor: SSRC 0.
Enter(a, m) ==
    /\ entered < MaxEntered
    /\ Queue(a, m, <<0, 0>>, m, {})
    /\ entered' = entered + 1
    /\ UNCHANGED <<seq, journal, net, handed, logged, doubled>>

-----------------------------------------------------------------------------
\* net_socket_read

\* The network delivers a packet, and may deliver it once more.
Deliver(d, sent) ==
    \/ net' = (net \ {d}) \cup sent /\ UNCHANGED doubled
    \/ doubled < MaxDoubled /\ net' = net \cup sent /\ doubled' = doubled + 1

\* What midi_state_send makes of the list: the delta time is skipped.  Of an empty
\* list it makes no command.
NoMidi == [status |-> 0, data |-> <<>>]

Parsed(payload) ==
    LET list == IF payload.flags.Z = 1 THEN Tail(payload.list) ELSE payload.list
    IN  IF list = <<>> THEN NoMidi ELSE [status |-> Head(list), data |-> Tail(list)]

Hand(c, d, command) ==
    handed' = [handed EXCEPT ![c] = @ \cup {[number |-> d.number, read |-> RtpUnpack(d.octets).seq,
                                             command |-> command, meant |-> d.meant]}]

\* An RTP packet of a connection: the command goes into the queue with the SSRC of
\* the connection as its originator, and the packet is acknowledged to where it
\* came from.  A packet of another version or of an SSRC that is not in the table
\* is dropped.
ReceiveRtp(a, d) ==
    /\ d \in net /\ d.to = a /\ ~IsSession(d.octets)
    /\ LET header  == RtpUnpack(d.octets)
           payload == UnpackList(RtpPayload(d.octets))
           from    == FindBySsrc(a, header.ssrc)
           command == Parsed(payload)
       IN  IF header.v # 2 \/ from = {}
           THEN Deliver(d, {}) /\ UNCHANGED <<queue, handed>>
           ELSE /\ Deliver(d, {Packet(a, d.from, ApplemidiFeedbackCreate(header.ssrc, header.seq),
                                      NoMidi, 0, {})})
                /\ \E b \in from : Hand(<<b, a>>, d, command)
                /\ IF command = NoMidi THEN UNCHANGED queue
                   ELSE Queue(a, command, header.ssrc, d.meant, d.via)
    /\ UNCHANGED <<seq, journal, logged, entered>>

\* applemidi_feedback_responder.
ReceiveFeedback(a, d) ==
    /\ d \in net /\ d.to = a /\ IsSession(d.octets)
    /\ LET feedback == NetApplemidiUnpack(d.octets)
       IN  journal' = [c \in Conn |->
                         IF /\ c[1] = a /\ c[2] \in FindBySsrc(a, feedback.ssrc)
                            /\ RtpSeq1(feedback.apple_seq) >= seq[c]
                         THEN {} ELSE journal[c]]
    /\ Deliver(d, {})
    /\ UNCHANGED <<seq, queue, handed, logged, entered>>

-----------------------------------------------------------------------------
\* A peer that is not raveloxmidi: its MIDI lists have a delta time or not, B when
\* they are long, a journal of its own; its feedback carries its own SSRC and the
\* highest number it has received.
PeerSend(p, b, m, z) ==
    /\ entered < MaxEntered
    /\ <<p, b>> \in Conn
    /\ LET c    == <<p, b>>
           list == IF z = 1 THEN <<0>> \o ListOf(m) ELSE ListOf(m)
           f    == [B |-> IF Len(list) > 15 THEN 1 ELSE 0, J |-> 1, Z |-> z, P |-> 0]
           h    == [RtpFields(seq[c] % 65536, <<0, 0>>, Ssrc[c]) EXCEPT !.m = 1]
       IN  /\ net' = net \cup {Packet(p, b, RtpPack(h) \o PackList(f, list) \o <<0, 0, 0>>, m,
                                      seq[c], {p})}
           /\ seq' = [seq EXCEPT ![c] = @ + 1]
    /\ entered' = entered + 1
    /\ UNCHANGED <<journal, queue, handed, logged, doubled>>

PeerReceive(p, d) ==
    /\ d \in net /\ d.to = p
    /\ IF IsSession(d.octets) THEN UNCHANGED handed
       ELSE Hand(<<d.from, p>>, d, Parsed(UnpackList(RtpPayload(d.octets))))
    /\ Deliver(d, {})
    /\ UNCHANGED <<seq, journal, queue, logged, entered>>

PeerAcknowledge(p, b) ==
    /\ <<p, b>> \in Conn
    /\ \E h \in handed[<<b, p>>] :
         /\ \A i \in handed[<<b, p>>] : i.read <= h.read
         /\ net' = net \cup {Packet(p, b, NetApplemidiPack([command |-> FEEDBACK,
                                ssrc |-> Ssrc[<<p, b>>], apple_seq |-> <<h.read, 0>>]),
                                NoMidi, 0, {})}
    /\ UNCHANGED <<seq, journal, queue, handed, logged, entered, doubled>>

Next ==
    \/ \E a \in Program, m \in Command : Enter(a, m)
    \/ \E a \in Program : Send(a)
    \/ \E a \in Program, d \in net : ReceiveRtp(a, d)
    \/ \E a \in Program, d \in net : ReceiveFeedback(a, d)
    \/ \E p \in Peer, b \in Program, m \in Command, z \in 0..1 : PeerSend(p, b, m, z)
    \/ \E p \in Peer, d \in net : PeerReceive(p, d)
    \/ \E p \in Peer, b \in Program : PeerAcknowledge(p, b)

Spec == Init /\ [][Next]_vars

-----------------------------------------------------------------------------
\* Octets are octets; what is in a journal, or was handed over, was sent.
TypeOK ==
    /\ seq \in [Conn -> Nat]
    /\ \A a \in Program : \A i \in 1..Len(queue[a]) :
          /\ queue[a][i].command \in [status : 128..255, data : Seq(Octet)]
          /\ queue[a][i].originator \in Uint32
    /\ \A d \in net : d.octets \in Seq(Octet)
    /\ \A c \in Conn : c[1] \in Program =>
          /\ \A e \in journal[c] : e.number \in 2..seq[c] /\ e.event.data \in Seq(0..127)
          /\ \A h \in handed[c] : h.number \in 2..seq[c]
    /\ entered \in 0..MaxEntered /\ doubled \in 0..MaxDoubled

\* A list a raveloxmidi program sends of more than 15 octets is read as an empty
\* one: the finding of WireLongList.
LongList(c, m) == c[1] \in Program /\ Len(ListOf(m)) > 15

\* "it will send that MIDI command to any active connections in the connection
\* table" (README): whatever the programs and peers it comes through, and whatever
\* is lost, doubled or reordered, a command is handed over octet by octet as it
\* entered, without the delta time or the journal around it.
AllReceivedAsSent == \A c \in Conn : \A h \in handed[c] : h.command = h.meant
ReceivedAsSent ==
    \A c \in Conn : \A h \in handed[c] : ~LongList(c, h.meant) => h.command = h.meant

\* A command never returns to a program or peer it came through, doubled or not.
NotBack == \A d \in net : d.to \notin d.via

\* A feedback on the network names a packet its sender has received in that
\* session, for the receiver a packet of its own numbering.
FeedbackHonest ==
    \A d \in net : IsSession(d.octets) =>
        \E h \in handed[<<d.to, d.from>>] :
            RtpSeq1(NetApplemidiUnpack(d.octets).apple_seq) = h.number % 65536

\* A feedback resets the journal of the connection it is for and of no other: the
\* journal of a program that writes one holds every event of its connection since
\* the last packet the other side has received.
KeptUntilReceived ==
    \A c \in Conn : c[1] \in Program =>
        \A e \in logged[c] : e \in journal[c] \/ \E h \in handed[c] : h.number >= e.number

Acknowledged == FeedbackHonest /\ KeptUntilReceived
=============================================================================
