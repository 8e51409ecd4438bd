------------------------------ MODULE Session -------------------------------
(***************************************************************************)
(* The connection table of net_connection.c between its two threads: the   *)
(* queue thread, which sends every MIDI command to every connection        *)
(* (midi_sender_send_single), and the main thread, which opens, closes and *)
(* acknowledges connections as packets of the peers arrive                 *)
(* (applemidi_inv_responder, _by_responder, _feedback_responder).          *)
(*                                                                         *)
(* A section under ctx->lock is one action, and so is a read without it.   *)
(* The journal is the set of the events added since it was last reset:     *)
(* module Journal says what of them can be recovered from its packed form. *)
(* A peer takes a new SSRC for every session, so the two are the same      *)
(* here, and raveloxmidi a new send_ssrc; a peer accepts the packets that  *)
(* carry the send_ssrc it was given.  Packets in both directions can be    *)
(* lost, delayed, doubled and reordered.  Allocation does not fail.        *)
(***************************************************************************)
EXTENDS Integers, Sequences, FiniteSets

CONSTANTS Peer,       \* the SSRCs of the peers
          Command,    \* the MIDI commands sent in one life of the program
          Journaled,  \* those that are note, control or program changes; none of them
                      \* when journal.write is not set
          Local,      \* the originator of a command of a local socket, SSRC 0
          NONE,       \* no peer, no command
          SeqSize     \* the RTP sequence number is taken modulo this, 65536

ASSUME PeerAssumption == IsFiniteSet(Peer) /\ Local \notin Peer
ASSUME NoneAssumption == NONE \notin Peer \cup Command \cup {Local}
ASSUME JournaledAssumption == Journaled \subseteq Command
ASSUME SeqSizeAssumption == SeqSize \in Nat \ {0}

VARIABLES
    count,        \* connections->count
    peer,         \* ctx->ssrc, and the session ctx->send_ssrc belongs to
    used,         \* ctx->status # UNUSED, and then its address is set
    seq,          \* ctx->seq, a uint32_t
    journal,      \* ctx->journal
    spc,          \* what the queue thread is doing
    index, total, \* its loop over the connections
    command,      \* the command it is sending
    originator,   \* originator_ssrc, where the command came from
    packed,       \* the packed journal
    rtp,          \* the fields read into rtp_packet.header: seq and ssrc
    begun,        \* history: the session in the slot when it was looked at
    mpc,          \* what the main thread is doing
    slot,         \* the connection it found
    found,        \* history: the sequence number the feedback responder read
    taken,        \* history: the commands taken from the queue
    joined, left, \* the peers that have sent INV, and BY
    sent,         \* history: the packets sent, in order
    acked,        \* history: the packets whose acknowledgement reset a journal
    raced,        \* history: peer and event dropped between read and reset
    toReach       \* history: the sessions the current command must be sent to

table  == <<count, peer, used, seq, journal>>
sender == <<spc, index, total, command, originator, packed, rtp, begun>>
main   == <<mpc, slot, found>>
net    == <<taken, joined, left, sent, acked, raced, toReach>>
vars   == <<table, sender, main, net>>

Slot == 0..Cardinality(Peer) - 1

NoFields == [seq |-> 0, ssrc |-> NONE]

\* net_ctx_init.  A slot from count on is not allocated yet.
Init ==
    /\ count = 0
    /\ peer = [s \in Slot |-> NONE]
    /\ used = [s \in Slot |-> FALSE]
    /\ seq = [s \in Slot |-> 1]
    /\ journal = [s \in Slot |-> {}]
    /\ spc = "idle"
    /\ index = 0
    /\ total = 0
    /\ command = NONE
    /\ originator = NONE
    /\ packed = {}
    /\ rtp = NoFields
    /\ begun = NONE
    /\ mpc = "idle"
    /\ slot = 0
    /\ found = 0
    /\ taken = {}
    /\ joined = {}
    /\ left = {}
    /\ sent = <<>>
    /\ acked = {}
    /\ raced = {}
    /\ toReach = {}

\* net_ctx_find_by_ssrc.
FindBySsrc(p) == {s \in 0..count - 1 : used[s] /\ peer[s] = p}

\* The sessions that are open.
Active == {peer[s] : s \in {t \in Slot : used[t]}}

-----------------------------------------------------------------------------
\* The queue thread: midi_sender_send_single.

\* The next command off the queue, from a local socket or from a peer.
Take(c, from) ==
    /\ spc = "idle"
    /\ c \notin taken
    /\ command' = c
    /\ originator' = from
    /\ taken' = taken \cup {c}
    /\ total' = count
    /\ index' = 0
    /\ spc' = "compare"
    /\ toReach' = Active \ {from}
    /\ UNCHANGED <<table, packed, rtp, begun, main, joined, left, sent, acked, raced>>

\* The loop goes on with the next connection, or ends; its variables go out of
\* scope.
Leave ==
    /\ spc' = "idle"
    /\ command' = NONE
    /\ originator' = NONE
    /\ index' = 0
    /\ total' = 0

NextConnection ==
    /\ IF index + 1 < total
       THEN spc' = "compare" /\ index' = index + 1 /\ UNCHANGED <<command, originator, total>>
       ELSE Leave
    /\ packed' = {}
    /\ rtp' = NoFields
    /\ begun' = NONE

\* Nothing is sent to the originator.  The slips send it the command too, and
\* leave the loop there.
CompareNothing ==
    /\ spc = "compare"
    /\ index < total
    /\ begun' = peer[index]
    /\ spc' = "pack"
    /\ UNCHANGED <<table, index, total, command, originator, packed, rtp, main, net>>

CompareBreak ==
    /\ spc = "compare"
    /\ index < total
    /\ IF peer[index] = originator
       THEN Leave /\ UNCHANGED <<packed, rtp, begun>>
       ELSE /\ begun' = peer[index]
            /\ spc' = "pack"
            /\ UNCHANGED <<index, total, command, originator, packed, rtp>>
    /\ UNCHANGED <<table, main, net>>

Compare ==
    /\ spc = "compare"
    /\ index < total
    /\ IF peer[index] = originator
       THEN NextConnection
       ELSE /\ begun' = peer[index]
            /\ spc' = "pack"
            /\ UNCHANGED <<index, total, command, originator, packed, rtp>>
    /\ UNCHANGED <<table, main, net>>

\* There is no connection at all.
NoConnections ==
    /\ spc = "compare"
    /\ index >= total
    /\ Leave
    /\ UNCHANGED <<table, packed, rtp, begun, main, net>>

\* net_ctx_journal_pack.
PackJournal ==
    /\ spc = "pack"
    /\ packed' = journal[index]
    /\ spc' = "increment"
    /\ UNCHANGED <<table, index, total, command, originator, rtp, begun, main, net>>

\* net_ctx_increment_seq.
IncrementSeq ==
    /\ spc = "increment"
    /\ seq' = [seq EXCEPT ![index] = @ + 1]
    /\ spc' = "readseq"
    /\ UNCHANGED <<count, peer, used, journal, index, total, command, originator,
                   packed, rtp, begun, main, net>>

\* net_ctx_update_rtp_fields, without the lock.
ReadSeq ==
    /\ spc = "readseq"
    /\ rtp' = [rtp EXCEPT !.seq = seq[index]]
    /\ spc' = "readssrc"
    /\ UNCHANGED <<table, index, total, command, originator, packed, begun, main, net>>

ReadSsrc ==
    /\ spc = "readssrc"
    /\ rtp' = [rtp EXCEPT !.ssrc = peer[index]]
    /\ spc' = "send"
    /\ UNCHANGED <<table, index, total, command, originator, packed, begun, main, net>>

\* net_ctx_send, to the address the slot has by now; to none if it is unused.
Send ==
    /\ spc = "send"
    /\ IF used[index]
       THEN /\ sent' = Append(sent, [to |-> peer[index], from |-> originator,
                                     seq |-> rtp.seq, event |-> command,
                                     journal |-> packed, begun |-> begun,
                                     accepted |-> rtp.ssrc = peer[index]
                                                  /\ peer[index] \notin left])
            /\ toReach' = toReach \ {peer[index]}
       ELSE UNCHANGED <<sent, toReach>>
    /\ spc' = "journal"
    /\ UNCHANGED <<table, index, total, command, originator, packed, rtp, begun, main,
                   taken, joined, left, acked, raced>>

\* net_ctx_add_journal_note, _control or _program, whether or not it was sent.
AddJournal ==
    /\ spc = "journal"
    /\ journal' = IF command \in Journaled
                  THEN [journal EXCEPT ![index] = @ \cup {command}] ELSE journal
    /\ NextConnection
    /\ UNCHANGED <<count, peer, used, seq, main, net>>

-----------------------------------------------------------------------------
\* The main thread.

\* What the main thread does next, and the locals it does it with.
Found(s, n, next) == slot' = s /\ found' = n /\ mpc' = next

\* net_ctx_find_unused: the first slot that is not in use, or else one more.
FirstUnused(s) == /\ s < count => ~ used[s]
                  /\ \A t \in 0..s - 1 : used[t]

\* applemidi_inv_responder for an SSRC that is not in the table: net_ctx_register.
\* net_ctx_set leaves the sequence number and the journal of the slot as they are.
\* A repeated INV, and the one on the data port, change nothing.
Invite(p) ==
    /\ mpc = "idle"
    /\ p \notin joined
    /\ FindBySsrc(p) = {}
    /\ \E s \in 0..count :
         /\ FirstUnused(s)
         /\ peer' = [peer EXCEPT ![s] = p]
         /\ used' = [used EXCEPT ![s] = TRUE]
         /\ count' = IF s = count THEN count + 1 ELSE count
    /\ joined' = joined \cup {p}
    /\ UNCHANGED <<seq, journal, sender, main, taken, left, sent, acked, raced, toReach>>

\* applemidi_by_responder: net_ctx_reset, up to net_ctx_journal_reset.
Bye(p) ==
    /\ mpc = "idle"
    /\ \E s \in FindBySsrc(p) :
         /\ Found(s, 0, "closing")
         /\ journal' = [journal EXCEPT ![s] = {}]
    /\ left' = left \cup {p}
    /\ UNCHANGED <<count, peer, used, seq, sender, taken, joined, sent, acked,
                   raced, toReach>>

\* The rest of net_ctx_reset.  The slip starts the next session from 0.
CloseAtZero ==
    /\ mpc = "closing"
    /\ seq' = [seq EXCEPT ![slot] = 0]
    /\ used' = [used EXCEPT ![slot] = FALSE]
    /\ toReach' = toReach \ {peer[slot]}
    /\ Found(0, 0, "idle")
    /\ UNCHANGED <<count, peer, journal, sender, taken, joined, left, sent,
                   acked, raced>>

Close ==
    /\ mpc = "closing"
    /\ seq' = [seq EXCEPT ![slot] = 1]
    /\ used' = [used EXCEPT ![slot] = FALSE]
    /\ toReach' = toReach \ {peer[slot]}
    /\ Found(0, 0, "idle")
    /\ UNCHANGED <<count, peer, journal, sender, taken, joined, left, sent,
                   acked, raced>>

\* The packets that the peer accepts, if they reach it: those that carry the
\* send_ssrc of its session, until it has said BY.  And what it acknowledges.
Accepted(p) == {k \in 1..Len(sent) : sent[k].to = p /\ sent[k].accepted}
Acknowledged(k) == sent[k].seq % SeqSize

\* applemidi_feedback_responder for the acknowledgement of a packet the peer has
\* received, now or long ago: ctx->seq is read under the lock, compared without
\* it, and the journal reset in a section of its own.  The slip takes the packet
\* before the last for the last.
FeedbackOneLess(p, k) ==
    /\ mpc = "idle"
    /\ p \notin left
    /\ \E s \in FindBySsrc(p) :
         /\ Acknowledged(k) >= seq[s] - 1
         /\ Found(s, seq[s], "resetting")
    /\ acked' = acked \cup {k}
    /\ UNCHANGED <<table, sender, taken, joined, left, sent, raced, toReach>>

Feedback(p, k) ==
    /\ mpc = "idle"
    /\ p \notin left
    /\ \E s \in FindBySsrc(p) :
         /\ Acknowledged(k) >= seq[s]
         /\ Found(s, seq[s], "resetting")
    /\ acked' = acked \cup {k}
    /\ UNCHANGED <<table, sender, taken, joined, left, sent, raced, toReach>>

\* What the reset drops of packets later than the sequence number it was decided on.
DroppedLater ==
    {<<peer[slot], sent[k].event>> :
        k \in {j \in 1..Len(sent) : /\ sent[j].to = peer[slot]
                                    /\ sent[j].event \in journal[slot]
                                    /\ sent[j].seq > found}}

\* net_ctx_journal_reset.  The slip resets the sequence number with the journal.
ResetWithSeq ==
    /\ mpc = "resetting"
    /\ journal' = [journal EXCEPT ![slot] = {}]
    /\ seq' = [seq EXCEPT ![slot] = 1]
    /\ raced' = raced \cup DroppedLater
    /\ Found(0, 0, "idle")
    /\ UNCHANGED <<count, peer, used, sender, taken, joined, left, sent,
                   acked, toReach>>

ResetJournal ==
    /\ mpc = "resetting"
    /\ journal' = [journal EXCEPT ![slot] = {}]
    /\ raced' = raced \cup DroppedLater
    /\ Found(0, 0, "idle")
    /\ UNCHANGED <<count, peer, used, seq, sender, taken, joined, left, sent,
                   acked, toReach>>

-----------------------------------------------------------------------------
SenderStep ==
    \/ \E c \in Command, from \in joined \cup {Local} : Take(c, from)
    \/ Compare
    \/ NoConnections
    \/ PackJournal
    \/ IncrementSeq
    \/ ReadSeq
    \/ ReadSsrc
    \/ Send
    \/ AddJournal

MainStep ==
    \/ \E p \in Peer : Invite(p)
    \/ \E p \in Peer : Bye(p)
    \/ Close
    \/ \E p \in Peer : \E k \in Accepted(p) : Feedback(p, k)
    \/ ResetJournal

Next == SenderStep \/ MainStep

Spec == Init /\ [][Next]_vars

-----------------------------------------------------------------------------
TypeOK ==
    /\ count \in 0..Cardinality(Peer)
    /\ peer \in [Slot -> Peer \cup {NONE}]
    /\ used \in [Slot -> BOOLEAN]
    /\ seq \in [Slot -> Nat \ {0}]
    /\ journal \in [Slot -> SUBSET Journaled]
    /\ spc \in {"idle", "compare", "pack", "increment", "readseq", "readssrc", "send", "journal"}
    /\ index \in 0..total
    /\ total \in 0..count
    /\ command \in Command \cup {NONE}
    /\ originator \in Peer \cup {Local, NONE}
    /\ packed \subseteq Journaled
    /\ rtp \in [seq : Nat, ssrc : Peer \cup {NONE}]
    /\ begun \in Peer \cup {NONE}
    /\ mpc \in {"idle", "closing", "resetting"}
    /\ slot \in Nat /\ (mpc # "idle" => slot \in Slot)
    /\ found \in Nat
    /\ taken \subseteq Command
    /\ left \subseteq joined /\ joined \subseteq Peer
    /\ sent \in Seq([to : Peer, from : Peer \cup {Local}, seq : Nat,
                     event : Command, journal : SUBSET Journaled,
                     begun : Peer \cup {NONE}, accepted : BOOLEAN])
    /\ acked \subseteq 1..Len(sent)
    /\ raced \subseteq Peer \X Command
    /\ toReach \subseteq Peer

\* A packet prepared before the session it was sent in had begun.
Stray(k) == sent[k].begun # sent[k].to

\* What a peer knows after the packets ks: their commands and their journals.
Known(ks) == UNION {{sent[k].event} \cup sent[k].journal : k \in ks}

\* However many packets are lost, one that arrives tells the peer of every note,
\* control and program change sent to it before: that is what the journal is for.
\* ks are all the peer is sure to have received.  Not covered are what a race
\* drops, and a session that accepted a packet prepared before it began, whose
\* sequence number is that of another session.
Recoverable ==
    \A p \in Peer :
        (\A k \in Accepted(p) : ~ Stray(k)) =>
            \A k \in Accepted(p) : \A j \in Accepted(p) :
                /\ j <= k
                /\ sent[j].event \in Journaled
                /\ <<p, sent[j].event>> \notin raced
                => sent[j].event \in Known((acked \cap Accepted(p)) \cup {k})

\* The packets of a session are numbered one after the other, in the order they
\* were sent: the peer sees a loss as a gap and nothing else as one.
SeqConsecutive ==
    \A p \in Peer : \A j, k \in Accepted(p) :
        /\ j < k
        /\ \A i \in Accepted(p) : ~ (j < i /\ i < k)
        /\ ~ Stray(j) /\ ~ Stray(k)
        => sent[k].seq = sent[j].seq + 1

\* A command a peer has sent is not sent back to it.
NotEchoed == \A k \in 1..Len(sent) : sent[k].from # sent[k].to

\* "it will send that MIDI command to any active connections in the connection
\* table" (README): each that was open when the queue thread took the command
\* and has not been closed since, but the one it came from.
ReachesActive == spc = "idle" => toReach = {}

\* A reset drops only what the peer has acknowledged: "if the value in the
\* feedback packet is greater than or equal to the value in the table, the journal
\* will be reset" (README), so never an event of a packet numbered after that value.
DropsOnlyAcked == raced = {}
=============================================================================
