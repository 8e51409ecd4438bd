# A TLA+ model of raveloxmidi

raveloxmidi is a daemon that passes MIDI between local programs or ALSA devices and
remote RTP-MIDI (AppleMIDI) peers. It is written in C with three or four threads
that share queues, tables and buffers behind mutexes. This directory holds TLA+
modules of its core, TLC configurations that check them on small instances, and proofs
that TLAPS checks for every value of the constants.

Paths of the source are relative to `src/raveloxmidi/src/`. `PROJECT.json` lists
the components, the runs, the mutants (a plausible slip for every property, which the
property must catch), the source lines of each definition, the hazards and the findings.

## 1. The system

```
 local socket --+                                           +--> peer 1 (RTP + journal)
 (main thread)  |  ring  midi_state   data queue    sender  |
 RTP packets  --+--[ ]-->[ parser ]-->[ ]->[ ]-->[ thread ]-+--> peer 2 ...
 (main thread)  |                      contexts             |
 ALSA listener--+                                           +--> MIDI file, ALSA out
                       main thread: INV, BY, FEEDBACK, SYNC --> connection table
                       sync thread: SYNC of the connection raveloxmidi opened
```

| Component | State | Operations | Hard behaviour |
|---|---|---|---|
| Ring buffer (`ring_buffer.c`) | `data, start, end, used` | write, read_byte, drain, advance, compare | three indexes updated separately; full and empty look alike; split copies |
| MIDI parser (`midi_state.c`, `midi_command.c`) | status, running status, held bytes, pending system exclusive | write, send in two modes, reset | packets cut anywhere, running status, real-time bytes inside messages, slot reuse |
| Data queue and contexts (`data_queue.c`, `data_context.c`) | linked list, state, shutdown flag; reference counts | add, get, handler, stop, join, destroy; acquire, release | several producers, wake-ups, use after free, shutdown with items queued |
| MIDI sender (`midi_sender.c`) | the loop over the connections | add, handler, send to every connection | connections that open and close during the loop |
| Connection table (`net_connection.c`, `data_table.c`) | slots: SSRC, status, sequence number, journal | register, reset, find, send, journal access | read without the lock, slots reused between two sections |
| Recovery journal (`midi_journal.c`, `chapter_*.c`) | chapters N, C, P per channel, header | add note, control, program; reset; pack | bit fields and lengths, full list, what survives a reset |
| Session responders (`applemidi_*.c`) | none of their own | INV, OK, NO, BY, SYNC, FEEDBACK | lost, late and repeated packets, acknowledgements racing the sender |
| Remote connection (`remote_connection.c`) | target, sync thread | connect, sync loop, teardown | one unrepeated INV, stale context in the sync thread, teardown |
| Sockets and main loop (`net_socket.c`, `raveloxmidi.c`) | poll set, shutdown pipe, flags | read, loop, teardown, signal handler | a pipe several threads wait on, locks in a signal handler, order of teardown |
| ALSA (`raveloxmidi_alsa.c`) | poll table, listener thread | read, write, disable a descriptor | two locks taken in both orders, a device that disappears |
| Packet formats (`net_applemidi.c`, `rtp_packet.c`, `midi_payload.c`, the byte order of `utils.c`) | none | pack, unpack | widths and bit fields; the two forms of a list's length |
| Records (`midi_note.c`, `midi_control.c`, `midi_program.c`) | none | conversions from a command; pack and unpack, without a caller | none |
| Discovery, publishing | Avahi handles | Avahi callbacks | the library's behaviour is outside the repository |
| Configuration, logging, daemon, utilities | tables read at start-up | lookups, output | the logging lock, in the signal handler |

**How they interact.** `net_socket_read` (main thread) and the ALSA listener write what
they read to a ring, run the parser on it, and the parser calls `midi_sender_add` for
each command, which queues it with a reference to the packet's `data_context`. The queue
thread takes it, drops the reference, and sends it to each connection in the table but
the one it came from, with that connection's journal; then it adds the event to the
journal. Meanwhile the main thread changes the table as INV, BY and FEEDBACK arrive.
Each slot has its own lock, held for short sections, so the loop of the queue thread and
a responder interleave between any two sections.

**What makes them correct.** The ring is a byte FIFO. The parser hands on what was
sent. The queue delivers every accepted command exactly once in order, frees every
context once and not too early, and stops. Every connection gets every command but its own,
consecutively numbered; and whatever packets are lost, the next one that arrives tells
the peer of all it missed. An acknowledgement drops only what was acknowledged. The
threads end when the program is told to.

## 2. Plan

Order of writing, the most important behaviour first. All are written; the last column
says how far each one got.

| # | Module | Composes / abstracts | State |
|---|---|---|---|
| 1 | `ByteFifo`, `RingBuffer` | the ring implements the FIFO | checked and proved |
| 2 | `DataQueue` | queue, contexts, producers, handler, stop | checked and proved |
| 3 | `MidiState` | parser with an encoder of well-formed MIDI, over the FIFO of 1 | checked and proved |
| 4 | `Journal`, `JournalLayout` | one connection's journal by what can be recovered of it; below it, the octets it is packed into and what a reader takes from them | checked and proved |
| 5 | `Session` | connection table, sender loop, INV, BY, FEEDBACK; the journal of 4 as a set of events | checked and proved |
| 6 | `Connections` | sessions raveloxmidi opens and accepts: INV and OK on both ports, NO, CK, the sync thread, the four searches of the table and its growth | checked and proved |
| 7 | `Shutdown` | main loop, ALSA listener and sync thread, pipe, locks, QUIT, signals, teardown in `main` | checked and proved |
| 8 | `Packets` | what is packed and how it is unpacked: session packets, RTP headers, MIDI lists, records of commands | proved (first part of `WireProofs`), and checked as part of 9 |
| 9 | `Wire` | several programs and peers exchange the octets of 8: entering, forwarding, acknowledging | checked and proved |

Abstract specifications: `ByteFifo`, which the ring implements. `accepted` and `order` in `DataQueue` are the
abstract *exactly-once queue*, kept as history variables beside the linked list and related
to it by `ListShape`; the set of events in `Session` and `Wire` is the abstract journal,
which `Journal` justifies for channels below 15 and notes that have a bit.

Theorems: the invariant of the ring and its refinement; the inductive invariants of
`DataQueue`, `MidiState`, `Journal`, `Session`, `Connections`, `Shutdown` and `Wire` and every invariant of them that a run checks;
reading back what `Packets` and `JournalLayout` pack. No module that is proved about declares a RECURSIVE operator.

## 3. The modules and the code

Each operation of the code is an action with its name, capitalised. A section that runs
under one lock is one action; where the code reads without the lock, each read is an action.
Definitions whose comment begins with *Slip* or speaks of *the slip* are wrong variants of the
one below them. No action uses them; `PROJECT.json` substitutes each one to show that
some property notices. In every module memory allocation succeeds.

**`RingBuffer`.** `data`, `start`, `end`, `used` are the fields of `ring_buffer_t`; `out` and
`status` are what the operation returned; `call` records the operation and its arguments, so that the
refinement ties a step of the ring to the *same* call of the FIFO: without it, a write
that stored the wrong bytes could pass for a write of those bytes. `ring_buffer_write` has
its four outcomes as disjuncts, `ring_buffer_read` (reached only through
`ring_buffer_drain`, with the whole contents) its three. `ring_buffer_resize` has no caller.

**`ByteFifo`.** The promise: all-or-nothing writes, oldest byte first.

**`DataQueue`.** The list with `top`, `bottom` and `next`, the flag `state` the wake-up
depends on, `shutdown`; the life of every queue item and `data_context_t`. A producer is
`net_socket_read` or the ALSA listener: it opens a context, acquires it for each command,
adds the command, and releases its own reference. `data_context_release` decrements under the lock
and destroys after it: two actions. The handler waits (spurious wake-ups included), takes,
releases, perhaps destroys, sends. `Stop` and `JoinAndDestroy` are `midi_sender_stop`, which
`main` calls after the loops that produce have returned.

**`MidiState`.** The variables of `midi_state_t`; `sending` and `get_delta` are the activation of
`midi_state_send`; one action per way around its loop. The other variables are the
encoder that feeds it: messages under running status or not, system exclusives whole or in
segments, real-time bytes and packet boundaries anywhere (simple mode), delta times of
one or two bytes with and without the Z flag (RTP mode), and a slot that is reset for the next peer.
`MCMidiState` defines the message sets. The assumptions say what may be in them: `WellFormed` messages (a channel message with
its data, a segment of a system exclusive, or a single byte), real-time bytes of 248 and above, delta times that end in their
first octet below 128.

**`Journal`.** Per channel: whether it is allocated, its number as the header has it (4 bits), its
flags, and the three chapters. `Packed` is `journal_pack` up to layout: the
entries with what a receiver finds in them. `log` remembers the events since
the last reset. The undefined shift of a note off is modelled as the outcome of the
shift instructions of x86 and ARM (no bit of the byte is set); other outcomes would be as wrong.

**`JournalLayout`.** `JournalPack` and the operators below it build the octets of the journal of `Journal`, entry
by entry: `journal_header_pack`, `channel_header_pack`, `chapter_p_pack`, `_c_pack`, `_n_pack`, with the lengths as the code
counts them (10 bits in the channel header; what is left of chapter C in 8 bits). `Ascending` is the order of the loops over
channels and controllers. `ReadEntry` is a receiver: it goes by the table of contents of an entry and by the lengths it finds;
`ReadsWith(seq)` says that it finds in the journal of a packet with that sequence number what was packed. The flags the program
never sets are 0.

**`Packets`.** Operators only: a packet is the sequence of its octets, a `uint32_t` the pair of its halves. `Put16` to `Get64`
are the byte order of `utils.c`; `NetApplemidiPack` and `NetApplemidiUnpack`, `RtpPack` and `RtpUnpack`, `PackList` and
`UnpackList` are the two directions of each format, the last as `midi_sender_send_single` and `midi_payload_unpack` have it.
For a packet shorter than its format `NetApplemidiUnpack` gives `NoCommand`: the code's pointer is NULL, and `net_socket_read`
does not look at what was returned but reads `command->command`, which ends the program. No module sends such a packet, so no session is carried
past that.

**`Wire`.** Programs and peers with sessions that are open from the beginning. A packet on `net` is its octets; `meant`, `number`
and `via` beside them are for the properties and no action looks at them, except to pass them on. `Send` is
`midi_sender_send_single` for one command and all connections at once, `ReceiveRtp` and `ReceiveFeedback` are `net_socket_read` with the
responder it calls; `Session` and `DataQueue` have these in steps. A MIDI list is one command, so parsing it is dropping
the delta time. `seq` and `journal` are those of `Session`, but every event is stored under the number of its packet.
`JournalWrite` is the programs where `journal.write` is yes; the default is no, and then a journal stays empty and no packet has one. The theorems are
for any such set, the runs have it at yes everywhere, where there is something to see. A peer
that is not raveloxmidi may send delta times, the long form of the length, and acknowledges the highest number
it has received. The sessions form no cycle (`TreeAssumption`: each of them divides the rest, `Apart`): in a cycle of programs
commands circulate for ever, as nothing in the code marks them. Every side of a session has a SSRC of its own, not 0, which is
what raveloxmidi gives local commands (`SsrcAssumption`). A command has the data octets its record is made of, and 255 octets at
most (`CommandAssumption`): the length of a longer one, when B is not set, is read not as that of an empty list but of a list that begins
with its own second octet. `StrayAssumption` says of the packet of a session that is over that no connection has its SSRC. `MCWire` is the instance: two programs, one of which has another peer.

**`Session`.** `peer`, `used`, `seq`, `journal` are the fields of the slots of the table; the
queue thread's locals are `index, total, command, originator, packed, rtp` and `spc` is where
it stands in `midi_sender_send_single`; the main thread's are `slot` and `mpc`. The journal
is the set of the events since its last reset (with `journal.write` at no, `Journaled` is empty; the run has it at yes), which is what `Journal` shows it to be for
channels below 15 and notes that have a bit. A peer takes a new SSRC for every session, so a peer is a session. Packets a peer
has not received are simply never acknowledged; any packet it accepts may be
acknowledged now or later, out of order and more than once.

**`Connections`.** The slots `ctx` (up to `count`) are the table, without what `Session` models of
it. `mpc` is how far `main` has got; `spc`, `sslot` and `sssrc` are the sync thread with the
connection it found and the SSRC it read. The main thread handles a packet without
waiting for anyone, so a responder is one action: `Receive` is `net_socket_read`, and `Inv`,
`OkFirst`, `OkSecond`, `OkUnexpected` and `By` are the branches of the responders. A CK changes
nothing and its answer is the operator `CkReply`; the first CK, which goes out with the second OK, is part of
`OkSecond`, and `synced` records it like those of the sync thread. `PeerInvites` to `RemoteLeaves` are the two
kinds of peer: those that invite raveloxmidi, to its control port and, once accepted, to its data
port, and the one of `remote.connect`, which accepts or refuses. `net` holds the packets that
may still arrive: one that is never taken is lost, `again` leaves a double of one
that is. Tokens and random SSRCs are distinct, and a peer's token stands for its name.

**`Shutdown`.** `flag`, `pipe` and `closed` are `net_socket_shutdown` and the shutdown pipe; `polled`
and `revents` the listener's `poll_descriptors`; `holder` says who has `poll_descriptors_table_lock`,
the lock of the device's socket and `shutdown_lock`. `pc` is where `main`, the ALSA listener
and the sync thread are: the actions of `net_socket_fd_loop` are `SetFds` to `MainHandled`, those of
`raveloxmidi_alsa_listener` and `raveloxmidi_alsa_poll` are `ListenerStarts` to `Served`, those of
`net_socket_read` on the device, which both threads call, `ReadLock` to `Disable`. The end of
`main` is `JoinAlsa` to `JoinSync`. A signal handler runs on a thread that stands still meanwhile
(`hpc`, `hon`). Every `lock` is an action of its own wherever what follows can wait;
the locks of the main loop's own table, of the log and of sending are left out.
`SetFds` makes the main loop's table before each of its polls: the pipe comes first, and once the listener has started, which adds the pipe
with `net_socket_add`, a second time at the end (`twice`, and `"again"` in what `main` has left to look at); `main` drains it
for either entry. The listener takes the lock of its table twice after its poll, to look at the result and to log
it, with nothing between; `Classify` is both.

## 4. The runs

`tlc -config X.cfg M` for each; deadlock is checked where the system can always go on.

| Run | What it shows | Bounds, and why they are enough |
|---|---|---|
| `RingBuffer` | `Occupancy`: the indexes agree; `ImplementsFifo`: every operation is one of a FIFO | 4 cells, two byte values, chunks of 1-3: every relation of start, end and edge, every branch; no state constraint. The proofs lift it to all sizes |
| `DataQueue` | `ListShape`, `InOrderExactlyOnce`, `ReferenceExact`, `NoUseAfterFree`, `OnlyDroppedLeak`; liveness `EveryCommandSent`, `StopReturns` | two producers, three commands, two contexts: an empty, one-item and longer list, a context shared by two commands, releases racing, stop with items queued |
| `MidiState` | `EmittedInOrder`, `NothingWithheld`, `InStep`, in both modes | simple mode: up to 4 messages of every length class and packets of up to 4 bytes cut anywhere. RTP mode: up to 3 messages with delta times, packets of up to 9 bytes (two or three messages in one), reuse of the slot |
| `Journal` (module `JournalLayout`) | `EventsInJournal`, `NothingStale`, `ReadsAsPacked` | channels 0 and 14 (the ends of the field), notes 7 and 60, controller 7, 2 values, 3 events between resets, list of 2 notes (127 in the code): a full list, values overwritten, several resets, chapters left over from before one, off bits in octet 0 and beyond |
| `Session` | `Recoverable`, `SeqConsecutive`, `NotEchoed`, `ReachesActive` | 2 peers, 3 commands (2 of them journaled), acknowledgements modulo 4: slots reused, sequence numbers that wrap; peers, and journaled commands, are interchangeable (`MCSession`), and no property tells them apart |
| `Connections` | `BothSidesAgree`, `UniqueSsrc`, `EstablishedBothPorts`, `AnswersFromSession`, `SyncsRemote`, `ByeAtTheEnd` | 2 inviting peers (interchangeable, `MCConnections`) beside the invited one, 1 packet doubled: a slot freed and given to another while invitations, closings and the sync thread are under way. With one peer the run also passes with 3 doubled packets |
| `Shutdown` | `NobodySleepsOn`, `NoCircularWait`, `PollTableLive`; liveness `ShutsDownUnlessStuck` | one input, which may be unplugged, or none; QUIT until the flag is set, and one signal (a second would close the pipe twice) at any moment of each of the three threads |
| `Wire` | `ReceivedAsSent`, `NotBack`, `Acknowledged` | 2 programs and 1 peer in a row, so that the middle one forwards; 2 entered commands, one packet doubled, any number lost or overtaken; lists of 2, 3, 15 and 16 octets (16 is the first long one), a delta time or none, numbers that wrap at 65535, SSRCs that begin with the octets of a session packet, and a packet of a session that is over |

Four more runs each exhibit a disagreement of the code with its own comments or README;
they are the findings:

| Run | Property | What TLC finds |
|---|---|---|
| `MidiRtpRealTime` | `EmittedInOrder` | after a real-time message in a MIDI list, the delta time that follows is read as MIDI data |
| `SessionFeedback` | `DropsOnlyAcked` | a feedback responder that has read the sequence number loses the race with the sender and drops an event nobody acknowledged |
| `ShutdownUnplugged` | `QuitShutsDown` | the listener reads the device under the lock of its table; a read that fails with ENODEV locks that table again, so the listener waits for itself, and `main` for the listener |
| `WireLongList` | `AllReceivedAsSent` | a command of 16 octets or more gets the long form of the length but not the B flag that announces it: its reader takes it for an empty list |

**What `Journal` excuses, and why.** The run uses notes with a bit, and channels below 15. For a multiple of 8 a note off sets no
bit (`midi_journal.c:428`, a shift by -1): add one to `Note` and TLC finds `EventsInJournal` violated. For
channel 15, channel + 1 does not fit the 4-bit field, and its events are packed under channel 0. A note
counts as recovered by the bit the code sets for it. So what the run shows is that nothing *else* loses or
keeps an event. `channel_journal_reset` clears the header and chapters N and C but not chapter P, and keeps the channel: such a
channel is packed again, with a chapter P that its entry does not name. `NothingStale` goes by what the header
names, as a receiver must; `ReadsAsPacked` leaves out an entry with such a chapter P, which cannot be
read, and reads past an emptied chapter N by the length of its entry. The header announces as many channels as had events since the
reset (`totchan`), and a channel that is packed without any is not counted: the count is claimed only of
entries that name a chapter.

**What `Wire` excuses, and why.** `ReceivedAsSent` leaves out lists of more than 15 octets that a raveloxmidi program sends;
`WireLongList` is the same property without that exclusion. `Acknowledged` says that a FEEDBACK names what its sender has
received and resets no other connection's journal. It does not say that a journal is ever reset: the FEEDBACK of a raveloxmidi
program carries the SSRC of the packet it acknowledges, and another raveloxmidi looks for a connection by it and finds
none, so that between two such programs journals only grow. That is what the code does; nothing in the repository
says otherwise.

**What `Session` excuses, and why.** `Recoverable` does not speak of events dropped in the
race of `SessionFeedback` (`raced`), nor of sessions that accepted a packet which the queue
thread had begun to build for the slot's previous owner (`Stray`): such a packet carries
the new SSRC with an old sequence number, so its acknowledgement can reset a journal it
says nothing of. Both are real behaviours of the code; without either exclusion TLC finds
the property violated. `SeqConsecutive` leaves out stray packets for the same reason.

**What `Connections` excuses, and why.** `SyncsRemote` leaves out the CK of a sync thread whose slot
was closed and registered again during its wait: it reads `ctx->send_ssrc` and sends without
looking at the table again, so the new peer gets the CK. `EstablishedBothPorts` leaves out a
doubled OK: `applemidi_ok_responder` goes by the status, not by the port the OK came to, so
two OKs to the first invitation establish the connection. `ByeAtTheEnd` speaks of programs that
end: when the invitation was never accepted no sync thread exists, and `pthread_join` of it
(`JoinNoThread`) is the end of the process. `UniqueSsrc` needs what `Connections` assumes of its
runs, that the peer of `remote.connect` is none of the inviting ones; with `Remote` in `Peer` TLC
finds two slots with one SSRC. Without any one of these TLC finds a counterexample.
`BothSidesAgree` says nothing of a peer that has left: when its BY is read from the control socket before
its second INV from the data socket, that INV opens a connection that nobody ends, and takes the data
port for the control port (`applemidi_inv.c` assumes the latter).

**What `Shutdown` excuses, and why.** `NoCircularWait` and `ShutsDownUnlessStuck` leave out
`ServesUnplugged`, the listener that is about to read, under the lock of its table, a device that is gone: it then
waits for itself, or main holds the socket's lock and waits for the table's. `ShutdownUnplugged` is the same
property without that exclusion. A device that goes at any other moment is covered. In the passing run a
signal is delivered to the queue thread. The handler takes `shutdown_lock`: delivered to a thread that holds it
(add `"main"` to `Interrupted`), it waits for the thread it has interrupted, and TLC finds `NoCircularWait` violated; the repository's
`REVIEW_PASS.md` names this as RP-005. A crash counts as an end: when the signal comes
before `main` has started the listener, `raveloxmidi_wait_for_alsa` joins a thread that was never created
(`JoinNoListener`). `PollTableLive` leaves out `shutdown_lock`, which `net_socket_loop_teardown` destroys while
the sync thread may still have to take it (`misused`); glibc's mutex then only returns an error, which
nobody looks at, and the run shows that the threads end all the same.

Two more behaviours of `Session` are in the model without a property, as nothing in the repository
says otherwise. The queue thread adds events to slots that are not in use, and
`net_ctx_set` keeps a slot's journal and sequence number, so that a new peer's first
packets can carry the events of before it came. And the feedback value has 16
bits while `ctx->seq` has 32: after 65535 packets no feedback is great enough to reset the
journal, which from then on only grows.

**Fairness** is assumed in `DataQueue` and `Shutdown` (`FairSpec` of each). In `DataQueue` the handler, `Stop` and the join are
threads that the scheduler runs when they can run: weak fairness of each. A producer that
has begun a packet finishes it, as `midi_state_send` is a loop over the bytes in the ring:
weak fairness of adding, releasing and destroying. Nothing is assumed of packets arriving,
of spurious wake-ups, or of the main loop ending. Weak fairness is enough because mutexes are
held for a bounded time and every action stays enabled until it is taken. In `Shutdown` the steps of
each thread, and those of the handler, are strongly fair: `main` and the listener take the same locks again and
again, and a thread that finds a lock taken must get it some time. Nothing is assumed of timeouts (so nobody may
depend on one), of the device, of QUIT or of signals.

## 5. What is proved

`tlapm RingBufferProofs.tla` checks, for every `Size > 0`, every
set `Byte` that contains 0 and every `MaxWrite` (the three assumptions of `RingBuffer`):

- `RingInvariant`: `Spec => []RingInv`, with `RingInv == TypeOK /\ Occupancy`. It is its own
  strengthening: neither conjunct is inductive alone. `start + used` wraps to the right cell
  only because the indexes agree, and they agree only while they are in range.
  Because `read_byte` leaves `end` at `Size` when `start` wraps to 0, an empty
  ring has two forms; `Occupancy` names both.
- `RingTypeOK` and `RingOccupancy`: its two parts, which the run `RingBuffer` checks.
- `RingImplementsFifo`: `Spec => ImplementsFifo`. Under `RingInv` the contents are `used` bytes from
  `start`, wrapped. `StoredConcat` says that a copy behind them that leaves them alone
  appends, whichever of the three branches of the write made it; `StoredSkip` that
  moving `start` by k and reducing `used` by k drops k bytes. From these, one lemma per operation
  (`WriteRefines`, `ReadByteRefines`, `DrainRefines`, ...) maps it to the same operation of `ByteFifo`.

The first part of `WireProofs` is about `Packets`. It shows, from no assumption at all, for every value of every field:

- `SessionReadsBack`: a session packet of any kind is unpacked as it was packed: an INV, OK, NO or BY with any name or none
  (`ExchangeReadsBack`), a CK, a FEEDBACK, a BITRATE.
- `RtpReadsBack`: header and payload of an RTP packet.
- `ShortListReadsBack` and `LongListReadsBack`: a MIDI list of up to 15 octets with B clear, or of 16 to 4095 with B set,
  whatever stands in front of it and behind it (the journal).
- `LongListLost`: a list of 16 to 255 octets with B clear, as raveloxmidi sends it, is
  read as an empty one, and as valid: the finding of `WireLongList` for every such list.

The argument: a packet is a concatenation of parts of known length (`Sized`); `InFirst` and `InSecond` say where an octet of a
concatenation comes from; one lemma per width of integer says that it is read back from the first or from the second of
two parts, and each kind of packet is peeled from behind, part by part.

`tlapm WireProofs.tla` also checks the four invariants of the run `Wire`: `WireTypeOK`, `WireReceivedAsSent`, `WireNotBack` and
`WireAcknowledged`, for any programs and peers whose sessions form no cycle, any SSRCs that differ, any commands of up to 255
octets, any journal octets and any number of packets that are lost, doubled or reordered (the assumptions of `Wire`, section 3).
None of the last three is inductive: what a receiver makes of a packet was decided when its sender wrote the octets. They follow
from `WireInvariant`, `Spec => []WireInv`, whose parts are

- `Underway`: a packet on the network is the stray one or that of a connection. An RTP packet (`RtpFine`) is read as version 2 with the
  SSRC of its connection and the low 16 bits of its number, and its list as the command it was sent for, or as nothing when it is
  a long list of a raveloxmidi program (`ReadAs`). A FEEDBACK (`FeedbackFine`) carries the SSRC of one of the two sides of its
  connection and a number its sender has read. Where a packet is sent (`PacketFine`, `AnswerForm`), this is what the theorems
  about `Packets` say of its octets, journal and all (`RtpSent`, `ProgramSection`, `PeerSection`, `FeedbackSent`).
- `Behind(a, b, via)`, in every packet from b to a and in what a has queued: the programs and peers a command came through
  are all on the side of b when the session of a and b is taken away. A packet that is sent on keeps this, because the side it
  came from is part of the side of who sends it (`BehindNext`, the one step that needs `TreeAssumption`), and `NotBack` is part of
  it (`BehindNot`).
- `Queues`: a command waits with SSRC 0 or with that of the connection it came from (`Items`), so that leaving out the originator
  leaves out exactly that connection (`OneSsrc`).
- `Handings`: what was handed over has a number its sender has used, and reads as `Underway` said.
- `Journals` and `KeptUntilReceived`: the events of a journal are numbered up to the last packet. A FEEDBACK resets a journal only
  when the number it carries reaches `seq`; the low 16 bits of a number are never greater than the number (`Mod16`), so the packet
  it names is the last one, and every event of the journal is in it or before it.

`NumberedStays`, `RtpStays`, `FeedbackStays` and `HandedStays` say that no step takes back a number or what was handed over (`Grown`); there is
one lemma per action (`StepSend`, `StepReceiveRtp`, ...) on top of these.

`tlapm DataQueueProofs.tla` checks, for any finite sets of producers and commands and any set of contexts (the assumptions of
`DataQueue`: they are finite, disjoint, and without `NULL`), all six invariants of the run `DataQueue`: `QueueTypeOK`,
`QueueListShape`, `QueueInOrderExactlyOnce`, `QueueReferenceExact`, `QueueNoUseAfterFree`, `QueueOnlyDroppedLeak`. They follow from
`QueueInvariant`, `Spec => []QueueInv`, which adds to them what makes them inductive:

- `Control`: an item belongs to one thread at a time (two producers never add the same one, an item is *taken* only while it is
  in the handler's hand), and nobody produces once `midi_sender_stop` has begun. Without it a count could
  not be tied to its holders, nor could `data_queue_destroy` be known to find every producer gone.
- `Listed`: the items of the list are exactly those queued, each once; one that is not linked yet points
  nowhere. Writing through `bottom->next` therefore changes one link, and the links of the others stay.
- `Counted`: besides the exact counts, that a thread between its decrement to 0 and `data_context_destroy` is alone: the
  context is live, has no holder, and no other thread is there. It is why testing the count outside the lock is
  sound: a context can only be acquired by who parses its packet, and that thread holds it already.

One lemma per action and part (`AddListed`, `GetListed`, `ReleaseCounted`, ...); the actions that touch nothing of a part share
`ListUntouched` and `CountUntouched`.

`tlapm MidiStateProofs.tla` checks, for any set of well-formed messages, real-time bytes and delta times, any size of the ring and any
number of messages (the assumptions of `MidiState`), the four invariants of the run `MidiState`: `MidiTypeOK`, and under
`ListsWithoutRealTime` also `MidiEmittedInOrder`, `MidiNothingWithheld` and `MidiInStep`. `ListsWithoutRealTime` says that no
message of an RTP list is a real-time one; with one they are false, as the run `MidiRtpRealTime` shows, and it says
nothing of parsers in simple mode. They follow from `MidiInvariant`, `Spec => []MidiInv`. The three compare what the parser did with what the encoder did,
and between the two are bytes that one has put and the other has not read, so none of them is inductive. `MidiInv` says what those bytes are:

- A *point* (`Point`) is a place in the stream: the message that is open, how many bytes of it are to come, the bytes of a delta
  time before them, the encoder's running status and pending segment, and what was sent up to there. `Put` says which byte leads from a point to
  the next, `Begun` at which points a message begins.
- `Walk`: a sequence of points, one more than the bytes in the ring or the packet, each byte leading from one to the next. The encoder is at
  the last (`Current`), the parser at the first (`Match`): it has handed on exactly what was sent up to there, and its `status`, `hold`, `running_status` and
  `partial_sysex` are those of the point.
- `Turns`: only one of the two runs at a time, and a packet fits the ring.

Putting a byte adds a point at the end (`WalkExtends`), a message that begins replaces the last (`WalkBegins`), and reading a byte
takes off the first (`WalkReads`): there is one lemma for each way around the loop (`ReadsDelta`, `ReadsChannelStatus`, `ReadsRunning`, `ReadsSysExData`,
...), and `Reads` puts them together. At points between messages `Match` asks no more than the code keeps: after a real-time message or before
the first status byte `running_status` may be older than the encoder's.

`tlapm JournalProofs.tla` checks, for any channels of 0..15, notes and controllers of 0..127 and values, and any bounds, the
three invariants of `Journal`: `JournalTypeOK`, `JournalNothingStale`, `JournalEventsInJournal`. The first two follow from `JournalInv`, which
adds that the log has a last event of each kind (`HasLatest`): `LatestAppend` shows with it that appending an event changes the latest
of its own kind and of no other. The third holds under `Representable` (channels below 15, no note a multiple of 8), which
is where the code's fields have no room; it needs that the channels with a number are exactly those counted (`Complete`),
so that `totchan` cannot wrap, and where each event was entered.

It also checks that the octets of a journal of any size are read as they were packed, the fourth invariant of the run
(`JournalReadsAsPacked`), and more than the run asks: `JournalReadable` is about every sequence number, and about all 128 controllers
as long as no channel has logged them all. The hypotheses are the widths of the code's fields: channels below 15 (`Numberable`), a list of at
most 127 notes, which is `MAX_CHAPTER_N_NOTES` and the most that 7 bits of the header of chapter N can count, and at most 127
controllers on a channel, because `chapter_c_pack` counts 1 + 2n octets in a `uint8_t`. `JournalControllersLost` shows that the last one is
exact: of 128 controllers a receiver finds 128 logs of controller 0 with value 0.

- The invariant is `Filed`: a channel has a number exactly if its header names a chapter, a chapter it names is there, chapter C is named
  exactly if a controller is logged, and without chapter N there are no notes and no bits. With `Complete` it gives the count in the header
  (`NamedEntries`, a bijection between the entries that name a chapter and the channels that are counted).
- What an operator returns for a journal of any size needs induction over the numbers. `SetInduction` states it over sets instead of
  operators (a set with 0 that with a number holds the next holds them all) and follows from the cardinality of finite sets.
  With it `FlattenStands` finds each part of a concatenation (`FlattenSeq`) at the sum of the lengths before it, and `WalkFinds` that
  going from entry to entry by their lengths (`EntriesAt`) arrives at the same places. `AscendingOrder` is about `Ascending`.
- `Stands(s, i, e)` says that the octets e are found in s from octet i on. `ChapterPReads`, `ChapterCReads` and `ChapterNReads` say what a receiver
  reads where a chapter stands, `EntryOctets` where the chapters of an entry stand and what its header says, `EntryRead` puts
  them together for one entry and `JournalRead` for the journal.

`tlapm SessionProofs.tla` checks, for any finite set of peers, any commands of which any may be journaled, and any modulus of the
numbers that come back (the assumptions of `Session`), all five invariants of the run `Session`: `SessionTypeOK`, `SessionNotEchoed`,
`SessionReachesActive`, `SessionSeqConsecutive`, `SessionRecoverable`. They follow from `SessionInvariant`, `Spec => []SessionInv`.
None of the five but `TypeOK` speaks of the table, so the invariant adds:

- `Table`: a peer is in one slot at most, and a slot that is allocated has had a peer. Hence there is a slot for a peer that joins
  (`RoomLeft`, by counting), and two slots never send to one peer.
- `Loop`: the queue thread looks at a slot and goes on using it without the lock. The slot may have gone to another peer by then, but
  only to one that joined since: it cannot be the originator, and nothing was sent to it before. This is why the comparison
  at the top of the loop is enough.
- `Reach`: who is still to be reached is in a slot the loop has not passed.
- `Numbered`: `LastSeq` is the number of the last packet of a slot, one less than `seq` between raising it and sending. A session's
  packets have rising numbers up to it, and the number that was read is the next one, if the session is still there (`Prepared`).
- `Kept`: the event of each packet is known to its peer, or in the journal of the slot, or about to be added (`Journalled`); the journal
  that was packed has all but the known ones (`Packed`); when the feedback responder has decided on a reset, every event up to the
  number it read is known (`Resetting`). For that, the number acknowledged, taken modulo `SeqSize`, can only be as great as `seq` if it
  is the last one: a wrapped number is too small, and errs to the safe side.

`QuietStep` and `StillKnown` say what every step but `Send` leaves alone, `NewPacket` what `Send` adds; the lemmas
on each part (`StillJournalled`, `StillResetting`, `SendKept`, ...) rest on these.

`tlapm ShutdownProofs.tla` checks, for any number of signals (the assumptions of `Shutdown`), all four invariants of the run
`Shutdown`: `ShutdownTypeOK`, `ShutdownWakesAll`, `ShutdownPollTableLive`, and these for signals delivered to any of the
threads; `ShutdownNoCircularWait` for signals delivered to the queue thread, without which it is false (section 4). They follow from
`ShutdownInvariant`, `Spec => []ShutdownInv`, which says

- where each thread can be, and that it has descriptors left to look at only while it handles them (`Places`). With it, the
  order in which `main` looks at them: when it reads QUIT, only the device and the pipe's second entry can be left;
- who holds a lock is at a place where it is held (`Held`). The listener has the lock of the poll table whenever it reads a device, so it never gets
  to disable one;
- a byte in the pipe while `main` can still poll is the handler's, which is about to close the pipe (`Filled`), so
  `main` drains the pipe, for either entry, only when it is closed or about to be (`Drained`);
- the flag, once set, is followed by a byte in the pipe that stays there, or by closing it (`Woken`), and `main` writes one
  such byte in all (`Counted`, by `MayQuit`), which bounds the pipe;
- a lock is destroyed when `main` is past its loop, that of the table after the listener has ended (`Gone`).

For `NoCircularWait`, `WaitsOnce` shows that a thread only ever waits for one that waits for nobody, so chains are no longer
than one, or two when `main` joins a thread (`JoinedHoldsNothing`). The run looks at chains of up to three.

`tlapm ConnectionsProofs.tla` checks all seven invariants of the run `Connections`, for any finite set of inviting peers and any
number of doubled packets. What it assumes is `DistinctAssumption`, with `Remote` none of the inviting peers (section 4). The theorems
follow from `ConnectionsInvariant`, `Spec => []ConnInv`, whose parts are

- `OnTheWay`: what the packets carry. What peers send has their SSRC and token; what goes to `Remote` is an invitation of the
  connection in slot 0.
- `Slots`: a slot says whose it is or was; raveloxmidi's own connection is in the first or nowhere. `Single`: a token is in the table
  once. Used slots are then no more than there are tokens, so there is room for one more peer (`RoomLeft`), the one step that
  needs counting.
- `Inviting`, of every peer that has not left: once invited it has a slot, nobody else gets that slot, and every OK on its way comes from there. A
  peer that has left is exempt, for the reason in section 4: its second INV may be read after its BY.
- `Invited`: `Remote` is invited only while raveloxmidi's connection is in the table, and closes that only after it has left, so
  the SSRC it knows is that of the slot.
- `InTurn`: while no OK was doubled, an invitation to the control port, its OK, the invitation to the data port and its OK follow each
  other, and the status of the slot says which is under way.
- `Syncing` and `Ending`: what the sync thread found in the table is that slot, whoever closes it meanwhile, until it is given to
  another; at the end BY was sent, or the slot is closed.

For the proof `Next` is split by what its steps touch: those of the peers (`PeersDo`), those that leave the table alone
(`QuietDoes`), and the responders (`InvDoes` and the like), each with the part of the invariant it disturbs.

Every invariant and action property of the runs is the property of a theorem; what is model-checked only, for the bounds above, is
liveness (`EveryCommandSent`, `StopReturns`, `ShutsDownUnlessStuck`) and the runs that expect a violation. Liveness under fairness and ENABLED are
outside what the prover can do and stay with TLC. The library's theorems on induction cannot be used, as they take an
operator as their parameter; where induction over numbers is needed, `SetInduction` stands in for them.

## 6. What is not modelled

- Of the parser: an unpaired F7 in the stream. The code compares with an enumerator of value 13, so such a byte becomes
  the running status, against the comment at `midi_state.c:357`; the encoder of `MidiState` sends well-formed MIDI.
- Of the parser: time code, song position and song select, F1 to F3. `midi_message_map` gives them one, two and one data bytes
  (`midi_command.c:42-44`), but `midi_state.c:361` looks up `byte & 0xF0`, which is F0 and takes none: they are handed on without
  their data, and the data then counts as running status data of an F1 to F3. The encoder leaves them out.
- Of the journal and the records: their unpack functions and the record packers, which have no caller, and the checkpoint
  of a received journal: raveloxmidi skips the journal of a packet it receives.
- Of the sender: writing to the MIDI file and to ALSA.
- Of the table: the text of the LIST answer, and that the array may move while the queue thread reads it.
- Of ALSA and the sockets: opening, naming and writing to them; the heartbeat answer.
- Avahi, configuration, logging and daemonising: library behaviour, tables read once at start-up, or plain I/O. The lock of
  the log matters to the signal handler (see the hazards) and is left out of `Shutdown`.
