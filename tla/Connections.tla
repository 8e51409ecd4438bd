----------------------------- MODULE Connections -----------------------------
(***************************************************************************)
(* How sessions are opened, kept and closed: the responders for INV, OK,   *)
(* BY and CK on the main thread (applemidi_*.c), the connection            *)
(* raveloxmidi opens itself with its sync thread (remote_connection.c),    *)
(* and the connection table they share (net_connection.c).                 *)
(*                                                                         *)
(* The peers are the environment.  Each of Peer invites raveloxmidi, first *)
(* to its control port and then to its data port, with an initiator token  *)
(* of its own; Remote is the service named in remote.connect.  A packet    *)
(* may be lost, overtaken or doubled.  The main thread handles one packet  *)
(* at a time and no section of it waits, so a responder is one action; the *)
(* sync thread holds what it read from the table between two of its        *)
(* actions.  Random numbers are distinct and allocation does not fail.     *)
(* Timestamps, which are only logged, are left out.                        *)
(***************************************************************************)
EXTENDS Integers, FiniteSets

CONSTANTS Peer,    \* the peers that invite raveloxmidi: SSRC, initiator, name
          Remote,  \* the peer raveloxmidi invites: its SSRC and name
          Us,      \* raveloxmidi, and the initiator token it draws
          NONE,    \* no SSRC yet
          MaxDoubles  \* bound: the packets that are doubled on their way

ASSUME PeerAssumption == IsFiniteSet(Peer) /\ MaxDoubles \in Nat
ASSUME DistinctAssumption ==
    /\ Remote \notin Peer
    /\ Us \notin Peer \cup {Remote}
    /\ NONE \notin Peer \cup {Remote, Us}
    /\ (Peer \cup {Remote, Us, NONE}) \cap Nat = {}

VARIABLES
    count,          \* connections->count
    ctx,            \* the slots of the table
    drawn,          \* how many SSRCs raveloxmidi has drawn: the next is drawn + 1
    mpc,            \* how far main has got
    spc,            \* what the sync thread is doing
    sslot, sssrc,   \* the connection it found, and the SSRC it read from it
    net,            \* the packets on their way
    pstate, pssrc,  \* each inviting peer, and the SSRC it was given in an OK
    rstate, rssrc,  \* the invited peer, and the SSRC it was given in the INV
    told,           \* history: the SSRC in the BY sent at the end
    synced,         \* history: the last CK sent to the invited peer
    reused,         \* history: the slot it found was registered again meanwhile
    doubles,        \* how many packets have been doubled
    doubled         \* history: an OK was doubled

table  == <<count, ctx, drawn>>
sync   == <<spc, sslot, sssrc>>
double == <<doubles, doubled>>
peers  == <<pstate, pssrc, rstate, rssrc>>
vars   == <<count, ctx, drawn, mpc, spc, sslot, sssrc, net, pstate, pssrc,
            rstate, rssrc, told, synced, reused, doubles, doubled>>

Slot == 0..Cardinality(Peer)
Port == {"control", "data"}

Status == {"UNUSED", "IDLE", "FIRST_INV", "SECOND_INV", "REMOTE_CONNECTION"}

\* A packet.  Its port is the port of the peer it comes from or goes to.
Packet(type, from, to, port, ssrc, initiator) ==
    [type |-> type, from |-> from, to |-> to, port |-> port, ssrc |-> ssrc,
     initiator |-> initiator]

\* net_ctx_init; a slot from count on is not allocated yet.
Init ==
    /\ count = 0
    /\ ctx = [s \in Slot |-> [status |-> "UNUSED", ssrc |-> NONE, initiator |-> NONE,
                              send |-> 0, host |-> NONE, control |-> "control"]]
    /\ drawn = 0
    /\ mpc = "start"
    /\ spc = "off"
    /\ sslot = 0
    /\ sssrc = 0
    /\ net = {}
    /\ pstate = [p \in Peer |-> "out"]
    /\ pssrc = [p \in Peer |-> 0]
    /\ rstate = "out"
    /\ rssrc = 0
    /\ told = 0
    /\ synced = NONE
    /\ reused = FALSE
    /\ doubles = 0
    /\ doubled = FALSE

-----------------------------------------------------------------------------
\* The table.

Used(s) == s < count /\ ctx[s].status # "UNUSED"

First(S) == CHOOSE s \in S : \A t \in S : s <= t

\* net_ctx_find_by_ssrc, _by_initiator, _by_name: the first slot is the one found.
FindBySsrc(x)      == {s \in Slot : Used(s) /\ ctx[s].ssrc = x}
FindByInitiator(i) == {s \in Slot : Used(s) /\ ctx[s].initiator = i}
NameOf(s)          == IF ctx[s].initiator = Us THEN Remote ELSE ctx[s].initiator
FindByName(name)   == {s \in Slot : Used(s) /\ NameOf(s) = name}

\* net_ctx_register for an SSRC that is not in the table: net_ctx_find_unused or
\* net_ctx_create, and net_ctx_set.  One slip takes the last slot looked at when
\* none is unused, the other never looks for one.
FreeSlotLast ==
    LET unused == {s \in 0..count - 1 : ~ Used(s)}
    IN  IF count = 0 THEN 0 ELSE IF unused = {} THEN count - 1 ELSE First(unused)

FreeSlotNew == count

FreeSlot ==
    LET unused == {s \in 0..count - 1 : ~ Used(s)}
    IN  IF unused = {} THEN count ELSE First(unused)

\* data_table_add_item: no item is ever deleted, so one that is not in the table
\* makes it longer.
AddItem(s) == count' = IF s = count THEN count + 1 ELSE count

Register(s, fields) ==
    /\ ctx' = [ctx EXCEPT ![s] = fields]
    /\ AddItem(s)
    /\ drawn' = drawn + 1
    /\ reused' = (reused \/ (spc \in {"wait", "send"} /\ s = sslot))

\* net_ctx_send: the data port of a connection is the one above its control port.
DataPort(s) == IF ctx[s].control = "control" THEN "data" ELSE "above data"

ToPeer(s, type, port) ==
    IF Used(s) THEN {Packet(type, Us, ctx[s].host, port, ctx[s].send, ctx[s].initiator)} ELSE {}

-----------------------------------------------------------------------------
\* main up to its loop, with remote.connect set: remote_connect_init.  The SSRC
\* it draws is its own: the connection has no other until an OK brings one.
RemoteConnectInit ==
    /\ mpc = "start"
    /\ Register(0, [status |-> "FIRST_INV", ssrc |-> drawn + 1, initiator |-> Us,
                    send |-> drawn + 1, host |-> Remote, control |-> "control"])
    /\ net' = net \cup {Packet("INV", Us, Remote, "control", drawn + 1, Us)}
    /\ mpc' = "loop"
    /\ UNCHANGED <<sync, peers, told, synced, double>>

\* No service of that name is found, or no port is given with an address.
RemoteNotFound ==
    /\ mpc = "start"
    /\ mpc' = "loop"
    /\ UNCHANGED <<table, sync, net, peers, told, synced, reused, double>>

\* net_socket_read takes the packet m; again says that a double of it is still
\* on its way.
Receive(m, type, again, sent) ==
    /\ mpc \in {"loop", "quitting"}
    /\ m.to = Us
    /\ m.type = type
    /\ net' = (IF again THEN net ELSE net \ {m}) \cup sent
    /\ again => doubles < MaxDoubles
    /\ doubles' = IF again THEN doubles + 1 ELSE doubles
    /\ doubled' = (doubled \/ (again /\ type = "OK"))
    /\ UNCHANGED <<mpc, peers, told>>

\* applemidi_inv_responder.  The slip registers whoever invites.
InvAlwaysRegisters(m, again) ==
    LET s == FreeSlot
    IN  /\ s \in Slot
        /\ Receive(m, "INV", again, {Packet("OK", Us, m.from, m.port, drawn + 1, m.initiator)})
        /\ Register(s, [status |-> "IDLE", ssrc |-> m.ssrc, initiator |-> m.initiator,
                        send |-> drawn + 1, host |-> m.from, control |-> m.port])
        /\ UNCHANGED <<sync, synced>>

Inv(m, again) ==
    LET known == FindBySsrc(m.ssrc)
        s     == IF known = {} THEN FreeSlot ELSE First(known)
        ours  == IF known = {} THEN drawn + 1 ELSE ctx[s].send
        token == IF known = {} THEN m.initiator ELSE ctx[s].initiator
    IN  /\ Receive(m, "INV", again, {Packet("OK", Us, m.from, m.port, ours, token)})
        /\ IF known = {}
           THEN Register(s, [status |-> "IDLE", ssrc |-> m.ssrc, initiator |-> m.initiator,
                             send |-> ours, host |-> m.from, control |-> m.port])
           ELSE UNCHANGED <<table, reused>>
        /\ UNCHANGED <<sync, synced>>

\* applemidi_ok_responder, by the status of the connection with that token.
OkUnexpected(m, again) ==
    /\ \A s \in FindByInitiator(m.initiator) :
         s = First(FindByInitiator(m.initiator)) => ctx[s].status \notin {"FIRST_INV", "SECOND_INV"}
    /\ Receive(m, "OK", again, {})
    /\ UNCHANGED <<table, sync, synced, reused>>

\* The slip does not invite to the data port but counts the connection as made.
OkFirstIsEnough(m, again) ==
    \E s \in FindByInitiator(m.initiator) :
        /\ s = First(FindByInitiator(m.initiator))
        /\ ctx[s].status = "FIRST_INV"
        /\ Receive(m, "OK", again, {})
        /\ ctx' = [ctx EXCEPT ![s].ssrc = m.ssrc, ![s].status = "REMOTE_CONNECTION"]
        /\ spc' = "find"
        /\ UNCHANGED <<count, drawn, sslot, sssrc, synced, reused>>

OkFirst(m, again) ==
    \E s \in FindByInitiator(m.initiator) :
        /\ s = First(FindByInitiator(m.initiator))
        /\ ctx[s].status = "FIRST_INV"
        /\ Receive(m, "OK", again, ToPeer(s, "INV", DataPort(s)))
        /\ ctx' = [ctx EXCEPT ![s].ssrc = m.ssrc, ![s].status = "SECOND_INV"]
        /\ UNCHANGED <<count, drawn, sync, synced, reused>>

\* The first CK goes out at once, to the control port.
OkSecond(m, again) ==
    \E s \in FindByInitiator(m.initiator) :
        /\ s = First(FindByInitiator(m.initiator))
        /\ ctx[s].status = "SECOND_INV"
        /\ Receive(m, "OK", again, {})
        /\ ctx' = [ctx EXCEPT ![s].status = "REMOTE_CONNECTION"]
        /\ synced' = [to |-> ctx[s].host, ssrc |-> ctx[s].send, raced |-> FALSE]
        /\ spc' = "find"
        /\ UNCHANGED <<count, drawn, sslot, sssrc, reused>>

\* applemidi_by_responder: net_ctx_reset, which leaves SSRC and token in the slot.
By(m, again) ==
    /\ Receive(m, "BY", again, {})
    /\ ctx' = IF FindBySsrc(m.ssrc) = {} THEN ctx
              ELSE [ctx EXCEPT ![First(FindBySsrc(m.ssrc))].status = "UNUSED"]
    /\ UNCHANGED <<count, drawn, sync, synced, reused>>

\* applemidi_sync_responder, which changes nothing: CK 0 is answered with 1, 1 with
\* 2, and 2 is the end.  The slip answers with the SSRC it was sent.
CkReplyEcho(x, n) ==
    IF FindBySsrc(x) = {} \/ n = 2 THEN NONE
    ELSE [ssrc |-> x, n |-> IF n < 2 THEN n + 1 ELSE 0]

CkReply(x, n) ==
    IF FindBySsrc(x) = {} \/ n = 2 THEN NONE
    ELSE [ssrc |-> ctx[First(FindBySsrc(x))].send, n |-> IF n < 2 THEN n + 1 ELSE 0]

\* QUIT sets the shutdown flag; the sockets after it are still read before the loop
\* ends and main comes to remote_connect_teardown.
Quit ==
    /\ mpc = "loop"
    /\ mpc' = "quitting"
    /\ UNCHANGED <<table, sync, net, peers, told, synced, reused, double>>

LoopEnds ==
    /\ mpc = "quitting"
    /\ mpc' = "joining"
    /\ UNCHANGED <<table, sync, net, peers, told, synced, reused, double>>

\* remote_connect_wait_for_thread, and BY to the connection of that name.  The
\* slip puts the peer's SSRC into it.
TeardownTheirs ==
    /\ mpc = "joining"
    /\ spc = "ended"
    /\ mpc' = "ended"
    /\ IF FindByName(Remote) = {}
       THEN UNCHANGED told
       ELSE LET s == First(FindByName(Remote))
            IN  told' = ctx[s].ssrc
    /\ UNCHANGED <<table, sync, net, peers, synced, reused, double>>

Teardown ==
    /\ mpc = "joining"
    /\ spc = "ended"
    /\ mpc' = "ended"
    /\ IF FindByName(Remote) = {}
       THEN UNCHANGED told
       ELSE LET s == First(FindByName(Remote))
            IN  told' = ctx[s].send
    /\ UNCHANGED <<table, sync, net, peers, synced, reused, double>>

\* The handle joined is that of no thread when none was started: pthread_join
\* reads through a null pointer.
JoinNoThread ==
    /\ mpc = "joining"
    /\ spc = "off"
    /\ mpc' = "crashed"
    /\ UNCHANGED <<table, sync, net, peers, told, synced, reused, double>>

-----------------------------------------------------------------------------
\* remote_connect_sync_thread.

\* The top of its loop: net_ctx_find_by_name, and the wait for the interval.  The
\* slip looks the connection up once.
SyncFindOnce ==
    /\ spc = "find"
    /\ IF sssrc = 0 /\ FindByName(Remote) = {}
       THEN spc' = "ended" /\ UNCHANGED sslot
       ELSE spc' = "wait" /\ sslot' = IF sssrc = 0 THEN First(FindByName(Remote)) ELSE sslot
    /\ reused' = FALSE
    /\ UNCHANGED <<table, mpc, sssrc, net, peers, told, synced, double>>

SyncFind ==
    /\ spc = "find"
    /\ IF FindByName(Remote) = {}
       THEN spc' = "ended" /\ UNCHANGED sslot
       ELSE spc' = "wait" /\ sslot' = First(FindByName(Remote))
    /\ reused' = FALSE
    /\ UNCHANGED <<table, mpc, sssrc, net, peers, told, synced, double>>

\* The wait is over: ctx->send_ssrc is read without the lock, of whatever the
\* slot holds by now.
SyncWake ==
    /\ spc = "wait"
    /\ IF mpc = "loop"
       THEN spc' = "send" /\ sssrc' = ctx[sslot].send
       ELSE spc' = "ended" /\ UNCHANGED sssrc
    /\ UNCHANGED <<table, mpc, sslot, net, peers, told, synced, reused, double>>

SyncSend ==
    /\ spc = "send"
    /\ synced' = IF Used(sslot) THEN [to |-> ctx[sslot].host, ssrc |-> sssrc, raced |-> reused]
               ELSE synced
    /\ spc' = "find"
    /\ UNCHANGED <<table, mpc, sslot, sssrc, net, peers, told, double, reused>>

-----------------------------------------------------------------------------
\* The network and the peers.

Environment == UNCHANGED <<table, mpc, sync, told, synced, reused, double>>

PeerInvites(p) ==
    /\ pstate[p] = "out"
    /\ pstate' = [pstate EXCEPT ![p] = "invited"]
    /\ net' = net \cup {Packet("INV", p, Us, "control", p, p)}
    /\ UNCHANGED <<pssrc, rstate, rssrc>>
    /\ Environment

\* The OK to its first invitation makes it send the second, to the data port.
PeerAccepted(p, m) ==
    /\ m.type = "OK" /\ m.to = p
    /\ \/ /\ pstate[p] = "invited" /\ m.port = "control"
          /\ pstate' = [pstate EXCEPT ![p] = "half"]
          /\ pssrc' = [pssrc EXCEPT ![p] = m.ssrc]
          /\ net' = (net \ {m}) \cup {Packet("INV", p, Us, "data", p, p)}
       \/ /\ pstate[p] = "half" /\ m.port = "data"
          /\ pstate' = [pstate EXCEPT ![p] = "in"]
          /\ net' = net \ {m}
          /\ UNCHANGED pssrc
       \/ /\ <<pstate[p], m.port>> \notin {<<"invited", "control">>, <<"half", "data">>}
          /\ net' = net \ {m}
          /\ UNCHANGED <<pstate, pssrc>>
    /\ UNCHANGED <<rstate, rssrc>>
    /\ Environment

PeerLeaves(p) ==
    /\ pstate[p] \in {"half", "in"}
    /\ pstate' = [pstate EXCEPT ![p] = "left"]
    /\ net' = net \cup {Packet("BY", p, Us, "control", p, p)}
    /\ UNCHANGED <<pssrc, rstate, rssrc>>
    /\ Environment

RemoteAccepts(m) ==
    /\ m.type = "INV" /\ m.to = Remote
    /\ rstate # "left"
    /\ rstate' = IF m.port = "data" THEN "in" ELSE IF rstate = "out" THEN "half" ELSE rstate
    /\ rssrc' = m.ssrc
    /\ net' = (net \ {m}) \cup {Packet("OK", Remote, Us, m.port, Remote, m.initiator)}
    /\ UNCHANGED <<pstate, pssrc>>
    /\ Environment

\* NO, which raveloxmidi only logs.
RemoteRefuses(m) ==
    /\ m.type = "INV" /\ m.to = Remote
    /\ net' = net \ {m}
    /\ rstate' = "left"
    /\ UNCHANGED <<pstate, pssrc, rssrc>>
    /\ Environment

RemoteLeaves ==
    /\ rstate = "in"
    /\ rstate' = "left"
    /\ net' = net \cup {Packet("BY", Remote, Us, "control", Remote, Us)}
    /\ UNCHANGED <<pstate, pssrc, rssrc>>
    /\ Environment

-----------------------------------------------------------------------------
Respond(m, again) ==
    \/ Inv(m, again)
    \/ OkUnexpected(m, again)
    \/ OkFirst(m, again)
    \/ OkSecond(m, again)
    \/ By(m, again)

Main == RemoteConnectInit \/ RemoteNotFound \/ Quit \/ LoopEnds \/ Teardown \/ JoinNoThread
Sync == SyncFind \/ SyncWake \/ SyncSend

Answer(m) ==
    \/ \E p \in Peer : PeerAccepted(p, m)
    \/ RemoteAccepts(m)

Next ==
    \/ Main
    \/ \E m \in net, again \in BOOLEAN : Respond(m, again)
    \/ Sync
    \/ \E m \in net : Answer(m) \/ RemoteRefuses(m)
    \/ \E p \in Peer : PeerInvites(p) \/ PeerLeaves(p)
    \/ RemoteLeaves

Spec == Init /\ [][Next]_vars

-----------------------------------------------------------------------------
Ssrc == Peer \cup {Remote, NONE} \cup Nat

TypeOK ==
    /\ count \in 0..Cardinality(Peer) + 1
    /\ ctx \in [Slot -> [status : Status, ssrc : Ssrc, initiator : Peer \cup {Us, NONE},
                         send : Nat, host : Peer \cup {Remote, NONE}, control : Port]]
    /\ drawn \in Nat
    /\ mpc \in {"start", "loop", "quitting", "joining", "ended", "crashed"}
    /\ spc \in {"off", "find", "wait", "send", "ended"}
    /\ sslot \in Slot
    /\ sssrc \in Nat
    /\ pstate \in [Peer -> {"out", "invited", "half", "in", "left"}]
    /\ pssrc \in [Peer -> Nat]
    /\ rstate \in {"out", "half", "in", "left"}
    /\ rssrc \in Nat
    /\ told \in Nat
    /\ synced \in [to : Peer \cup {Remote}, ssrc : Nat, raced : BOOLEAN] \cup {NONE}
    /\ reused \in BOOLEAN
    /\ doubles \in 0..MaxDoubles
    /\ doubled \in BOOLEAN

\* A peer that has an OK to both its invitations and has not left is in the
\* table, under its SSRC and with both its ports, and the SSRC it was given is the one
\* raveloxmidi sends with: whatever invitations, closings and openings of
\* others came in between.
BothSidesAgree ==
    \A p \in Peer : pstate[p] = "in" =>
        \E s \in Slot : /\ Used(s)
                        /\ ctx[s].ssrc = p /\ ctx[s].host = p /\ ctx[s].initiator = p
                        /\ ctx[s].control = "control"
                        /\ ctx[s].send = pssrc[p]

\* The SSRC identifies a connection: "It is recommended that you use the *ssrc*
\* field as the uniq identifier for the connection" (README), and it is what INV,
\* BY, FEEDBACK, CK and RTP packets are matched by.  It holds as long as the peer of
\* remote.connect does not itself invite raveloxmidi under the SSRC of its OK:
\* applemidi_ok_responder takes over any SSRC without looking for it.
UniqueSsrc ==
    \A s, t \in Slot : Used(s) /\ Used(t) /\ ctx[s].ssrc = ctx[t].ssrc => s = t

\* The connection raveloxmidi opens counts as established only when the peer has
\* accepted it on both ports, under the SSRC it was invited with, unless an OK
\* was doubled on its way: the responder does not look at the port it came to.
EstablishedBothPorts ==
    \A s \in Slot : Used(s) /\ ctx[s].status = "REMOTE_CONNECTION" /\ ~ doubled =>
        rstate \in {"in", "left"} /\ ctx[s].ssrc = Remote /\ ctx[s].send = rssrc

\* What answers a peer in a session carries the SSRC it knows raveloxmidi by: the
\* OK to a doubled or late invitation, and the answer to a CK.
AnswersFromSession ==
    \A p \in Peer : pstate[p] = "in" =>
        /\ \A m \in net : m.type = "OK" /\ m.to = p => m.ssrc = pssrc[p]
        /\ CkReply(p, 0) = [ssrc |-> pssrc[p], n |-> 1]

\* The CK, the first and those of the sync thread, goes to the peer of remote.connect, with
\* the SSRC that peer knows, although the thread reads the table without a lock around a long wait:
\* unless the slot was given to another while it held it.
SyncsRemote ==
    synced = NONE \/ synced.raced \/ (synced.to = Remote /\ synced.ssrc = rssrc)

\* When main has ended, the peer of the connection raveloxmidi opened that has
\* accepted both invitations and has not left has been sent BY with the SSRC it knows.
\* (Where the sync thread was never started, main does not get there: JoinNoThread.)
ByeAtTheEnd ==
    mpc = "ended" /\ rstate = "in" => told = rssrc
=============================================================================
