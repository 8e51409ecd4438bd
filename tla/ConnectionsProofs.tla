-------------------------- MODULE ConnectionsProofs -------------------------
(***************************************************************************)
(* The connection table, for any number of inviting peers and of doubled   *)
(* packets: every SSRC is in it once, the peers of a session and           *)
(* raveloxmidi agree on their SSRCs, and so do the sync thread and the BY  *)
(* at the end.                                                             *)
(***************************************************************************)
EXTENDS Connections, TLAPS, FiniteSetTheorems, FunctionTheorems, WellFoundedInduction

-----------------------------------------------------------------------------
\* The rest of TypeOK, and the packets there can be: INV and BY of a peer carry its SSRC
\* and token, all that goes to Remote is an INV of the connection in slot 0.
Ranges ==
    /\ count \in 0..Cardinality(Peer) + 1 /\ drawn \in Nat
    /\ mpc \in {"start", "loop", "quitting", "joining", "ended", "crashed"}
    /\ spc \in {"off", "find", "wait", "send", "ended"}
    /\ sslot \in Slot /\ sssrc \in Nat
    /\ pstate \in [Peer -> {"out", "invited", "half", "in", "left"}] /\ pssrc \in [Peer -> Nat]
    /\ rstate \in {"out", "half", "in", "left"} /\ rssrc \in {0, 1}
    /\ told \in {0, 1}
    /\ reused \in BOOLEAN /\ doubled \in BOOLEAN
    /\ doubles \in 0..MaxDoubles

FromPeer(m)   == m.from \in Peer /\ m.type \in {"INV", "BY"} /\ m.ssrc = m.from /\ m.initiator = m.from
FromRemote(m) == m.from = Remote /\ m.type \in {"OK", "BY"} /\ m.ssrc = Remote /\ m.initiator = Us

OnTheWay ==
    \A m \in net :
        /\ m = Packet(m.type, m.from, m.to, m.port, m.ssrc, m.initiator) /\ m.port \in Port
        /\ \/ m.to = Us /\ (FromPeer(m) \/ FromRemote(m))
           \/ m.to = Remote /\ m.from = Us /\ m.type = "INV" /\ m.ssrc = 1 /\ m.initiator = Us
           \/ m.to \in Peer /\ m.from = Us /\ m.type = "OK" /\ m.ssrc \in Nat

\* A slot says whose it is or was.  That of raveloxmidi's own connection is the first, with the first
\* SSRC drawn.
Fields == [status : Status, ssrc : Ssrc, initiator : Peer \cup {Us, NONE},
           send : Nat, host : Peer \cup {Remote, NONE}, control : Port]

OfPeer(c) == c.ssrc = c.initiator /\ c.host = c.initiator /\ c.status \in {"IDLE", "UNUSED"}
Own(c) ==
    /\ c.host = Remote /\ c.control = "control" /\ c.send = 1
    /\ c.status \in {"FIRST_INV", "SECOND_INV", "REMOTE_CONNECTION", "UNUSED"}
    /\ c.ssrc \in {1, Remote}
    /\ c.status \in {"SECOND_INV", "REMOTE_CONNECTION"} => c.ssrc = Remote

Slots ==
    /\ ctx \in [Slot -> Fields]
    /\ \A s \in Slot : /\ ctx[s].initiator = NONE => ctx[s].status = "UNUSED"
                       /\ ctx[s].initiator \in Peer => OfPeer(ctx[s])
                       /\ ctx[s].initiator = Us => s = 0 /\ Own(ctx[s])
    /\ mpc = "start" => count = 0 /\ drawn = 0

\* A token is in the table once.
Single == \A s, t \in Slot : Used(s) /\ Used(t) /\ ctx[s].initiator = ctx[t].initiator => s = t

\* The slots of a peer.
Of(p) == {s \in Slot : Used(s) /\ ctx[s].initiator = p}

\* Until a peer leaves, the slot it got by its first invitation is its own, and every OK on
\* its way to it comes from there.
Member(p) ==
    /\ \A m \in net : m.from = p => m.type = "INV"
    /\ pstate[p] = "out" => Of(p) = {} /\ \A m \in net : m.from # p
    /\ pstate[p] = "invited" => \A m \in net : m.from = p => m.port = "control"
    /\ \A s \in Of(p) : ctx[s].control = "control"
    /\ \A m \in net : m.to = p => \E s \in Of(p) : ctx[s].send = m.ssrc
    /\ pstate[p] \in {"half", "in"} => \E s \in Of(p) : ctx[s].send = pssrc[p]

Inviting == \A p \in Peer : pstate[p] = "left" \/ Member(p)

\* The connection raveloxmidi opens, as long as it is in the table.
Ours == Used(0) /\ ctx[0].initiator = Us

InvTo(port)  == \E m \in net : m.to = Remote /\ m.port = port
OkFrom(port) == \E m \in net : m.to = Us /\ m.type = "OK" /\ m.port = port

\* Remote takes the SSRC of the invitation, before any OK.  It is invited only while the connection
\* is in the table, and closes that only once it has left.
Invited ==
    /\ mpc = "start" => rstate = "out" /\ \A m \in net : m.from \in Peer
    /\ rstate \in {"half", "in"} \/ (\E port \in Port : OkFrom(port)) \/ spc # "off" => rssrc = 1
    /\ Ours /\ ctx[0].status \in {"SECOND_INV", "REMOTE_CONNECTION"} => rssrc = 1
    /\ \A m \in net : m.from = Remote /\ m.type = "BY" => rstate = "left"
    /\ ~Ours /\ rstate # "left" => rstate = "out" /\ \A m \in net : m.to # Remote

\* As long as no OK was doubled, the invitations and their answers follow each other.
InTurn ==
    ~doubled /\ Ours =>
        /\ ctx[0].status = "FIRST_INV" => /\ ~InvTo("data") /\ ~OkFrom("data")
                                          /\ ~(InvTo("control") /\ OkFrom("control"))
        /\ ctx[0].status = "SECOND_INV" => /\ ~InvTo("control") /\ ~OkFrom("control")
                                           /\ OkFrom("data") => rstate \in {"in", "left"}
        /\ ctx[0].status = "REMOTE_CONNECTION" => rstate \in {"in", "left"}

\* What the sync thread found is raveloxmidi's own slot, whoever closes it, until it is given
\* to another.
Syncing ==
    /\ spc \in {"wait", "send"} /\ ~reused => ctx[sslot].initiator = Us
    /\ spc = "send" /\ ~reused => sssrc = 1
    /\ synced \in [to : Peer \cup {Remote}, ssrc : Nat, raced : BOOLEAN] \cup {NONE}
    /\ synced # NONE => spc # "off" /\ (synced.raced \/ (synced.to = Remote /\ synced.ssrc = 1))

\* BY has been sent, unless the connection is gone.
Ending == mpc = "ended" => told = 1 \/ ~Ours

\* The inductive invariant.
ConnInv ==
    /\ Ranges /\ OnTheWay /\ Slots /\ Single /\ Inviting
    /\ Invited /\ InTurn /\ Syncing /\ Ending

-----------------------------------------------------------------------------
\* The fields of a packet.
LEMMA PacketFields ==
    \A type, from, to, port, ssrc, initiator :
        LET m == Packet(type, from, to, port, ssrc, initiator)
        IN  /\ m.type = type /\ m.from = from /\ m.to = to
            /\ m.port = port /\ m.ssrc = ssrc /\ m.initiator = initiator
<1>1. QED
  BY DEF Packet

\* Peer, Remote, raveloxmidi and NONE are distinct, and none of them is a number raveloxmidi draws.
LEMMA Distinct ==
    /\ Remote \notin Peer /\ Us \notin Peer /\ Us # Remote
    /\ NONE \notin Peer /\ NONE # Remote /\ NONE # Us
    /\ Remote \notin Nat /\ \A p \in Peer : p \notin Nat
    /\ NONE \notin Nat
<1>1. QED
  BY DistinctAssumption

\* The slots are numbered from 0, one for each peer and one for Remote.
LEMMA SlotBounds ==
    /\ Cardinality(Peer) \in Nat /\ Slot = 0..Cardinality(Peer) /\ Slot \subseteq Nat /\ 0 \in Slot
<1>1. Cardinality(Peer) \in Nat
  BY PeerAssumption, FS_CardinalityType
<1>2. QED
  BY <1>1 DEF Slot

\* The least of some numbers is one of them.
LEMMA FirstIn == ASSUME NEW S \in SUBSET Nat, S # {} PROVE First(S) \in S
<1> DEFINE R == {ss \in Nat \X Nat : ss[1] < ss[2]}
<1>1. IsWellFoundedOn(R, Nat)
  BY NatLessThanWellFounded DEF OpToRel
<1> HIDE DEF R
<1>2. PICK x \in S : \A y \in S : ~ (<<y, x>> \in R)
  BY <1>1, WFMin
<1>3. ASSUME NEW y \in S PROVE x <= y
  <2>1. x \in Nat /\ y \in Nat
    OBVIOUS
  <2>2. y < x => <<y, x>> \in R
    BY <2>1 DEF R
  <2>3. QED
    BY <1>2, <2>1, <2>2
<1>4. QED
  BY <1>3 DEF First

\* The slot of a peer is the one found under its SSRC: no other slot has it.
LEMMA FindPeer ==
    ASSUME Slots, Single, NEW p \in Peer
    PROVE  /\ FindBySsrc(p) = Of(p) /\ \A s \in Of(p) : Of(p) = {s} /\ First(Of(p)) = s
           /\ \A s \in Slot : Used(s) /\ ctx[s].ssrc = p => s \in Of(p)
<1>1. ASSUME NEW s \in Slot, Used(s)
      PROVE  ctx[s].initiator \in Peer \cup {Us} /\ ctx[s].initiator # NONE
  BY <1>1, Distinct DEF Slots, Used, Fields
<1>2. ASSUME NEW s \in Slot, Used(s), ctx[s].ssrc = p PROVE ctx[s].initiator = p
  BY <1>1, <1>2, Distinct DEF Slots, OfPeer, Own
<1>3. ASSUME NEW s \in Slot, Used(s), ctx[s].initiator = p PROVE ctx[s].ssrc = p
  BY <1>3 DEF Slots, OfPeer
<1>4. FindBySsrc(p) = Of(p)
  BY <1>2, <1>3 DEF FindBySsrc, Of
<1>5. ASSUME NEW s \in Of(p) PROVE Of(p) = {s} /\ First(Of(p)) = s
  <2>1. Of(p) = {s} /\ s \in Nat
    BY SlotBounds DEF Of, Single
  <2>2. QED
    BY <2>1, FirstIn
<1>6. QED
  BY <1>2, <1>4, <1>5 DEF Of

\* What is found under raveloxmidi's own token, or under the name or the SSRC of Remote, is its own
\* connection, in slot 0.
LEMMA FindOurs ==
    ASSUME Slots
    PROVE  /\ FindByInitiator(Us) = IF Ours THEN {0} ELSE {}
           /\ FindByName(Remote) = IF Ours THEN {0} ELSE {}
           /\ FindBySsrc(Remote) # {} => Ours /\ FindBySsrc(Remote) = {0}
           /\ First({0}) = 0
<1>1. ASSUME NEW s \in Slot, Used(s)
      PROVE  ctx[s].initiator \in Peer \cup {Us} /\ ctx[s].initiator # NONE
  BY <1>1, Distinct DEF Slots, Used, Fields
<1>2. ASSUME NEW s \in Slot, Used(s), ctx[s].initiator = Us PROVE s = 0 /\ Ours
  BY <1>2 DEF Slots, Ours
<1>3. ASSUME NEW s \in Slot, Used(s) PROVE NameOf(s) = Remote <=> ctx[s].initiator = Us
  BY <1>1, <1>3, Distinct DEF NameOf
<1>4. ASSUME NEW s \in Slot, Used(s), ctx[s].ssrc = Remote PROVE ctx[s].initiator = Us
  BY <1>1, <1>4, Distinct DEF Slots, OfPeer
<1>5. 0 \in Slot /\ First({0}) = 0
  BY SlotBounds, FirstIn
<1>6. FindByInitiator(Us) = IF Ours THEN {0} ELSE {}
  BY <1>2, <1>5 DEF FindByInitiator, Ours
<1>7. FindByName(Remote) = IF Ours THEN {0} ELSE {}
  BY <1>2, <1>3, <1>5 DEF FindByName, Ours
<1>8. FindBySsrc(Remote) # {} => Ours /\ FindBySsrc(Remote) = {0}
  BY <1>2, <1>4 DEF FindBySsrc
<1>9. QED
  BY <1>5, <1>6, <1>7, <1>8

-----------------------------------------------------------------------------
\* What the steps that change the table do.

\* The slots that are in use are of different tokens, so there is one left for a peer that is
\* not in the table.
LEMMA RoomLeft ==
    ASSUME Ranges, Slots, Single, NEW p \in Peer, Of(p) = {}, \A s \in 0..count - 1 : Used(s)
    PROVE  count \in Slot
<1> DEFINE S == 0..(count - 1)
           T == (Peer \cup {Us}) \ {p}
           f == [s \in S |-> ctx[s].initiator]
<1>1. Cardinality(Peer) \in Nat /\ count \in Nat /\ count <= Cardinality(Peer) + 1
  BY SlotBounds DEF Ranges
<1>2. IsFiniteSet(T) /\ Cardinality(T) = Cardinality(Peer)
  <2>1. IsFiniteSet(Peer \cup {Us}) /\ Cardinality(Peer \cup {Us}) = Cardinality(Peer) + 1
    BY PeerAssumption, Distinct, FS_AddElement
  <2>2. p \in Peer \cup {Us}
    OBVIOUS
  <2>3. IsFiniteSet(T) /\ Cardinality(T) = Cardinality(Peer \cup {Us}) - 1
    BY <2>1, <2>2, FS_RemoveElement
  <2>4. QED
    BY <1>1, <2>1, <2>3
<1>3. \A s \in S : s \in Slot /\ Used(s)
  BY <1>1, SlotBounds
<1>4. \A s \in S : ctx[s].initiator \in T
  BY <1>3, Distinct DEF Slots, Used, Fields, Of
<1>5. f \in [S -> T]
  BY <1>4
<1>6. \A s, t \in S : f[s] = f[t] => s = t
  BY <1>3 DEF Single
<1>7. f \in Injection(S, T)
  BY <1>5, <1>6 DEF Injection, IsInjective
<1>8. Cardinality(S) <= Cardinality(T)
  BY <1>2, <1>7, FS_Injection
<1>9. Cardinality(S) = count
  <2>1. Cardinality(0..(count - 1)) = IF 0 > count - 1 THEN 0 ELSE (count - 1) - 0 + 1
    BY <1>1, FS_Interval
  <2>2. QED
    BY <1>1, <2>1
<1>10. QED
  BY <1>1, <1>2, <1>8, <1>9, SlotBounds

\* A slot that is registered is in use, and so is every other that was.
LEMMA RegisterUsed ==
    ASSUME Ranges, Slots, NEW s \in Slot, NEW fields \in Fields, fields.status # "UNUSED",
           ~Used(s), s <= count, Register(s, fields)
    PROVE  /\ \A t \in Slot : Used(t)' <=> Used(t) \/ t = s
           /\ count' \in 0..Cardinality(Peer) + 1
           /\ ctx' \in [Slot -> Fields] /\ ctx'[s] = fields /\ \A t \in Slot : t # s => ctx'[t] = ctx[t]
           /\ drawn' = drawn + 1 /\ reused' = (reused \/ (spc \in {"wait", "send"} /\ s = sslot))
<1>1. count \in Nat /\ Cardinality(Peer) \in Nat /\ s \in Nat /\ s <= Cardinality(Peer) /\ count <= Cardinality(Peer) + 1
  BY SlotBounds DEF Ranges
<1>2. ctx' \in [Slot -> Fields] /\ ctx'[s] = fields /\ \A t \in Slot : t # s => ctx'[t] = ctx[t]
  BY DEF Register, Slots
<1>3. count' = IF s = count THEN count + 1 ELSE count
  BY DEF Register, AddItem
<1>4. \A t \in Slot : Used(t)' <=> Used(t) \/ t = s
  BY <1>1, <1>2, <1>3, SlotBounds DEF Used
<1>5. count' \in 0..Cardinality(Peer) + 1
  BY <1>1, <1>3
<1>6. QED
  BY <1>2, <1>4, <1>5 DEF Register

\* The first slot that is not in use is in the table, or the next one.
LEMMA FreeSlotIs ==
    ASSUME Ranges, Slots, Single, NEW p \in Peer, Of(p) = {}
    PROVE  FreeSlot \in Slot /\ ~Used(FreeSlot) /\ FreeSlot <= count
<1> DEFINE unused == {s \in 0..count - 1 : ~ Used(s)}
<1>1. count \in Nat /\ Cardinality(Peer) \in Nat /\ count <= Cardinality(Peer) + 1
  BY SlotBounds DEF Ranges
<1>2. CASE unused = {}
  <2>1. FreeSlot = count
    BY <1>2 DEF FreeSlot
  <2>2. count \in Slot
    BY <1>2, RoomLeft
  <2>3. QED
    BY <1>1, <2>1, <2>2 DEF Used
<1>3. CASE unused # {}
  <2>1. FreeSlot = First(unused)
    BY <1>3 DEF FreeSlot
  <2>2. unused \in SUBSET Nat
    BY <1>1
  <2>3. FreeSlot \in unused
    BY <1>3, <2>1, <2>2, FirstIn
  <2>4. QED
    BY <1>1, <2>3, SlotBounds
<1>4. QED
  BY <1>2, <1>3

\* What an invitation leads to: the slot of its peer is there already, or a free one becomes
\* the peer's.
Accepted(p, s, port, n) ==
    [status |-> "IDLE", ssrc |-> p, initiator |-> p, send |-> n, host |-> p, control |-> port]

InvEffect(p, s, port, n) ==
    /\ net' \subseteq net \cup {Packet("OK", Us, p, port, n, p)}
    /\ doubled' = doubled
    /\ UNCHANGED <<mpc, peers, told, synced, sync>>
    /\ \/ Of(p) = {s} /\ n = ctx[s].send /\ UNCHANGED <<table, reused>>
       \/ Of(p) = {} /\ ~Used(s) /\ s <= count /\ n = drawn + 1 /\ Register(s, Accepted(p, s, port, n))

\* applemidi_inv_responder answers from the slot the peer has, or registers it in a free one.
LEMMA InvDoes ==
    ASSUME Ranges, OnTheWay, Slots, Single, NEW m \in net, NEW again \in BOOLEAN, Inv(m, again)
    PROVE  /\ mpc \in {"loop", "quitting"}
           /\ m.from \in Peer /\ m.type = "INV" /\ m.port \in Port
           /\ \E s \in Slot, n \in Nat : InvEffect(m.from, s, m.port, n)
<1> DEFINE p == m.from
           known == FindBySsrc(m.ssrc)
           s == IF known = {} THEN FreeSlot ELSE First(known)
           ours == IF known = {} THEN drawn + 1 ELSE ctx[s].send
           token == IF known = {} THEN m.initiator ELSE ctx[s].initiator
<1>1. m.type = "INV" /\ m.to = Us /\ mpc \in {"loop", "quitting"}
  BY DEF Inv, Receive
<1>2. p \in Peer /\ m.ssrc = p /\ m.initiator = p /\ m.port \in Port
  BY <1>1, Distinct DEF OnTheWay, FromPeer, FromRemote
<1>3. known = Of(p)
  BY <1>2, FindPeer
<1>4. /\ Receive(m, "INV", again, {Packet("OK", Us, p, m.port, ours, token)})
      /\ IF known = {} THEN Register(s, Accepted(p, s, m.port, ours)) ELSE UNCHANGED <<table, reused>>
      /\ UNCHANGED <<sync, synced>>
  BY <1>2 DEF Inv, Accepted
<1> HIDE DEF s, ours, token, known
<1>5. doubled' = doubled /\ UNCHANGED <<mpc, peers, told, synced, sync>>
  BY <1>4 DEF Receive, Ranges
<1>6. CASE Of(p) = {}
  <2>1. s = FreeSlot /\ ours = drawn + 1 /\ token = p /\ drawn \in Nat
    BY <1>2, <1>3, <1>6 DEF s, ours, token, Ranges
  <2>2. s \in Slot /\ ~Used(s) /\ s <= count
    BY <1>2, <1>6, <2>1, FreeSlotIs
  <2>3. InvEffect(p, s, m.port, ours)
    BY <1>3, <1>4, <1>5, <1>6, <2>1, <2>2 DEF InvEffect, Receive
  <2>4. QED
    BY <1>1, <1>2, <2>1, <2>2, <2>3
<1>7. CASE Of(p) # {}
  <2>1. PICK t \in Of(p) : TRUE
    BY <1>7
  <2>2. Of(p) = {t} /\ First(Of(p)) = t
    BY <1>2, <2>1, FindPeer
  <2>3. s = t /\ ours = ctx[t].send /\ token = p /\ t \in Slot /\ ours \in Nat
    BY <1>3, <1>7, <2>2 DEF s, ours, token, Of, Slots, Fields
  <2>4. InvEffect(p, s, m.port, ours)
    BY <1>3, <1>4, <1>5, <1>7, <2>2, <2>3 DEF InvEffect, Receive
  <2>5. QED
    BY <1>1, <1>2, <2>3, <2>4
<1>8. QED
  BY <1>6, <1>7

\* What an OK leads to: it comes from Remote, and the connection is the one in slot 0.
LEMMA OkDoes ==
    ASSUME Ranges, OnTheWay, Slots, NEW m \in net, NEW again \in BOOLEAN, OkFirst(m, again) \/ OkSecond(m, again)
    PROVE  /\ Ours /\ m.from = Remote /\ m.ssrc = Remote /\ m.type = "OK" /\ m.to = Us /\ m.initiator = Us
           /\ UNCHANGED <<count, drawn, mpc, peers, told, sslot, sssrc, reused>>
           /\ OkFirst(m, again) =>
                /\ ctx[0].status = "FIRST_INV"
                /\ ctx' = [ctx EXCEPT ![0].ssrc = Remote, ![0].status = "SECOND_INV"]
                /\ Receive(m, "OK", again, {Packet("INV", Us, Remote, "data", 1, Us)})
                /\ spc' = spc /\ synced' = synced
           /\ OkSecond(m, again) =>
                /\ ctx[0].status = "SECOND_INV"
                /\ ctx' = [ctx EXCEPT ![0].status = "REMOTE_CONNECTION"]
                /\ Receive(m, "OK", again, {})
                /\ spc' = "find" /\ synced' = [to |-> Remote, ssrc |-> 1, raced |-> FALSE]
<1>1. m.type = "OK" /\ m.to = Us
  BY DEF OkFirst, OkSecond, Receive
<1>2. m.from = Remote /\ m.ssrc = Remote /\ m.initiator = Us
  BY <1>1, Distinct DEF OnTheWay, FromPeer, FromRemote
<1>3. Ours /\ FindByInitiator(m.initiator) = {0} /\ First({0}) = 0
  BY <1>2, FindOurs DEF OkFirst, OkSecond
<1>4. UNCHANGED <<count, drawn, mpc, peers, told, sslot, sssrc, reused>>
  BY DEF OkFirst, OkSecond, Receive, sync
<1>5. ASSUME OkFirst(m, again)
      PROVE  /\ ctx[0].status = "FIRST_INV"
             /\ ctx' = [ctx EXCEPT ![0].ssrc = Remote, ![0].status = "SECOND_INV"]
             /\ Receive(m, "OK", again, {Packet("INV", Us, Remote, "data", 1, Us)})
             /\ spc' = spc /\ synced' = synced
  <2>1. ToPeer(0, "INV", DataPort(0)) = {Packet("INV", Us, Remote, "data", 1, Us)}
    BY <1>3, SlotBounds DEF ToPeer, DataPort, Ours, Slots, Own
  <2>2. QED
    BY <1>2, <1>3, <1>5, <2>1 DEF OkFirst, sync
<1>6. ASSUME OkSecond(m, again)
      PROVE  /\ ctx[0].status = "SECOND_INV"
             /\ ctx' = [ctx EXCEPT ![0].status = "REMOTE_CONNECTION"]
             /\ Receive(m, "OK", again, {})
             /\ spc' = "find" /\ synced' = [to |-> Remote, ssrc |-> 1, raced |-> FALSE]
  <2>1. ctx[0].host = Remote /\ ctx[0].send = 1
    BY <1>3, SlotBounds DEF Ours, Slots, Own
  <2>2. QED
    BY <1>3, <1>6, <2>1 DEF OkSecond
<1>7. QED
  BY <1>1, <1>2, <1>3, <1>4, <1>5, <1>6

\* What BY leads to: the slot of its sender is not in use any more.
LEMMA ByDoes ==
    ASSUME Ranges, OnTheWay, Slots, Single, NEW m \in net, NEW again \in BOOLEAN, By(m, again)
    PROVE  /\ m.type = "BY" /\ (FromPeer(m) \/ FromRemote(m))
           /\ net' \subseteq net /\ doubled' = doubled
           /\ UNCHANGED <<count, drawn, mpc, peers, told, synced, sync, reused>>
           /\ ctx' \in [Slot -> Fields]
           /\ \A s \in Slot : \/ ctx'[s] = ctx[s]
                              \/ /\ Used(s) /\ ctx[s].initiator = m.initiator
                                 /\ ctx'[s] = [ctx[s] EXCEPT !.status = "UNUSED"]
<1>1. m.type = "BY" /\ m.to = Us
  BY DEF By, Receive
<1>2. FromPeer(m) \/ FromRemote(m)
  BY <1>1, Distinct DEF OnTheWay
<1>3. net' \subseteq net /\ doubled' = doubled
      /\ UNCHANGED <<count, drawn, mpc, peers, told, synced, sync, reused>>
  BY <1>1 DEF By, Receive, Ranges
<1>4. CASE FindBySsrc(m.ssrc) = {}
  BY <1>1, <1>2, <1>3, <1>4 DEF By, Slots
<1>5. CASE FindBySsrc(m.ssrc) # {}
  <2>1. PICK s \in Slot : First(FindBySsrc(m.ssrc)) = s /\ Used(s) /\ ctx[s].initiator = m.initiator
    <3>1. CASE FromPeer(m)
      <4>1. m.ssrc \in Peer /\ m.initiator = m.ssrc
        BY <3>1 DEF FromPeer
      <4>2. FindBySsrc(m.ssrc) = Of(m.ssrc)
        BY <4>1, FindPeer
      <4>3. PICK s \in Of(m.ssrc) : First(Of(m.ssrc)) = s
        BY <1>5, <4>1, <4>2, FindPeer
      <4>4. QED
        BY <4>1, <4>2, <4>3 DEF Of
    <3>2. CASE FromRemote(m)
      BY <1>5, <3>2, FindOurs, SlotBounds DEF FromRemote, Ours
    <3>3. QED
      BY <1>2, <3>1, <3>2
  <2>2. ctx' = [ctx EXCEPT ![s].status = "UNUSED"]
    BY <1>5, <2>1 DEF By
  <2>3. [ctx[s] EXCEPT !.status = "UNUSED"] \in Fields
    BY <2>1 DEF Slots, Fields, Status
  <2>4. QED
    BY <1>1, <1>2, <1>3, <2>1, <2>2, <2>3 DEF Slots
<1>6. QED
  BY <1>4, <1>5

\* The steps that leave the table, the packets and the peers alone.
Quiet == RemoteNotFound \/ Quit \/ LoopEnds \/ Teardown \/ JoinNoThread \/ Sync \/ UNCHANGED vars

\* Neither the end of main nor the sync thread touches what peers and table say.
LEMMA QuietDoes == ASSUME Quiet PROVE UNCHANGED <<table, net, peers, doubled, doubles>>
<1>1. QED
  BY DEF Quiet, RemoteNotFound, Quit, LoopEnds, Teardown, JoinNoThread, Sync, SyncFind, SyncWake, SyncSend,
         vars, table, peers, double

\* The steps of the peers.
ByPeers ==
    \/ \E p \in Peer : PeerInvites(p) \/ PeerLeaves(p)
    \/ \E m \in net, p \in Peer : PeerAccepted(p, m)
    \/ \E m \in net : RemoteAccepts(m) \/ RemoteRefuses(m)
    \/ RemoteLeaves

\* What a peer does changes nothing of raveloxmidi.
LEMMA PeersDo == ASSUME ByPeers PROVE UNCHANGED <<table, mpc, sync, told, synced, reused, double>>
<1>1. QED
  BY DEF ByPeers, PeerInvites, PeerLeaves, PeerAccepted, RemoteAccepts, RemoteRefuses, RemoteLeaves, Environment

\* Every step is one of these.
LEMMA Steps ==
    ASSUME [Next]_vars
    PROVE  \/ Quiet \/ RemoteConnectInit \/ ByPeers
           \/ \E m \in net, again \in BOOLEAN : \/ Inv(m, again) \/ OkUnexpected(m, again)
                                                \/ OkFirst(m, again) \/ OkSecond(m, again) \/ By(m, again)
<1>1. QED
  BY DEF Next, Main, Respond, Answer, Quiet, ByPeers

\* What raveloxmidi's own invitation, the first thing main does, leads to.
LEMMA ConnectDoes ==
    ASSUME Ranges, Slots, RemoteConnectInit
    PROVE  /\ mpc = "start" /\ count = 0 /\ ~Used(0)
           /\ Register(0, [status |-> "FIRST_INV", ssrc |-> 1, initiator |-> Us,
                           send |-> 1, host |-> Remote, control |-> "control"])
           /\ net' = net \cup {Packet("INV", Us, Remote, "control", 1, Us)}
           /\ mpc' = "loop" /\ UNCHANGED <<sync, peers, told, synced, double>>
<1>1. mpc = "start" /\ count = 0 /\ drawn = 0
  BY DEF RemoteConnectInit, Slots
<1>2. drawn + 1 = 1 /\ ~Used(0)
  BY <1>1 DEF Used
<1>3. QED
  BY <1>1, <1>2 DEF RemoteConnectInit

\* The slot of raveloxmidi's own connection, and those of peers, as they are registered.
LEMMA RegisteredFields ==
    /\ [status |-> "FIRST_INV", ssrc |-> 1, initiator |-> Us,
        send |-> 1, host |-> Remote, control |-> "control"] \in Fields
    /\ \A p \in Peer, s \in Slot, n \in Nat, port \in Port : Accepted(p, s, port, n) \in Fields
<1>1. QED
  BY DEF Fields, Accepted, Status, Ssrc, Port

\* What registering a slot counts.
LEMMA RegisterRanges ==
    ASSUME Ranges, Slots, NEW s \in Slot, NEW fields \in Fields, fields.status # "UNUSED",
           ~Used(s), s <= count, Register(s, fields)
    PROVE  count' \in 0..Cardinality(Peer) + 1 /\ drawn' \in Nat /\ reused' \in BOOLEAN
<1>1. count' \in 0..Cardinality(Peer) + 1
  BY RegisterUsed
<1>2. drawn' \in Nat
  BY DEF Register, Ranges
<1>3. reused' \in BOOLEAN
  BY Zenon DEF Register
<1>4. QED
  BY <1>1, <1>2, <1>3

\* Whatever is received, the bound on doubles holds.
LEMMA ReceiveDoubles ==
    ASSUME Ranges, NEW m, NEW type, NEW again \in BOOLEAN, NEW sent, Receive(m, type, again, sent)
    PROVE  doubles' \in 0..MaxDoubles /\ doubled' \in BOOLEAN
<1>1. doubles' \in 0..MaxDoubles
  BY PeerAssumption DEF Receive, Ranges
<1>2. doubled' \in BOOLEAN
  BY Zenon DEF Receive
<1>3. QED
  BY <1>1, <1>2

\* Every variable keeps its range.
LEMMA StepRanges == ASSUME ConnInv, [Next]_vars PROVE Ranges'
<1> USE DEF table, sync, peers, double
<1>1. Ranges /\ OnTheWay /\ Slots /\ Single /\ Invited /\ Syncing /\ MaxDoubles \in Nat
  BY PeerAssumption DEF ConnInv
<1>2. CASE Quiet
  <2>1. UNCHANGED <<count, drawn, pstate, pssrc, rstate, rssrc, doubled, doubles>>
    BY <1>2, QuietDoes
  <2>2. sslot' \in Slot /\ sssrc' \in Nat
    BY <1>1, <1>2, FindOurs, SlotBounds
       DEF Quiet, RemoteNotFound, Quit, LoopEnds, Teardown, JoinNoThread, Sync, SyncFind, SyncWake, SyncSend,
           vars, Ranges, Slots, Fields
  <2>3. told' \in {0, 1}
    <3>1. CASE Teardown /\ FindByName(Remote) # {}
      <4>1. Ours /\ First(FindByName(Remote)) = 0
        BY <1>1, <3>1, FindOurs
      <4>2. ctx[0].send = 1
        BY <1>1, <4>1, SlotBounds DEF Ours, Slots, Own
      <4>3. QED
        BY <3>1, <4>1, <4>2 DEF Teardown
    <3>2. CASE ~(Teardown /\ FindByName(Remote) # {})
      BY <1>1, <1>2, <3>2
         DEF Quiet, RemoteNotFound, Quit, LoopEnds, Teardown, JoinNoThread, Sync, SyncFind, SyncWake, SyncSend,
             vars, Ranges
    <3>3. QED
      BY <3>1, <3>2
  <2>4. /\ mpc' \in {"start", "loop", "quitting", "joining", "ended", "crashed"}
        /\ spc' \in {"off", "find", "wait", "send", "ended"} /\ reused' \in BOOLEAN
    BY <1>1, <1>2
       DEF Quiet, RemoteNotFound, Quit, LoopEnds, Teardown, JoinNoThread, Sync, SyncFind, SyncWake, SyncSend,
           vars, Ranges
  <2>5. QED
    BY <1>1, <2>1, <2>2, <2>3, <2>4 DEF Ranges
<1>3. CASE RemoteConnectInit
  <2>1. count' \in 0..Cardinality(Peer) + 1 /\ drawn' \in Nat /\ reused' \in BOOLEAN
    <3>1. /\ count = 0 /\ ~Used(0) /\ 0 \in Slot /\ 0 <= count
          /\ Register(0, [status |-> "FIRST_INV", ssrc |-> 1, initiator |-> Us,
                          send |-> 1, host |-> Remote, control |-> "control"])
      BY <1>1, <1>3, ConnectDoes, SlotBounds
    <3>2. QED
      BY <1>1, <3>1, RegisterRanges, RegisteredFields
  <2>2. QED
    BY <1>1, <1>3, <2>1, ConnectDoes DEF Ranges
<1>4. CASE ByPeers
  <2>1. UNCHANGED <<table, mpc, sync, told, synced, reused, double>>
    BY <1>4, PeersDo
  <2>2. pstate' \in [Peer -> {"out", "invited", "half", "in", "left"}] /\ pssrc' \in [Peer -> Nat]
    BY <1>1, <1>4, Distinct
       DEF ByPeers, PeerInvites, PeerLeaves, PeerAccepted, RemoteAccepts, RemoteRefuses, RemoteLeaves,
           Ranges, OnTheWay
  <2>3. rstate' \in {"out", "half", "in", "left"} /\ rssrc' \in {0, 1}
    BY <1>1, <1>4, Distinct
       DEF ByPeers, PeerInvites, PeerLeaves, PeerAccepted, RemoteAccepts, RemoteRefuses, RemoteLeaves,
           Ranges, OnTheWay
  <2>4. QED
    BY <1>1, <2>1, <2>2, <2>3 DEF Ranges
<1>5. ASSUME NEW m \in net, NEW again \in BOOLEAN, Inv(m, again) PROVE Ranges'
  <2>1. PICK s \in Slot, n \in Nat : InvEffect(m.from, s, m.port, n)
    BY <1>1, <1>5, InvDoes
  <2>2. count' \in 0..Cardinality(Peer) + 1 /\ drawn' \in Nat /\ reused' \in BOOLEAN
    <3>1. CASE UNCHANGED <<table, reused>>
      BY <1>1, <3>1 DEF Ranges
    <3>2. CASE ~Used(s) /\ s <= count /\ Register(s, Accepted(m.from, s, m.port, n))
      <4>1. Accepted(m.from, s, m.port, n) \in Fields /\ Accepted(m.from, s, m.port, n).status # "UNUSED"
        BY <1>1, <1>5, InvDoes, RegisteredFields DEF Accepted
      <4>2. QED
        BY <1>1, <3>2, <4>1, RegisterRanges
    <3>3. QED
      BY <2>1, <3>1, <3>2 DEF InvEffect
  <2>3. doubles' \in 0..MaxDoubles
    BY <1>1, <1>5 DEF Inv, Receive, Ranges
  <2>4. QED
    BY <1>1, <2>1, <2>2, <2>3 DEF InvEffect, Ranges
<1>6. ASSUME NEW m \in net, NEW again \in BOOLEAN, OkUnexpected(m, again) PROVE Ranges'
  BY <1>1, <1>6 DEF OkUnexpected, Receive, Ranges
<1>7. ASSUME NEW m \in net, NEW again \in BOOLEAN, OkFirst(m, again) \/ OkSecond(m, again) PROVE Ranges'
  <2>1. doubles' \in 0..MaxDoubles /\ doubled' \in BOOLEAN
    BY <1>1, <1>7, OkDoes, ReceiveDoubles
  <2>2. QED
    BY <1>1, <1>7, <2>1, OkDoes DEF Ranges
<1>8. ASSUME NEW m \in net, NEW again \in BOOLEAN, By(m, again) PROVE Ranges'
  <2>1. doubles' \in 0..MaxDoubles
    BY <1>1, <1>8 DEF By, Receive, Ranges
  <2>2. QED
    BY <1>1, <1>8, <2>1, ByDoes DEF Ranges
<1>9. QED
  BY <1>2, <1>3, <1>4, <1>5, <1>6, <1>7, <1>8, Steps

\* The packets are INV and BY of peers, OK and BY of Remote, and what raveloxmidi sends them.
LEMMA StepOnTheWay == ASSUME ConnInv, [Next]_vars PROVE OnTheWay'
<1> USE DEF table, sync, peers, double
<1>1. Ranges /\ OnTheWay /\ Slots /\ Single
  BY DEF ConnInv
<1> DEFINE Good(m) ==
        /\ m = Packet(m.type, m.from, m.to, m.port, m.ssrc, m.initiator) /\ m.port \in Port
        /\ \/ m.to = Us /\ (FromPeer(m) \/ FromRemote(m))
           \/ m.to = Remote /\ m.from = Us /\ m.type = "INV" /\ m.ssrc = 1 /\ m.initiator = Us
           \/ m.to \in Peer /\ m.from = Us /\ m.type = "OK" /\ m.ssrc \in Nat
<1>2. /\ \A p \in Peer, port \in Port : Good(Packet("INV", p, Us, port, p, p)) /\ Good(Packet("BY", p, Us, port, p, p))
      /\ \A port \in Port : /\ Good(Packet("OK", Remote, Us, port, Remote, Us))
                            /\ Good(Packet("BY", Remote, Us, port, Remote, Us))
                            /\ Good(Packet("INV", Us, Remote, port, 1, Us))
      /\ \A p \in Peer, port \in Port, n \in Nat : Good(Packet("OK", Us, p, port, n, p))
  BY PacketFields DEF FromPeer, FromRemote
<1>3. \A m \in net : Good(m)
  BY <1>1 DEF OnTheWay
<1> HIDE DEF Good
<1>4. ASSUME \A m \in net' : m \in net \/ Good(m) PROVE OnTheWay'
  BY <1>3, <1>4 DEF Good, OnTheWay, FromPeer, FromRemote
<1>5. CASE Quiet
  BY <1>4, <1>5, QuietDoes
<1>6. CASE RemoteConnectInit
  BY <1>1, <1>2, <1>4, <1>6, ConnectDoes DEF Port
<1>7. CASE ByPeers
  <2>1. ASSUME NEW m \in net, m.to = Remote PROVE m.initiator = Us /\ m.port \in Port
    BY <1>1, <2>1, Distinct DEF OnTheWay
  <2>2. "control" \in Port /\ "data" \in Port
    BY DEF Port
  <2>3. \A m \in net' : m \in net \/ Good(m)
    BY <1>2, <1>7, <2>1, <2>2
       DEF ByPeers, PeerInvites, PeerLeaves, PeerAccepted, RemoteAccepts, RemoteRefuses, RemoteLeaves
  <2>4. QED
    BY <1>4, <2>3
<1>8. ASSUME NEW m \in net, NEW again \in BOOLEAN, Inv(m, again) PROVE OnTheWay'
  BY <1>1, <1>2, <1>4, <1>8, InvDoes DEF InvEffect
<1>9. ASSUME NEW m \in net, NEW again \in BOOLEAN, OkUnexpected(m, again) PROVE OnTheWay'
  BY <1>4, <1>9 DEF OkUnexpected, Receive
<1>10. ASSUME NEW m \in net, NEW again \in BOOLEAN, OkFirst(m, again) \/ OkSecond(m, again) PROVE OnTheWay'
  BY <1>1, <1>2, <1>4, <1>10, OkDoes DEF Receive, Port
<1>11. ASSUME NEW m \in net, NEW again \in BOOLEAN, By(m, again) PROVE OnTheWay'
  BY <1>1, <1>4, <1>11, ByDoes
<1>12. QED
  BY <1>5, <1>6, <1>7, <1>8, <1>9, <1>10, <1>11, Steps

\* A step that leaves the table alone leaves what it says alone.
LEMMA SameTable ==
    ASSUME UNCHANGED table
    PROVE  /\ \A s : Used(s)' <=> Used(s)
           /\ \A p : Of(p)' = Of(p)
           /\ Ours' <=> Ours
<1>1. QED
  BY DEF table, Used, Of, Ours

\* A slot is its peer's, or in slot 0 raveloxmidi's own.
LEMMA StepSlots == ASSUME ConnInv, [Next]_vars PROVE Slots'
<1> USE DEF table, sync, peers, double
<1>1. Ranges /\ OnTheWay /\ Slots /\ Single
  BY DEF ConnInv
<1>2. ASSUME UNCHANGED table, mpc' # "start" \/ mpc' = mpc PROVE Slots'
  BY <1>1, <1>2 DEF Slots
<1>3. CASE Quiet
  <2>1. mpc' # "start" \/ mpc' = mpc
    BY <1>3 DEF Quiet, RemoteNotFound, Quit, LoopEnds, Teardown, JoinNoThread, Sync, SyncFind, SyncWake, SyncSend, vars
  <2>2. QED
    BY <1>2, <1>3, <2>1, QuietDoes
<1>4. CASE RemoteConnectInit
  <2> DEFINE c == [status |-> "FIRST_INV", ssrc |-> 1, initiator |-> Us,
                   send |-> 1, host |-> Remote, control |-> "control"]
  <2>1. /\ count = 0 /\ ~Used(0) /\ 0 \in Slot /\ 0 <= count /\ c \in Fields /\ c.status # "UNUSED"
        /\ Register(0, c) /\ mpc' = "loop"
    BY <1>1, <1>4, ConnectDoes, SlotBounds, RegisteredFields
  <2>2. Own(c) /\ c.initiator = Us
    BY DEF Own
  <2> HIDE DEF c
  <2>3. ctx' \in [Slot -> Fields] /\ ctx'[0] = c /\ \A t \in Slot : t # 0 => ctx'[t] = ctx[t]
    BY <1>1, <2>1, RegisterUsed
  <2>4. QED
    BY <1>1, <2>1, <2>2, <2>3, Distinct DEF Slots
<1>5. CASE ByPeers
  BY <1>2, <1>5, PeersDo
<1>6. ASSUME NEW m \in net, NEW again \in BOOLEAN, Inv(m, again) PROVE Slots'
  <2>1. PICK s \in Slot, n \in Nat : InvEffect(m.from, s, m.port, n)
    BY <1>1, <1>6, InvDoes
  <2>2. mpc' # "start" /\ m.from \in Peer /\ m.port \in Port
    BY <1>1, <1>6, <2>1, InvDoes DEF InvEffect
  <2>3. CASE UNCHANGED <<table, reused>>
    BY <1>2, <2>2, <2>3
  <2>4. CASE ~Used(s) /\ s <= count /\ Register(s, Accepted(m.from, s, m.port, n))
    <3> DEFINE c == Accepted(m.from, s, m.port, n)
    <3>1. c \in Fields /\ c.status # "UNUSED" /\ c.initiator = m.from /\ OfPeer(c)
      BY <2>2, RegisteredFields DEF Accepted, OfPeer
    <3> HIDE DEF c
    <3>2. ctx' \in [Slot -> Fields] /\ ctx'[s] = c /\ \A t \in Slot : t # s => ctx'[t] = ctx[t]
      BY <1>1, <2>4, <3>1, RegisterUsed DEF c
    <3>3. QED
      BY <1>1, <2>2, <3>1, <3>2, Distinct DEF Slots
  <2>5. QED
    BY <2>1, <2>3, <2>4 DEF InvEffect
<1>7. ASSUME NEW m \in net, NEW again \in BOOLEAN, OkUnexpected(m, again) PROVE Slots'
  BY <1>2, <1>7 DEF OkUnexpected, Receive
<1>8. ASSUME NEW m \in net, NEW again \in BOOLEAN, OkFirst(m, again) \/ OkSecond(m, again) PROVE Slots'
  <2>1. Ours /\ 0 \in Slot /\ ctx[0].initiator = Us /\ Own(ctx[0]) /\ ctx[0] \in Fields /\ ctx \in [Slot -> Fields]
    BY <1>1, <1>8, OkDoes, SlotBounds DEF Ours, Slots
  <2>2. /\ ctx'[0] \in Fields /\ Own(ctx'[0]) /\ ctx'[0].initiator = Us
        /\ ctx' \in [Slot -> Fields] /\ \A s \in Slot : s # 0 => ctx'[s] = ctx[s]
    <3>1. CASE OkFirst(m, again)
      <4>1. ctx' = [ctx EXCEPT ![0] = [ctx[0] EXCEPT !.ssrc = Remote, !.status = "SECOND_INV"]]
        BY <1>1, <3>1, OkDoes
      <4>2. [ctx[0] EXCEPT !.ssrc = Remote, !.status = "SECOND_INV"] \in Fields
        BY <2>1 DEF Fields, Status, Ssrc
      <4>3. QED
        BY <2>1, <4>1, <4>2 DEF Own, Fields
    <3>2. CASE OkSecond(m, again)
      <4>1. ctx' = [ctx EXCEPT ![0] = [ctx[0] EXCEPT !.status = "REMOTE_CONNECTION"]] /\ ctx[0].status = "SECOND_INV"
        BY <1>1, <3>2, OkDoes
      <4>2. [ctx[0] EXCEPT !.status = "REMOTE_CONNECTION"] \in Fields
        BY <2>1 DEF Fields, Status
      <4>3. QED
        BY <2>1, <4>1, <4>2 DEF Own, Fields
    <3>3. QED
      BY <1>8, <3>1, <3>2
  <2>3. UNCHANGED <<mpc, count, drawn>>
    BY <1>1, <1>8, OkDoes
  <2>4. QED
    BY <1>1, <2>2, <2>3, Distinct DEF Slots
<1>9. ASSUME NEW m \in net, NEW again \in BOOLEAN, By(m, again) PROVE Slots'
  <2>1. /\ ctx' \in [Slot -> Fields] /\ UNCHANGED <<mpc, count, drawn>>
        /\ \A s \in Slot : ctx'[s] = ctx[s] \/ ctx'[s] = [ctx[s] EXCEPT !.status = "UNUSED"]
    BY <1>1, <1>9, ByDoes
  <2>2. ASSUME NEW s \in Slot
        PROVE  /\ ctx'[s].initiator = NONE => ctx'[s].status = "UNUSED"
               /\ ctx'[s].initiator \in Peer => OfPeer(ctx'[s])
               /\ ctx'[s].initiator = Us => s = 0 /\ Own(ctx'[s])
    <3>1. CASE ctx'[s] = ctx[s]
      BY <1>1, <3>1 DEF Slots
    <3>2. CASE ctx'[s] = [ctx[s] EXCEPT !.status = "UNUSED"]
      <4>1. /\ ctx'[s].status = "UNUSED" /\ ctx'[s].initiator = ctx[s].initiator /\ ctx'[s].ssrc = ctx[s].ssrc
            /\ ctx'[s].host = ctx[s].host /\ ctx'[s].send = ctx[s].send /\ ctx'[s].control = ctx[s].control
        BY <1>1, <3>2 DEF Slots, Fields
      <4>2. QED
        BY <1>1, <4>1 DEF Slots, OfPeer, Own
    <3>3. QED
      BY <2>1, <3>1, <3>2
  <2>3. QED
    BY <1>1, <2>1, <2>2 DEF Slots
<1>10. QED
  BY <1>3, <1>4, <1>5, <1>6, <1>7, <1>8, <1>9, Steps

\* What an OK and a BY leave of who is in which slot.
LEMMA OkKeeps ==
    ASSUME Ranges, OnTheWay, Slots, NEW m \in net, NEW again \in BOOLEAN, OkFirst(m, again) \/ OkSecond(m, again)
    PROVE  /\ \A s \in Slot : /\ Used(s)' <=> Used(s)
                              /\ ctx'[s].initiator = ctx[s].initiator /\ ctx'[s].send = ctx[s].send
                              /\ ctx'[s].control = ctx[s].control /\ ctx'[s].host = ctx[s].host
           /\ Ours'
<1>1. /\ Ours /\ UNCHANGED count /\ ctx \in [Slot -> Fields] /\ 0 \in Slot
      /\ \/ ctx[0].status = "FIRST_INV" /\ ctx' = [ctx EXCEPT ![0].ssrc = Remote, ![0].status = "SECOND_INV"]
         \/ ctx[0].status = "SECOND_INV" /\ ctx' = [ctx EXCEPT ![0].status = "REMOTE_CONNECTION"]
  BY OkDoes, SlotBounds DEF Slots
<1>2. ASSUME NEW s \in Slot
      PROVE  /\ ctx'[s].initiator = ctx[s].initiator /\ ctx'[s].send = ctx[s].send
             /\ ctx'[s].control = ctx[s].control /\ ctx'[s].host = ctx[s].host
             /\ ctx'[s].status = "UNUSED" <=> ctx[s].status = "UNUSED"
  BY <1>1, <1>2 DEF Fields
<1>3. \A s \in Slot : Used(s)' <=> Used(s)
  BY <1>1, <1>2 DEF Used
<1>4. Ours'
  BY <1>1, <1>2, <1>3 DEF Ours
<1>5. QED
  BY <1>2, <1>3, <1>4

\* A BY empties the slots of its sender at most.
LEMMA ByKeeps ==
    ASSUME Ranges, OnTheWay, Slots, Single, NEW m \in net, NEW again \in BOOLEAN, By(m, again)
    PROVE  \A s \in Slot :
              /\ Used(s)' => Used(s)
              /\ ctx'[s].initiator = ctx[s].initiator /\ ctx'[s].send = ctx[s].send
              /\ ctx'[s].control = ctx[s].control /\ ctx'[s].host = ctx[s].host
              /\ Used(s) /\ ctx[s].initiator # m.initiator => Used(s)' /\ ctx'[s] = ctx[s]
<1>1. /\ UNCHANGED count /\ ctx \in [Slot -> Fields]
      /\ \A s \in Slot : \/ ctx'[s] = ctx[s]
                         \/ /\ Used(s) /\ ctx[s].initiator = m.initiator
                            /\ ctx'[s] = [ctx[s] EXCEPT !.status = "UNUSED"]
  BY ByDoes DEF Slots
<1>2. ASSUME NEW s \in Slot
      PROVE  /\ ctx'[s].initiator = ctx[s].initiator /\ ctx'[s].send = ctx[s].send
             /\ ctx'[s].control = ctx[s].control /\ ctx'[s].host = ctx[s].host
             /\ ctx'[s].status = ctx[s].status \/ ctx'[s].status = "UNUSED"
             /\ ctx[s].initiator # m.initiator => ctx'[s] = ctx[s]
  BY <1>1, <1>2 DEF Fields
<1>3. QED
  BY <1>1, <1>2 DEF Used

\* No slot is registered for a token that is in the table.
LEMMA StepSingle == ASSUME ConnInv, [Next]_vars PROVE Single'
<1>1. Ranges /\ OnTheWay /\ Slots /\ Single
  BY DEF ConnInv
<1>2. ASSUME UNCHANGED table PROVE Single'
  BY <1>1, <1>2, SameTable DEF Single, table
<1>3. CASE Quiet
  BY <1>2, <1>3, QuietDoes
<1>4. CASE RemoteConnectInit
  <2> DEFINE c == [status |-> "FIRST_INV", ssrc |-> 1, initiator |-> Us,
                   send |-> 1, host |-> Remote, control |-> "control"]
  <2>1. /\ count = 0 /\ ~Used(0) /\ 0 \in Slot /\ 0 <= count /\ c \in Fields /\ c.status # "UNUSED"
        /\ Register(0, c)
    BY <1>1, <1>4, ConnectDoes, SlotBounds, RegisteredFields
  <2> HIDE DEF c
  <2>2. \A t \in Slot : Used(t)' <=> Used(t) \/ t = 0
    BY <1>1, <2>1, RegisterUsed
  <2>3. \A t \in Slot : ~Used(t)
    BY <2>1, SlotBounds DEF Used
  <2>4. QED
    BY <2>2, <2>3 DEF Single
<1>5. CASE ByPeers
  BY <1>2, <1>5, PeersDo
<1>6. ASSUME NEW m \in net, NEW again \in BOOLEAN, Inv(m, again) PROVE Single'
  <2>1. PICK s \in Slot, n \in Nat : InvEffect(m.from, s, m.port, n)
    BY <1>1, <1>6, InvDoes
  <2>2. m.from \in Peer /\ m.port \in Port
    BY <1>1, <1>6, InvDoes
  <2>3. CASE UNCHANGED <<table, reused>>
    BY <1>2, <2>3
  <2>4. CASE Of(m.from) = {} /\ ~Used(s) /\ s <= count /\ Register(s, Accepted(m.from, s, m.port, n))
    <3> DEFINE c == Accepted(m.from, s, m.port, n)
    <3>1. c \in Fields /\ c.status # "UNUSED" /\ c.initiator = m.from
      BY <2>2, RegisteredFields DEF Accepted
    <3> HIDE DEF c
    <3>2. /\ \A t \in Slot : Used(t)' <=> Used(t) \/ t = s
          /\ ctx'[s] = c /\ \A t \in Slot : t # s => ctx'[t] = ctx[t]
      BY <1>1, <2>4, <3>1, RegisterUsed DEF c
    <3>3. \A t \in Slot : Used(t) => ctx[t].initiator # m.from
      BY <2>4 DEF Of
    <3>4. QED
      BY <1>1, <3>1, <3>2, <3>3 DEF Single
  <2>5. QED
    BY <2>1, <2>3, <2>4 DEF InvEffect
<1>7. ASSUME NEW m \in net, NEW again \in BOOLEAN, OkUnexpected(m, again) PROVE Single'
  BY <1>2, <1>7 DEF OkUnexpected
<1>8. ASSUME NEW m \in net, NEW again \in BOOLEAN, OkFirst(m, again) \/ OkSecond(m, again) PROVE Single'
  BY <1>1, <1>8, OkKeeps DEF Single
<1>9. ASSUME NEW m \in net, NEW again \in BOOLEAN, By(m, again) PROVE Single'
  BY <1>1, <1>9, ByKeeps DEF Single
<1>10. QED
  BY <1>3, <1>4, <1>5, <1>6, <1>7, <1>8, <1>9, Steps

\* A peer's slot stays what it is as long as the table keeps it.
LEMMA OfKeeps ==
    ASSUME \A s \in Slot : /\ Used(s)' <=> Used(s)
                           /\ ctx'[s].initiator = ctx[s].initiator
    PROVE  \A p : Of(p)' = Of(p)
<1>1. QED
  BY DEF Of

\* No peer that is in, or on its way in, loses its slot.
LEMMA StepInviting == ASSUME ConnInv, [Next]_vars PROVE Inviting'
<1> USE DEF table, sync, peers, double
<1>1. Ranges /\ OnTheWay /\ Slots /\ Single /\ Inviting
  BY DEF ConnInv
<1> SUFFICES ASSUME NEW p \in Peer, pstate'[p] # "left" PROVE Member(p)'
  BY DEF Inviting
<1>2. pstate[p] # "left" => Member(p)
  BY <1>1 DEF Inviting
\* a step in which p does nothing
<1>3. ASSUME pstate'[p] = pstate[p], pssrc'[p] = pssrc[p], Of(p)' = Of(p),
             \A s \in Of(p) : ctx'[s].control = ctx[s].control /\ ctx'[s].send = ctx[s].send,
             \A m \in net' : m \in net \/ (m.from # p /\ m.to # p)
      PROVE  Member(p)'
  BY <1>2, <1>3 DEF Member
<1>4. ASSUME UNCHANGED <<table, pstate, pssrc>>,
             \A m \in net' : m \in net \/ (m.from # p /\ m.to # p)
      PROVE  Member(p)'
  BY <1>3, <1>4, SameTable
<1>5. CASE Quiet
  BY <1>4, <1>5, QuietDoes
<1>6. CASE RemoteConnectInit
  <2> DEFINE c == [status |-> "FIRST_INV", ssrc |-> 1, initiator |-> Us,
                   send |-> 1, host |-> Remote, control |-> "control"]
  <2>1. /\ count = 0 /\ ~Used(0) /\ 0 \in Slot /\ 0 <= count /\ c \in Fields /\ c.status # "UNUSED"
        /\ Register(0, c) /\ c.initiator = Us
        /\ net' = net \cup {Packet("INV", Us, Remote, "control", 1, Us)} /\ UNCHANGED <<pstate, pssrc>>
    BY <1>1, <1>6, ConnectDoes, SlotBounds, RegisteredFields
  <2> HIDE DEF c
  <2>2. (\A t \in Slot : Used(t)' <=> Used(t) \/ t = 0) /\ ctx'[0] = c
    BY <1>1, <2>1, RegisterUsed
  <2>3. \A t \in Slot : ~Used(t)
    BY <2>1, SlotBounds DEF Used
  <2>4. Of(p) = {} /\ Of(p)' = {}
    BY <2>1, <2>2, <2>3, Distinct DEF Of
  <2>5. \A m \in net' : m \in net \/ (m.from # p /\ m.to # p)
    BY <2>1, PacketFields, Distinct
  <2>6. QED
    BY <1>3, <2>1, <2>4, <2>5
<1>7. CASE ByPeers
  <2>1. UNCHANGED table /\ Of(p)' = Of(p)
    BY <1>7, PeersDo, SameTable
  <2>2. ASSUME PeerInvites(p) PROVE Member(p)'
    <3>1. /\ pstate[p] = "out" /\ pstate'[p] = "invited"
          /\ net' = net \cup {Packet("INV", p, Us, "control", p, p)}
      BY <1>1, <2>2 DEF PeerInvites, Ranges
    <3>2. Of(p) = {} /\ \A m \in net : m.from # p /\ m.to # p
      BY <1>2, <3>1 DEF Member
    <3>3. \A m \in net' : \/ m.from # p /\ m.to # p
                          \/ m.from = p /\ m.type = "INV" /\ m.port = "control" /\ m.to # p
      BY <3>1, <3>2, PacketFields, Distinct
    <3>4. QED
      BY <2>1, <3>1, <3>2, <3>3 DEF Member
  <2>3. ASSUME NEW m \in net, PeerAccepted(p, m) PROVE Member(p)'
    <3>1. m.to = p /\ Member(p)
      BY <1>1, <1>2, <2>3 DEF PeerAccepted, Ranges
    <3>2. PICK s \in Of(p) : ctx[s].send = m.ssrc
      BY <3>1 DEF Member
    <3>3. CASE pstate[p] = "invited" /\ m.port = "control"
      <4>1. /\ pstate'[p] = "half" /\ pssrc'[p] = m.ssrc
            /\ net' = (net \ {m}) \cup {Packet("INV", p, Us, "data", p, p)}
        BY <1>1, <2>3, <3>3 DEF PeerAccepted, Ranges
      <4>2. \A k \in net' : k \in net \/ (k.from = p /\ k.type = "INV" /\ k.to # p)
        BY <4>1, PacketFields, Distinct
      <4>3. QED
        BY <2>1, <3>1, <3>2, <4>1, <4>2 DEF Member
    <3>4. CASE pstate[p] = "half" /\ m.port = "data"
      <4>1. pstate'[p] = "in" /\ pssrc'[p] = pssrc[p] /\ net' \subseteq net
        BY <1>1, <2>3, <3>4 DEF PeerAccepted, Ranges
      <4>2. QED
        BY <2>1, <3>1, <3>4, <4>1 DEF Member
    <3>5. CASE <<pstate[p], m.port>> \notin {<<"invited", "control">>, <<"half", "data">>}
      <4>1. pstate'[p] = pstate[p] /\ pssrc'[p] = pssrc[p] /\ net' \subseteq net
        BY <2>3, <3>5 DEF PeerAccepted
      <4>2. QED
        BY <1>3, <2>1, <4>1
    <3>6. QED
      BY <3>3, <3>4, <3>5
  <2>4. ASSUME NEW q \in Peer, q # p,
               PeerInvites(q) \/ PeerLeaves(q) \/ \E m \in net : PeerAccepted(q, m)
        PROVE  Member(p)'
    <3>1. pstate'[p] = pstate[p] /\ pssrc'[p] = pssrc[p]
      BY <1>1, <2>4 DEF PeerInvites, PeerLeaves, PeerAccepted, Ranges
    <3>2. \A m \in net' : m \in net \/ (m.from # p /\ m.to # p)
      BY <2>4, PacketFields, Distinct DEF PeerInvites, PeerLeaves, PeerAccepted
    <3>3. QED
      BY <1>3, <2>1, <3>1, <3>2
  <2>5. ~PeerLeaves(p)
    BY <1>1 DEF PeerLeaves, Ranges
  <2>6. ASSUME (\E m \in net : RemoteAccepts(m) \/ RemoteRefuses(m)) \/ RemoteLeaves PROVE Member(p)'
    <3>1. UNCHANGED <<pstate, pssrc>>
      BY <2>6 DEF RemoteAccepts, RemoteRefuses, RemoteLeaves
    <3>2. \A m \in net' : m \in net \/ (m.from # p /\ m.to # p)
      BY <2>6, PacketFields, Distinct DEF RemoteAccepts, RemoteRefuses, RemoteLeaves
    <3>3. QED
      BY <1>4, <2>1, <3>1, <3>2
  <2>7. QED
    BY <1>7, <2>2, <2>3, <2>4, <2>5, <2>6 DEF ByPeers
<1>8. ASSUME NEW m \in net, NEW again \in BOOLEAN, Inv(m, again) PROVE Member(p)'
  <2> DEFINE q == m.from
  <2>1. PICK s \in Slot, n \in Nat : InvEffect(q, s, m.port, n)
    BY <1>1, <1>8, InvDoes
  <2>2. q \in Peer /\ m.port \in Port
    BY <1>1, <1>8, InvDoes
  <2>3. /\ net' \subseteq net \cup {Packet("OK", Us, q, m.port, n, q)}
        /\ UNCHANGED <<pstate, pssrc>>
    BY <2>1 DEF InvEffect
  <2>4. \A k \in net' : k \in net \/ (k.from # p /\ k.to = q /\ k.ssrc = n)
    BY <2>2, <2>3, PacketFields, Distinct
  <2>5. CASE Of(q) = {s} /\ n = ctx[s].send /\ UNCHANGED <<table, reused>>
    <3>1. CASE p = q
      BY <1>2, <2>3, <2>4, <2>5, <3>1, SameTable DEF Member
    <3>2. CASE p # q
      BY <1>4, <2>3, <2>4, <2>5, <3>2
    <3>3. QED
      BY <3>1, <3>2
  <2>6. CASE Of(q) = {} /\ ~Used(s) /\ s <= count /\ Register(s, Accepted(q, s, m.port, n))
    <3> DEFINE c == Accepted(q, s, m.port, n)
    <3>1. c \in Fields /\ c.status # "UNUSED" /\ c.initiator = q /\ c.control = m.port /\ c.send = n
      BY <2>2, RegisteredFields DEF Accepted
    <3> HIDE DEF c
    <3>2. /\ \A t \in Slot : Used(t)' <=> Used(t) \/ t = s
          /\ ctx'[s] = c /\ \A t \in Slot : t # s => ctx'[t] = ctx[t]
      BY <1>1, <2>6, <3>1, RegisterUsed DEF c
    <3>3. CASE p = q
      <4>1. Of(p)' = {s}
        BY <2>6, <3>1, <3>2, <3>3 DEF Of
      <4>2. Member(p) /\ pstate[p] = "invited" /\ m.port = "control" /\ \A k \in net : k.to # p
        BY <1>1, <1>2, <2>3, <2>6, <3>3 DEF Member, Ranges
      <4>3. QED
        BY <2>3, <2>4, <3>1, <3>2, <3>3, <4>1, <4>2 DEF Member
    <3>4. CASE p # q
      <4>1. Of(p)' = Of(p) /\ \A t \in Of(p) : ctx'[t] = ctx[t]
        BY <2>6, <3>1, <3>2, <3>4 DEF Of
      <4>2. QED
        BY <1>3, <2>3, <2>4, <3>4, <4>1
    <3>5. QED
      BY <3>3, <3>4
  <2>7. QED
    BY <2>1, <2>5, <2>6 DEF InvEffect
<1>9. ASSUME NEW m \in net, NEW again \in BOOLEAN, OkUnexpected(m, again) PROVE Member(p)'
  BY <1>4, <1>9 DEF OkUnexpected, Receive
<1>10. ASSUME NEW m \in net, NEW again \in BOOLEAN, OkFirst(m, again) \/ OkSecond(m, again) PROVE Member(p)'
  <2>1. /\ \A s \in Slot : /\ Used(s)' <=> Used(s)
                           /\ ctx'[s].initiator = ctx[s].initiator /\ ctx'[s].send = ctx[s].send
                           /\ ctx'[s].control = ctx[s].control
        /\ UNCHANGED <<pstate, pssrc>>
    BY <1>1, <1>10, OkKeeps, OkDoes
  <2>2. Of(p)' = Of(p)
    BY <2>1, OfKeeps
  <2>3. \A k \in net' : k \in net \/ (k.from # p /\ k.to # p)
    BY <1>1, <1>10, OkDoes, PacketFields, Distinct DEF Receive
  <2>4. QED
    BY <1>3, <2>1, <2>2, <2>3 DEF Of
<1>11. ASSUME NEW m \in net, NEW again \in BOOLEAN, By(m, again) PROVE Member(p)'
  <2>1. m.type = "BY" /\ (FromPeer(m) \/ FromRemote(m)) /\ net' \subseteq net /\ UNCHANGED <<pstate, pssrc>>
    BY <1>1, <1>11, ByDoes
  <2>2. m.initiator # p
    BY <1>2, <2>1, Distinct DEF FromPeer, FromRemote, Member
  <2>3. Of(p)' = Of(p) /\ \A s \in Of(p) : ctx'[s] = ctx[s]
    BY <1>1, <1>11, <2>2, ByKeeps DEF Of
  <2>4. QED
    BY <1>3, <2>1, <2>3
<1>12. QED
  BY <1>5, <1>6, <1>7, <1>8, <1>9, <1>10, <1>11, Steps

\* Raveloxmidi's own connection stays the one in slot 0 until Remote closes it; another's slot
\* never becomes it.
LEMMA OursKeeps ==
    ASSUME Ranges, OnTheWay, Slots, Single, NEW m \in net, NEW again \in BOOLEAN
    PROVE  /\ Inv(m, again) => (Ours' <=> Ours) /\ (Ours => ctx'[0] = ctx[0])
           /\ By(m, again) => /\ Ours' => Ours /\ ctx'[0] = ctx[0]
                              /\ m.from # Remote => (Ours' <=> Ours)
<1>1. 0 \in Slot
  BY SlotBounds
<1>2. ASSUME Inv(m, again) PROVE (Ours' <=> Ours) /\ (Ours => ctx'[0] = ctx[0])
  <2>1. PICK s \in Slot, n \in Nat : InvEffect(m.from, s, m.port, n)
    BY <1>2, InvDoes
  <2>2. m.from \in Peer /\ m.port \in Port
    BY <1>2, InvDoes
  <2>3. CASE UNCHANGED <<table, reused>>
    BY <2>3, SameTable DEF table
  <2>4. CASE ~Used(s) /\ s <= count /\ Register(s, Accepted(m.from, s, m.port, n))
    <3> DEFINE c == Accepted(m.from, s, m.port, n)
    <3>1. c \in Fields /\ c.status # "UNUSED" /\ c.initiator = m.from
      BY <2>2, RegisteredFields DEF Accepted
    <3> HIDE DEF c
    <3>2. /\ \A t \in Slot : Used(t)' <=> Used(t) \/ t = s
          /\ ctx'[s] = c /\ \A t \in Slot : t # s => ctx'[t] = ctx[t]
      BY <2>4, <3>1, RegisterUsed DEF c
    <3>3. QED
      BY <1>1, <2>2, <2>4, <3>1, <3>2, Distinct DEF Ours
  <2>5. QED
    BY <2>1, <2>3, <2>4 DEF InvEffect
<1>3. ASSUME By(m, again) PROVE (Ours' => Ours /\ ctx'[0] = ctx[0]) /\ (m.from # Remote => (Ours' <=> Ours))
  <2>1. /\ m.type = "BY" /\ (FromPeer(m) \/ FromRemote(m))
        /\ \/ ctx'[0] = ctx[0]
           \/ ctx'[0] = [ctx[0] EXCEPT !.status = "UNUSED"]
        /\ ctx[0] \in Fields /\ count' = count
    BY <1>1, <1>3, ByDoes DEF Slots
  <2>2. ctx'[0].status = "UNUSED" => ~Ours'
    BY DEF Ours, Used
  <2>3. Ours' => Ours /\ ctx'[0] = ctx[0]
    BY <2>1, <2>2 DEF Ours, Used, Fields
  <2>4. m.from # Remote => m.initiator # Us
    BY <2>1, Distinct DEF FromPeer, FromRemote
  <2>5. Ours /\ m.initiator # Us => Ours'
    BY <1>1, <1>3, ByKeeps DEF Ours
  <2>6. QED
    BY <2>3, <2>4, <2>5
<1>4. QED
  BY <1>2, <1>3

\* What Remote knows, and that it is invited only while the connection is in the table.
LEMMA StepInvited == ASSUME ConnInv, [Next]_vars PROVE Invited'
<1> USE DEF table, sync, peers, double
<1>1. Ranges /\ OnTheWay /\ Slots /\ Single /\ Invited /\ (mpc = "start" => ~Ours)
  BY SlotBounds DEF ConnInv, Slots, Ours, Used
\* a step in which nobody but a peer sends
<1>2. ASSUME UNCHANGED <<rstate, rssrc>>, mpc' = "start" => mpc = "start", spc' # "off" => spc # "off",
             Ours' <=> Ours, Ours' => ctx'[0] = ctx[0],
             \A m \in net' : m \in net \/ m.from \in Peer \/ (m.from = Us /\ m.to \in Peer /\ mpc' # "start"),
             \A m \in net' : m.from \in Peer => m.to # Remote /\ m.type # "OK"
      PROVE  Invited'
  <2>1. \A m \in net' : m \in net \/ (m.from # Remote /\ m.to # Remote /\ (m.to = Us => m.type # "OK"))
    BY <1>2, Distinct
  <2>2. \A port \in Port : OkFrom(port)' => OkFrom(port)
    BY <2>1 DEF OkFrom
  <2>3. mpc' = "start" => rstate' = "out" /\ \A m \in net' : m.from \in Peer
    BY <1>1, <1>2 DEF Invited
  <2>4. rstate' \in {"half", "in"} \/ (\E port \in Port : OkFrom(port)') \/ spc' # "off" => rssrc' = 1
    BY <1>1, <1>2, <2>2 DEF Invited
  <2>5. Ours' /\ ctx'[0].status \in {"SECOND_INV", "REMOTE_CONNECTION"} => rssrc' = 1
    BY <1>1, <1>2 DEF Invited
  <2>6. \A m \in net' : m.from = Remote /\ m.type = "BY" => rstate' = "left"
    BY <1>1, <1>2, <2>1 DEF Invited
  <2>7. ~Ours' /\ rstate' # "left" => rstate' = "out" /\ \A m \in net' : m.to # Remote
    BY <1>1, <1>2, <2>1 DEF Invited
  <2>8. QED
    BY <2>3, <2>4, <2>5, <2>6, <2>7 DEF Invited
<1>3. \A m \in net : m.from \in Peer => m.to # Remote /\ m.type # "OK"
  BY <1>1, Distinct DEF OnTheWay, FromPeer, FromRemote
<1>4. CASE Quiet
  <2>1. (mpc' = "start" => mpc = "start") /\ (spc' # "off" => spc # "off")
    BY <1>4 DEF Quiet, RemoteNotFound, Quit, LoopEnds, Teardown, JoinNoThread, Sync, SyncFind, SyncWake, SyncSend, vars
  <2>2. UNCHANGED <<table, net, rstate, rssrc>>
    BY <1>4, QuietDoes
  <2>3. QED
    BY <1>2, <1>3, <2>1, <2>2, SameTable
<1>5. CASE RemoteConnectInit
  <2> DEFINE c == [status |-> "FIRST_INV", ssrc |-> 1, initiator |-> Us,
                   send |-> 1, host |-> Remote, control |-> "control"]
  <2>1. /\ mpc = "start" /\ count = 0 /\ ~Used(0) /\ 0 \in Slot /\ 0 <= count /\ c \in Fields /\ c.status = "FIRST_INV"
        /\ Register(0, c) /\ c.initiator = Us
        /\ net' = net \cup {Packet("INV", Us, Remote, "control", 1, Us)} /\ UNCHANGED <<rstate, rssrc, spc>>
        /\ mpc' = "loop"
    BY <1>1, <1>5, ConnectDoes, SlotBounds, RegisteredFields
  <2> HIDE DEF c
  <2>2. Ours' /\ ctx'[0] = c
    BY <1>1, <2>1, RegisterUsed DEF Ours
  <2>3. \A m \in net' : m \in net \/ (m.from = Us /\ m.to = Remote)
    BY <2>1, PacketFields
  <2>4. \A port \in Port : OkFrom(port)' => OkFrom(port)
    BY <2>3, Distinct DEF OkFrom
  <2>5. QED
    BY <1>1, <2>1, <2>2, <2>3, <2>4, Distinct DEF Invited
<1>6. CASE ByPeers
  <2>1. UNCHANGED <<table, mpc, spc>> /\ (Ours' <=> Ours) /\ ctx' = ctx
    BY <1>6, PeersDo, SameTable
  <2>2. ASSUME NEW p \in Peer, PeerInvites(p) \/ PeerLeaves(p) \/ \E m \in net : PeerAccepted(p, m)
        PROVE  Invited'
    <3>1. UNCHANGED <<rstate, rssrc>>
      BY <2>2 DEF PeerInvites, PeerLeaves, PeerAccepted
    <3>2. \A m \in net' : m \in net \/ (m.from = p /\ m.to = Us /\ m.type # "OK")
      BY <2>2, PacketFields DEF PeerInvites, PeerLeaves, PeerAccepted
    <3>3. \A m \in net' : m.from \in Peer => m.to # Remote /\ m.type # "OK"
      BY <1>3, <3>2, Distinct
    <3>4. QED
      BY <1>2, <2>1, <3>1, <3>2, <3>3
  <2>3. ASSUME NEW m \in net, RemoteAccepts(m) PROVE Invited'
    <3>1. /\ m.to = Remote /\ m.ssrc = 1 /\ m.initiator = Us /\ rstate # "left"
          /\ rstate' \in {"half", "in"} /\ rssrc' = 1
          /\ net' = (net \ {m}) \cup {Packet("OK", Remote, Us, m.port, Remote, Us)}
      BY <1>1, <2>3, Distinct DEF RemoteAccepts, OnTheWay, Ranges
    <3>2. Ours /\ mpc # "start"
      BY <1>1, <3>1 DEF Invited
    <3>3. \A k \in net' : k \in net \/ (k.from = Remote /\ k.type = "OK")
      BY <3>1, PacketFields
    <3>4. QED
      BY <1>1, <2>1, <3>1, <3>2, <3>3 DEF Invited
  <2>4. ASSUME NEW m \in net, RemoteRefuses(m) PROVE Invited'
    <3>1. m.to = Remote /\ m.from = Us /\ rstate' = "left" /\ rssrc' = rssrc /\ net' = net \ {m}
      BY <1>1, <2>4, Distinct DEF RemoteRefuses, OnTheWay
    <3>2. mpc # "start"
      BY <1>1, <3>1, Distinct DEF Invited
    <3>3. \A port \in Port : OkFrom(port)' => OkFrom(port)
      BY <3>1 DEF OkFrom
    <3>4. QED
      BY <1>1, <2>1, <3>1, <3>2, <3>3 DEF Invited
  <2>5. ASSUME RemoteLeaves PROVE Invited'
    <3>1. /\ rstate = "in" /\ rstate' = "left" /\ rssrc' = rssrc
          /\ net' = net \cup {Packet("BY", Remote, Us, "control", Remote, Us)}
      BY <2>5 DEF RemoteLeaves
    <3>2. mpc # "start" /\ rssrc = 1
      BY <1>1, <3>1 DEF Invited
    <3>3. QED
      BY <1>1, <2>1, <3>1, <3>2 DEF Invited
  <2>6. QED
    BY <1>6, <2>2, <2>3, <2>4, <2>5 DEF ByPeers
<1>7. ASSUME NEW m \in net, NEW again \in BOOLEAN, Inv(m, again) PROVE Invited'
  <2>1. PICK s \in Slot, n \in Nat : InvEffect(m.from, s, m.port, n)
    BY <1>1, <1>7, InvDoes
  <2>2. m.from \in Peer /\ mpc # "start"
    BY <1>1, <1>7, InvDoes
  <2>3. /\ UNCHANGED <<rstate, rssrc, mpc, spc>>
        /\ \A k \in net' : k \in net \/ (k.from = Us /\ k.to \in Peer)
    BY <2>1, <2>2, PacketFields DEF InvEffect
  <2>4. (Ours' <=> Ours) /\ (Ours => ctx'[0] = ctx[0])
    BY <1>1, <1>7, OursKeeps
  <2>5. \A k \in net' : k.from \in Peer => k.to # Remote /\ k.type # "OK"
    BY <1>3, <2>3, Distinct
  <2>6. QED
    BY <1>2, <2>2, <2>3, <2>4, <2>5
<1>8. ASSUME NEW m \in net, NEW again \in BOOLEAN, OkUnexpected(m, again) PROVE Invited'
  <2>1. UNCHANGED <<table, rstate, rssrc, mpc, spc>> /\ net' \subseteq net
    BY <1>8 DEF OkUnexpected, Receive
  <2>2. QED
    BY <1>2, <1>3, <2>1, SameTable
<1>9. ASSUME NEW m \in net, NEW again \in BOOLEAN, OkFirst(m, again) \/ OkSecond(m, again) PROVE Invited'
  <2>1. /\ Ours /\ m.type = "OK" /\ m.to = Us /\ UNCHANGED <<rstate, rssrc, mpc>> /\ mpc # "start"
        /\ \A k \in net' : k \in net \/ (k.from = Us /\ k.to = Remote)
    BY <1>1, <1>9, OkDoes, PacketFields DEF Receive
  <2>2. Ours'
    BY <1>1, <1>9, OkKeeps
  <2>3. m.port \in Port
    BY <1>1 DEF OnTheWay
  <2>4. OkFrom(m.port)
    BY <2>1 DEF OkFrom
  <2>5. rssrc = 1
    BY <1>1, <2>3, <2>4 DEF Invited
  <2>6. QED
    BY <1>1, <2>1, <2>2, <2>5, Distinct DEF Invited
<1>10. ASSUME NEW m \in net, NEW again \in BOOLEAN, By(m, again) PROVE Invited'
  <2>1. UNCHANGED <<rstate, rssrc, mpc, spc>> /\ net' \subseteq net /\ m.type = "BY"
    BY <1>1, <1>10, ByDoes
  <2>2. Ours' => Ours /\ ctx'[0] = ctx[0]
    BY <1>1, <1>10, OursKeeps
  <2>3. \A port \in Port : OkFrom(port)' => OkFrom(port)
    BY <2>1 DEF OkFrom
  <2>4. (Ours' <=> Ours) \/ rstate = "left"
    BY <1>1, <1>10, <2>1, OursKeeps DEF Invited
  <2>5. QED
    BY <1>1, <2>1, <2>2, <2>3, <2>4 DEF Invited
<1>11. QED
  BY <1>4, <1>5, <1>6, <1>7, <1>8, <1>9, <1>10, Steps

\* The invitations to Remote and its answers follow each other, as long as none is doubled.
LEMMA StepInTurn == ASSUME ConnInv, [Next]_vars PROVE InTurn'
<1> USE DEF table, sync, peers, double
<1>1. Ranges /\ OnTheWay /\ Slots /\ Single /\ Invited /\ InTurn
  BY DEF ConnInv
\* a step of others
<1>2. ASSUME rstate' = rstate, doubled' = doubled, Ours' => Ours /\ ctx'[0] = ctx[0],
             \A m \in net' : m \in net \/ (m.to # Remote /\ (m.to = Us => m.type # "OK"))
      PROVE  InTurn'
  <2>1. \A port : (InvTo(port)' => InvTo(port)) /\ (OkFrom(port)' => OkFrom(port))
    BY <1>2 DEF InvTo, OkFrom
  <2>2. QED
    BY <1>1, <1>2, <2>1 DEF InTurn
<1>3. \A m \in net : m.to = Us /\ m.type = "OK" => m = Packet("OK", Remote, Us, m.port, Remote, Us)
  BY <1>1, Distinct DEF OnTheWay, FromPeer, FromRemote
<1>4. \A m \in net : m.to = Remote => m = Packet("INV", Us, Remote, m.port, 1, Us) /\ m.port \in Port
  BY <1>1, Distinct DEF OnTheWay
<1>5. CASE Quiet
  BY <1>2, <1>5, QuietDoes, SameTable
<1>6. CASE RemoteConnectInit
  <2> DEFINE c == [status |-> "FIRST_INV", ssrc |-> 1, initiator |-> Us,
                   send |-> 1, host |-> Remote, control |-> "control"]
  <2>1. /\ mpc = "start" /\ count = 0 /\ ~Used(0) /\ 0 \in Slot /\ 0 <= count /\ c \in Fields /\ c.status = "FIRST_INV"
        /\ Register(0, c)
        /\ net' = net \cup {Packet("INV", Us, Remote, "control", 1, Us)}
    BY <1>1, <1>6, ConnectDoes, SlotBounds, RegisteredFields
  <2> HIDE DEF c
  <2>2. ctx'[0] = c
    BY <1>1, <2>1, RegisterUsed
  <2>3. \A m \in net' : m.from \in Peer \/ (m.from = Us /\ m.to = Remote /\ m.port = "control")
    BY <1>1, <2>1, PacketFields DEF Invited
  <2>4. \A m \in net : m.to = Us /\ m.type = "OK" => m.from = Remote
    BY <1>3, PacketFields
  <2>5. \A m \in net : m.to = Remote => m.from = Us
    BY <1>4, PacketFields
  <2>6. \A m \in net' : m \in net \/ (m.to = Remote /\ m.port = "control")
    BY <2>1, PacketFields
  <2>7. ~InvTo("data")'
    BY <1>1, <2>1, <2>5, <2>6, Distinct DEF InvTo, Invited
  <2>8. \A port : ~OkFrom(port)'
    BY <1>1, <2>1, <2>4, <2>6, Distinct DEF OkFrom, Invited
  <2>9. QED
    BY <2>1, <2>2, <2>7, <2>8 DEF InTurn
<1>7. CASE ByPeers
  <2>1. UNCHANGED <<table, doubled>> /\ (Ours' <=> Ours) /\ ctx' = ctx
    BY <1>7, PeersDo, SameTable
  <2>2. ASSUME NEW p \in Peer, PeerInvites(p) \/ PeerLeaves(p) \/ \E m \in net : PeerAccepted(p, m)
        PROVE  InTurn'
    <3>1. rstate' = rstate
      BY <2>2 DEF PeerInvites, PeerLeaves, PeerAccepted
    <3>2. \A m \in net' : m \in net \/ (m.to = Us /\ m.type # "OK")
      BY <2>2, PacketFields DEF PeerInvites, PeerLeaves, PeerAccepted
    <3>3. QED
      BY <1>2, <2>1, <3>1, <3>2, Distinct
  <2>3. ASSUME NEW m \in net, RemoteAccepts(m) PROVE InTurn'
    <3>1. /\ m.to = Remote /\ rstate # "left" /\ m.port \in {"control", "data"}
          /\ m = Packet("INV", Us, Remote, m.port, 1, Us)
          /\ rstate' = IF m.port = "data" THEN "in" ELSE IF rstate = "out" THEN "half" ELSE rstate
          /\ net' = (net \ {m}) \cup {Packet("OK", Remote, Us, m.port, Remote, Us)}
      <4>1. m.to = Remote /\ m = Packet("INV", Us, Remote, m.port, 1, Us) /\ m.port \in {"control", "data"}
        BY <1>4, <2>3 DEF RemoteAccepts, Port
      <4>2. m.initiator = Us
        BY <4>1, PacketFields
      <4>3. QED
        BY <2>3, <4>1, <4>2 DEF RemoteAccepts
    <3>2. InvTo(m.port)
      BY <3>1 DEF InvTo
    <3>3. \A port : InvTo(port)' => InvTo(port) /\ port # m.port
      BY <1>4, <3>1, PacketFields, Distinct DEF InvTo
    <3>4. \A port : OkFrom(port)' => OkFrom(port) \/ port = m.port
      BY <3>1, PacketFields DEF OkFrom
    <3>5. QED
      BY <1>1, <2>1, <3>1, <3>2, <3>3, <3>4 DEF InTurn, Ranges
  <2>4. ASSUME NEW m \in net, RemoteRefuses(m) PROVE InTurn'
    <3>1. rstate' = "left" /\ net' \subseteq net
      BY <2>4 DEF RemoteRefuses
    <3>2. \A port : (InvTo(port)' => InvTo(port)) /\ (OkFrom(port)' => OkFrom(port))
      BY <3>1 DEF InvTo, OkFrom
    <3>3. QED
      BY <1>1, <2>1, <3>1, <3>2 DEF InTurn
  <2>5. ASSUME RemoteLeaves PROVE InTurn'
    <3>1. rstate' = "left" /\ \A m \in net' : m \in net \/ (m.to = Us /\ m.type = "BY")
      BY <2>5, PacketFields DEF RemoteLeaves
    <3>2. \A port : (InvTo(port)' => InvTo(port)) /\ (OkFrom(port)' => OkFrom(port))
      BY <3>1, Distinct DEF InvTo, OkFrom
    <3>3. QED
      BY <1>1, <2>1, <3>1, <3>2 DEF InTurn
  <2>6. QED
    BY <1>7, <2>2, <2>3, <2>4, <2>5 DEF ByPeers
<1>8. ASSUME NEW m \in net, NEW again \in BOOLEAN, Inv(m, again) PROVE InTurn'
  <2>1. PICK s \in Slot, n \in Nat : InvEffect(m.from, s, m.port, n)
    BY <1>1, <1>8, InvDoes
  <2>2. m.from \in Peer
    BY <1>1, <1>8, InvDoes
  <2>3. UNCHANGED <<rstate, doubled>> /\ \A k \in net' : k \in net \/ k.to \in Peer
    BY <2>1, <2>2, PacketFields DEF InvEffect
  <2>4. (Ours' <=> Ours) /\ (Ours => ctx'[0] = ctx[0])
    BY <1>1, <1>8, OursKeeps
  <2>5. QED
    BY <1>2, <2>3, <2>4, Distinct
<1>9. ASSUME NEW m \in net, NEW again \in BOOLEAN, OkUnexpected(m, again) PROVE InTurn'
  <2>1. UNCHANGED <<table, rstate>> /\ net' \subseteq net /\ (doubled => doubled')
    BY <1>9 DEF OkUnexpected, Receive
  <2>2. \A port : (InvTo(port)' => InvTo(port)) /\ (OkFrom(port)' => OkFrom(port))
    BY <2>1 DEF InvTo, OkFrom
  <2>3. (Ours' <=> Ours) /\ ctx' = ctx
    BY <2>1, SameTable
  <2>4. QED
    BY <1>1, <2>1, <2>2, <2>3 DEF InTurn
<1>10. ASSUME NEW m \in net, NEW again \in BOOLEAN, OkFirst(m, again) \/ OkSecond(m, again), ~doubled'
       PROVE  InTurn'
  <2>1. /\ Ours /\ rstate' = rstate /\ m.to = Us /\ m.type = "OK"
        /\ ctx \in [Slot -> Fields] /\ 0 \in Slot
    BY <1>1, <1>10, OkDoes, SlotBounds DEF Slots
  <2>2. ~again /\ ~doubled
    BY <1>10 DEF OkFirst, OkSecond, Receive
  <2>3. OkFrom(m.port) /\ m = Packet("OK", Remote, Us, m.port, Remote, Us) /\ m.port \in {"control", "data"}
    BY <1>1, <1>3, <2>1 DEF OkFrom, OnTheWay, Port
  <2>4. \A k \in net \ {m} : k.to = Us /\ k.type = "OK" => k.port # m.port
    BY <1>3, <2>3
  <2>5. CASE OkFirst(m, again)
    <3>1. /\ ctx[0].status = "FIRST_INV"
          /\ ctx' = [ctx EXCEPT ![0].ssrc = Remote, ![0].status = "SECOND_INV"]
          /\ net' = (net \ {m}) \cup {Packet("INV", Us, Remote, "data", 1, Us)}
      BY <1>1, <2>2, <2>5, OkDoes DEF Receive
    <3>2. ctx'[0].status = "SECOND_INV"
      BY <2>1, <3>1 DEF Fields
    <3>3. ~InvTo("data") /\ ~OkFrom("data") /\ ~(InvTo("control") /\ OkFrom("control"))
      BY <1>1, <2>1, <2>2, <3>1 DEF InTurn
    <3>4. m.port = "control"
      BY <2>3, <3>3
    <3>5. \A k \in net' : k \in net \ {m} \/ (k.to = Remote /\ k.port = "data")
      BY <3>1, PacketFields
    <3>6. ~InvTo("control")'
      BY <2>3, <3>3, <3>4, <3>5 DEF InvTo
    <3>7. ~OkFrom("control")' /\ ~OkFrom("data")'
      BY <2>4, <3>3, <3>4, <3>5, Distinct DEF OkFrom
    <3>8. QED
      BY <3>2, <3>6, <3>7 DEF InTurn
  <2>6. CASE OkSecond(m, again)
    <3>1. /\ ctx[0].status = "SECOND_INV"
          /\ ctx' = [ctx EXCEPT ![0].status = "REMOTE_CONNECTION"]
      BY <1>1, <2>6, OkDoes
    <3>2. ctx'[0].status = "REMOTE_CONNECTION"
      BY <2>1, <3>1 DEF Fields
    <3>3. ~OkFrom("control") /\ (OkFrom("data") => rstate \in {"in", "left"})
      BY <1>1, <2>1, <2>2, <3>1 DEF InTurn
    <3>4. QED
      BY <2>1, <2>3, <3>2, <3>3 DEF InTurn
  <2>7. QED
    BY <1>10, <2>5, <2>6
<1>11. ASSUME NEW m \in net, NEW again \in BOOLEAN, By(m, again) PROVE InTurn'
  <2>1. UNCHANGED <<rstate, doubled>> /\ net' \subseteq net
    BY <1>1, <1>11, ByDoes
  <2>2. Ours' => Ours /\ ctx'[0] = ctx[0]
    BY <1>1, <1>11, OursKeeps
  <2>3. QED
    BY <1>2, <2>1, <2>2
<1>12. doubled' => InTurn'
  BY DEF InTurn
<1>13. QED
  BY <1>5, <1>6, <1>7, <1>8, <1>9, <1>10, <1>11, <1>12, Steps

\* The slot the sync thread has found is given to another only if reused says so.
LEMMA StepSyncing == ASSUME ConnInv, [Next]_vars PROVE Syncing'
<1> USE DEF table, sync, peers, double
<1>1. Ranges /\ OnTheWay /\ Slots /\ Single /\ Syncing /\ sslot \in Slot
  BY DEF ConnInv, Ranges
<1>2. ASSUME UNCHANGED <<spc, sslot, sssrc, synced>>, reused => reused',
             spc \in {"wait", "send"} /\ ~reused' => ctx'[sslot].initiator = ctx[sslot].initiator
      PROVE  Syncing'
  BY <1>1, <1>2 DEF Syncing
<1>3. CASE SyncFind
  <2>1. spc' = "wait" => Ours /\ sslot' = 0
    BY <1>1, <1>3, FindOurs DEF SyncFind
  <2>2. spc' \in {"wait", "ended"} /\ spc = "find" /\ UNCHANGED <<ctx, synced>>
    BY <1>3 DEF SyncFind
  <2>3. QED
    BY <1>1, <2>1, <2>2 DEF Syncing, Ours
<1>4. CASE SyncWake
  <2>1. spc = "wait" /\ spc' \in {"send", "ended"} /\ UNCHANGED <<ctx, sslot, synced, reused>>
    BY <1>4 DEF SyncWake
  <2>2. spc' = "send" => sssrc' = ctx[sslot].send
    BY <1>4 DEF SyncWake
  <2>3. ~reused => ctx[sslot].initiator = Us /\ ctx[sslot].send = 1
    BY <1>1, <2>1 DEF Syncing, Slots, Own
  <2>4. QED
    BY <1>1, <2>1, <2>2, <2>3 DEF Syncing
<1>5. CASE SyncSend
  <2>1. /\ spc = "send" /\ spc' = "find"
        /\ synced' = IF Used(sslot) THEN [to |-> ctx[sslot].host, ssrc |-> sssrc, raced |-> reused] ELSE synced
    BY <1>5 DEF SyncSend
  <2>2. CASE Used(sslot)
    <3>1. ctx[sslot].initiator \in Peer \cup {Us} /\ ctx[sslot].host \in Peer \cup {Remote}
      BY <1>1, <2>2, Distinct DEF Used, Slots, Fields, OfPeer, Own
    <3>2. ~reused => ctx[sslot].host = Remote /\ sssrc = 1
      BY <1>1, <2>1 DEF Syncing, Slots, Own
    <3>3. /\ synced' \in [to : Peer \cup {Remote}, ssrc : Nat, raced : BOOLEAN]
          /\ synced'.raced = reused /\ synced'.to = ctx[sslot].host /\ synced'.ssrc = sssrc
      BY <1>1, <2>1, <2>2, <3>1 DEF Ranges
    <3>4. QED
      BY <2>1, <3>2, <3>3 DEF Syncing
  <2>3. CASE ~Used(sslot)
    BY <1>1, <2>1, <2>3 DEF Syncing
  <2>4. QED
    BY <2>2, <2>3
<1>6. CASE Quiet /\ ~Sync
  BY <1>2, <1>6 DEF Quiet, RemoteNotFound, Quit, LoopEnds, Teardown, JoinNoThread, vars
\* a slot is registered
<1>7. ASSUME NEW s \in Slot, NEW fields \in Fields, fields.status # "UNUSED",
             ~Used(s), s <= count, Register(s, fields), UNCHANGED <<spc, sslot, sssrc, synced>>
      PROVE  Syncing'
  <2>1. (\A t \in Slot : t # s => ctx'[t] = ctx[t]) /\ reused' = (reused \/ (spc \in {"wait", "send"} /\ s = sslot))
    BY <1>1, <1>7, RegisterUsed
  <2>2. QED
    BY <1>1, <1>2, <1>7, <2>1
<1>8. CASE RemoteConnectInit
  <2> DEFINE c == [status |-> "FIRST_INV", ssrc |-> 1, initiator |-> Us,
                   send |-> 1, host |-> Remote, control |-> "control"]
  <2>1. /\ count = 0 /\ ~Used(0) /\ 0 \in Slot /\ 0 <= count /\ c \in Fields /\ c.status # "UNUSED"
        /\ Register(0, c) /\ UNCHANGED <<spc, sslot, sssrc, synced>>
    BY <1>1, <1>8, ConnectDoes, SlotBounds, RegisteredFields
  <2> HIDE DEF c
  <2>2. QED
    BY <1>7, <2>1
<1>9. CASE ByPeers
  BY <1>2, <1>9, PeersDo
<1>10. ASSUME NEW m \in net, NEW again \in BOOLEAN, Inv(m, again) PROVE Syncing'
  <2>1. PICK s \in Slot, n \in Nat : InvEffect(m.from, s, m.port, n)
    BY <1>1, <1>10, InvDoes
  <2>2. m.from \in Peer /\ m.port \in Port /\ UNCHANGED <<spc, sslot, sssrc, synced>>
    BY <1>1, <1>10, <2>1, InvDoes DEF InvEffect
  <2>3. CASE UNCHANGED <<table, reused>>
    BY <1>2, <2>2, <2>3
  <2>4. CASE ~Used(s) /\ s <= count /\ Register(s, Accepted(m.from, s, m.port, n))
    <3>1. Accepted(m.from, s, m.port, n) \in Fields /\ Accepted(m.from, s, m.port, n).status # "UNUSED"
      BY <2>2, RegisteredFields DEF Accepted
    <3>2. QED
      BY <1>7, <2>2, <2>4, <3>1
  <2>5. QED
    BY <2>1, <2>3, <2>4 DEF InvEffect
<1>11. ASSUME NEW m \in net, NEW again \in BOOLEAN, OkUnexpected(m, again) PROVE Syncing'
  BY <1>2, <1>11 DEF OkUnexpected, Receive
<1>12. ASSUME NEW m \in net, NEW again \in BOOLEAN, OkFirst(m, again) \/ OkSecond(m, again) PROVE Syncing'
  <2>1. /\ ctx'[sslot].initiator = ctx[sslot].initiator
        /\ UNCHANGED <<sslot, sssrc, reused>>
        /\ \/ spc' = spc /\ synced' = synced
           \/ spc' = "find" /\ synced' = [to |-> Remote, ssrc |-> 1, raced |-> FALSE]
    BY <1>1, <1>12, OkKeeps, OkDoes
  <2>2. CASE spc' = spc /\ synced' = synced
    BY <1>1, <2>1, <2>2 DEF Syncing
  <2>3. CASE spc' = "find" /\ synced' = [to |-> Remote, ssrc |-> 1, raced |-> FALSE]
    <3>1. synced' \in [to : Peer \cup {Remote}, ssrc : Nat, raced : BOOLEAN]
          /\ synced'.to = Remote /\ synced'.ssrc = 1
      BY <2>3
    <3>2. QED
      BY <2>3, <3>1 DEF Syncing
  <2>4. QED
    BY <2>1, <2>2, <2>3
<1>13. ASSUME NEW m \in net, NEW again \in BOOLEAN, By(m, again) PROVE Syncing'
  <2>1. ctx'[sslot].initiator = ctx[sslot].initiator /\ UNCHANGED <<spc, sslot, sssrc, synced, reused>>
    BY <1>1, <1>13, ByKeeps, ByDoes
  <2>2. QED
    BY <1>2, <2>1
<1>14. QED
  BY <1>3, <1>4, <1>5, <1>6, <1>8, <1>9, <1>10, <1>11, <1>12, <1>13, Steps DEF Sync, Quiet

\* Main sends BY to the connection it finds, which is its own.
LEMMA StepEnding == ASSUME ConnInv, [Next]_vars PROVE Ending'
<1> USE DEF table, sync, peers, double
<1>1. Ranges /\ OnTheWay /\ Slots /\ Single /\ Ending /\ 0 \in Slot
  BY SlotBounds DEF ConnInv
<1>2. CASE Teardown
  <2>1. CASE Ours
    <3>1. told' = ctx[0].send
      BY <1>1, <1>2, <2>1, FindOurs DEF Teardown
    <3>2. ctx[0].send = 1
      BY <1>1, <2>1 DEF Ours, Slots, Own
    <3>3. QED
      BY <3>1, <3>2 DEF Ending
  <2>2. CASE ~Ours
    <3>1. ~Ours'
      BY <1>2, <2>2, SameTable DEF Teardown
    <3>2. QED
      BY <3>1 DEF Ending
  <2>3. QED
    BY <2>1, <2>2
<1>3. CASE Quiet /\ ~Teardown
  <2>1. UNCHANGED <<table, told>> /\ (mpc' = "ended" => mpc = "ended")
    BY <1>3 DEF Quiet, RemoteNotFound, Quit, LoopEnds, JoinNoThread, Sync, SyncFind, SyncWake, SyncSend, vars
  <2>2. QED
    BY <1>1, <2>1, SameTable DEF Ending
<1>4. CASE RemoteConnectInit
  BY <1>4 DEF RemoteConnectInit, Ending
<1>5. CASE ByPeers
  BY <1>1, <1>5, PeersDo, SameTable DEF Ending
<1>6. ASSUME NEW m \in net, NEW again \in BOOLEAN, \/ Inv(m, again) \/ OkUnexpected(m, again)
                                                   \/ OkFirst(m, again) \/ OkSecond(m, again) \/ By(m, again)
      PROVE  Ending'
  BY <1>6 DEF Inv, OkUnexpected, OkFirst, OkSecond, By, Receive, Ending
<1>7. QED
  BY <1>2, <1>3, <1>4, <1>5, <1>6, Steps

\* What main finds before it opens or accepts a connection.
LEMMA InitConn == Init => ConnInv
<1> SUFFICES ASSUME Init PROVE ConnInv
  OBVIOUS
<1>1. /\ count = 0 /\ drawn = 0 /\ net = {} /\ mpc = "start" /\ spc = "off" /\ rstate = "out" /\ synced = NONE
      /\ \A s \in Slot : ~Used(s)
  BY SlotBounds DEF Init, Used
<1>2. Ranges
  <2>1. count \in 0..Cardinality(Peer) + 1 /\ sslot \in Slot /\ doubles \in 0..MaxDoubles
    BY SlotBounds, PeerAssumption DEF Init
  <2>2. QED
    BY <2>1 DEF Init, Ranges
<1>3. OnTheWay /\ Invited /\ InTurn /\ Syncing /\ Ending
  BY <1>1, SlotBounds DEF OnTheWay, Invited, InTurn, Syncing, Ending, Ours, OkFrom
<1>4. Slots
  <2>1. ctx = [s \in Slot |-> [status |-> "UNUSED", ssrc |-> NONE, initiator |-> NONE,
                               send |-> 0, host |-> NONE, control |-> "control"]]
    BY DEF Init
  <2>2. ctx \in [Slot -> Fields]
    BY <2>1 DEF Fields, Status, Ssrc, Port
  <2>3. QED
    BY <1>1, <2>1, <2>2, Distinct DEF Slots
<1>5. Single
  BY <1>1 DEF Single
<1>6. Inviting
  BY <1>1 DEF Init, Inviting, Member, Of
<1>7. QED
  BY <1>2, <1>3, <1>4, <1>5, <1>6 DEF ConnInv

\* The invariant holds of every run.
THEOREM ConnectionsInvariant == Spec => []ConnInv
<1>1. ConnInv /\ [Next]_vars => ConnInv'
  <2> SUFFICES ASSUME ConnInv, [Next]_vars PROVE ConnInv'
    OBVIOUS
  <2>1. QED
    BY StepRanges, StepOnTheWay, StepSlots, StepSingle, StepInviting, StepInvited, StepInTurn, StepSyncing,
       StepEnding DEF ConnInv
<1>2. QED
  BY InitConn, <1>1, PTL DEF Spec

\* The table never needs more slots than there are peers, and one more.
THEOREM ConnectionsTypeOK == Spec => []TypeOK
<1>1. ASSUME ConnInv PROVE TypeOK
  <2>1. Ranges /\ Slots /\ Syncing
    BY <1>1 DEF ConnInv
  <2>2. rssrc \in Nat /\ told \in Nat
    BY <2>1 DEF Ranges
  <2>3. QED
    BY <2>1, <2>2 DEF TypeOK, Ranges, Slots, Syncing, Fields
<1>2. ConnInv => TypeOK
  BY <1>1
<1>3. QED
  BY ConnectionsInvariant, <1>2, PTL

\* An SSRC is in the table once: net_ctx_find_by_ssrc finds the one session it belongs to.
THEOREM ConnectionsUniqueSsrc == Spec => []UniqueSsrc
<1>1. ASSUME ConnInv, NEW s \in Slot, NEW t \in Slot, Used(s), Used(t), ctx[s].ssrc = ctx[t].ssrc
      PROVE  s = t
  <2>1. Slots /\ Single
    BY <1>1 DEF ConnInv
  <2>2. ctx[s].initiator \in Peer \cup {Us} /\ ctx[t].initiator \in Peer \cup {Us}
    BY <1>1, <2>1, Distinct DEF Slots, Fields, Used
  <2>3. ctx[s].initiator = ctx[t].initiator
    BY <1>1, <2>1, <2>2, Distinct DEF Slots, OfPeer, Own
  <2>4. QED
    BY <1>1, <2>1, <2>3 DEF Single
<1>2. ConnInv => UniqueSsrc
  BY <1>1 DEF UniqueSsrc
<1>3. QED
  BY ConnectionsInvariant, <1>2, PTL

\* A peer with an OK to both its invitations has a slot with both its ports, and knows
\* raveloxmidi by the SSRC in that slot, whoever came and went meanwhile.
THEOREM ConnectionsBothSidesAgree == Spec => []BothSidesAgree
<1>1. ASSUME ConnInv, NEW p \in Peer, pstate[p] = "in"
      PROVE  \E s \in Slot : /\ Used(s)
                             /\ ctx[s].ssrc = p /\ ctx[s].host = p /\ ctx[s].initiator = p
                             /\ ctx[s].control = "control"
                             /\ ctx[s].send = pssrc[p]
  <2>1. Slots /\ Member(p)
    BY <1>1 DEF ConnInv, Inviting
  <2>2. PICK s \in Of(p) : ctx[s].send = pssrc[p]
    BY <1>1, <2>1 DEF Member
  <2>3. QED
    BY <2>1, <2>2 DEF Member, Of, Slots, OfPeer
<1>2. ConnInv => BothSidesAgree
  BY <1>1 DEF BothSidesAgree
<1>3. QED
  BY ConnectionsInvariant, <1>2, PTL

\* The OK to a late invitation, and the answer to CK, carry the SSRC the peer knows.
THEOREM ConnectionsAnswers == Spec => []AnswersFromSession
<1>1. ASSUME ConnInv, NEW p \in Peer, pstate[p] = "in"
      PROVE  /\ \A m \in net : m.type = "OK" /\ m.to = p => m.ssrc = pssrc[p]
             /\ CkReply(p, 0) = [ssrc |-> pssrc[p], n |-> 1]
  <2>1. Slots /\ Single /\ Member(p)
    BY <1>1 DEF ConnInv, Inviting
  <2>2. PICK s \in Of(p) : ctx[s].send = pssrc[p]
    BY <1>1, <2>1 DEF Member
  <2>3. Of(p) = {s} /\ First(Of(p)) = s /\ FindBySsrc(p) = Of(p)
    BY <2>1, FindPeer
  <2>4. \A m \in net : m.to = p => m.ssrc = pssrc[p]
    BY <2>1, <2>2, <2>3 DEF Member
  <2>5. CkReply(p, 0) = [ssrc |-> pssrc[p], n |-> 1]
    BY <2>2, <2>3 DEF CkReply
  <2>6. QED
    BY <2>4, <2>5
<1>2. ConnInv => AnswersFromSession
  BY <1>1 DEF AnswersFromSession
<1>3. QED
  BY ConnectionsInvariant, <1>2, PTL

\* The connection raveloxmidi opens is made only when Remote has accepted both invitations,
\* unless an OK was doubled.
THEOREM ConnectionsEstablished == Spec => []EstablishedBothPorts
<1>1. ASSUME ConnInv, NEW s \in Slot, Used(s), ctx[s].status = "REMOTE_CONNECTION", ~doubled
      PROVE  rstate \in {"in", "left"} /\ ctx[s].ssrc = Remote /\ ctx[s].send = rssrc
  <2>1. Slots /\ Invited /\ InTurn
    BY <1>1 DEF ConnInv
  <2>2. s = 0 /\ ctx[s].initiator = Us /\ Own(ctx[0])
    BY <1>1, <2>1, Distinct DEF Slots, Fields, OfPeer
  <2>3. Ours
    BY <1>1, <2>2 DEF Ours
  <2>4. QED
    BY <1>1, <2>1, <2>2, <2>3 DEF Invited, InTurn, Own
<1>2. ConnInv => EstablishedBothPorts
  BY <1>1 DEF EstablishedBothPorts
<1>3. QED
  BY ConnectionsInvariant, <1>2, PTL

\* CK goes to Remote with the SSRC it knows, although the sync thread reads the slot without a
\* lock, unless the slot was given to another while it waited.
THEOREM ConnectionsSyncsRemote == Spec => []SyncsRemote
<1>1. ConnInv => SyncsRemote
  BY DEF ConnInv, Syncing, Invited, SyncsRemote
<1>2. QED
  BY ConnectionsInvariant, <1>1, PTL

\* At the end, Remote is sent BY with the SSRC it knows, if it is in a session.
THEOREM ConnectionsBye == Spec => []ByeAtTheEnd
<1>1. ConnInv => ByeAtTheEnd
  BY DEF ConnInv, Ending, Invited, ByeAtTheEnd
<1>2. QED
  BY ConnectionsInvariant, <1>1, PTL
=============================================================================
