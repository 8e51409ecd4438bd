---------------------------- MODULE SessionProofs ---------------------------
(***************************************************************************)
(* For any number of peers and commands, and whatever packets are lost:    *)
(* nothing is sent back to where it came from, every open connection is    *)
(* reached, packets are numbered one after the other, and from any packet  *)
(* that arrives a peer knows everything that was sent to it before.        *)
(***************************************************************************)
EXTENDS Session, FiniteSetTheorems, FunctionTheorems, SequenceTheorems, TLAPS

-----------------------------------------------------------------------------
\* The queue thread is working on the connection of slot index; it has raised the
\* sequence number and not yet sent; its packet is for the session it began with.
InFlight  == spc \in {"pack", "increment", "readseq", "readssrc", "send", "journal"}
BeforeSend == spc \in {"pack", "increment", "readseq", "readssrc", "send"}
Raised    == spc \in {"readseq", "readssrc", "send"}

\* The session in slot s is open and has not said BY.
Live(s) == used[s] /\ peer[s] \notin left
OnTarget == Live(index) /\ peer[index] = begun

\* A peer is in one slot at most, and stays the last of its slot until another
\* joins.
Table ==
    /\ \A s \in Slot : peer[s] \in joined \cup {NONE}
    /\ \A s, t \in Slot : peer[s] = peer[t] /\ peer[s] # NONE => s = t
    /\ \A s \in Slot : s < count <=> peer[s] # NONE
    /\ \A s \in Slot : used[s] => s < count
    /\ mpc # "idle" => used[slot]
    /\ mpc = "closing" => peer[slot] \in left
    /\ mpc = "resetting" => peer[slot] \notin left

\* What the loop of the queue thread relies on: a slot it works on may go to
\* another peer, but only to one that has joined since, to which nothing was sent.
Loop ==
    /\ InFlight => index < total
    /\ spc # "idle" => command \in Command /\ originator \in joined \cup {Local}
    /\ InFlight => peer[index] # originator /\ begun \in joined
    /\ BeforeSend /\ peer[index] # begun => \A k \in 1..Len(sent) : sent[k].to # peer[index]
    /\ \A k \in 1..Len(sent) : sent[k].to \in joined
    /\ NotEchoed

\* Whoever is still to be reached is in a slot the loop has not passed.
Ahead(s) == s < total /\ (IF spc = "journal" THEN s > index ELSE s >= index)
Reach ==
    /\ ReachesActive
    /\ spc # "idle" => originator \notin toReach
    /\ spc # "idle" => \A p \in toReach : \E s \in Slot : used[s] /\ peer[s] = p /\ Ahead(s)

\* The number of the last packet sent to the session in slot s.
LastSeq(s) == IF Raised /\ index = s THEN seq[s] - 1 ELSE seq[s]

\* The packets of the session in slot s are numbered up to LastSeq, each above the
\* ones before it; the number the queue thread has read is the one for the next.
Counted ==
    \A s \in Slot : \A k \in Accepted(peer[s]) : Live(s) /\ ~Stray(k) =>
        /\ sent[k].seq <= LastSeq(s)
        /\ (\A j \in Accepted(peer[s]) : j <= k) => sent[k].seq = LastSeq(s)
Rising ==
    \A p \in Peer : \A j, k \in Accepted(p) :
        j < k /\ ~Stray(j) /\ ~Stray(k) => sent[j].seq < sent[k].seq
Prepared ==
    /\ spc \in {"readssrc", "send"} /\ OnTarget => rtp.seq = seq[index]
    /\ spc = "send" /\ OnTarget => rtp.ssrc = begun
Numbered == Counted /\ Rising /\ Prepared /\ SeqConsecutive

\* The sessions Recoverable speaks of; the packets that brought an event which must
\* not be lost; what a packet tells, and what a peer is known to know.
Clean(p)       == \A k \in Accepted(p) : ~Stray(k)
Bears(p, j, e) == sent[j].event = e /\ <<p, e>> \notin raced
Tells(k, e)    == e = sent[k].event \/ e \in sent[k].journal
Knows(p, e)    == \E k \in acked \cap Accepted(p) : Tells(k, e)

\* The event of every packet is known to its peer, or in the journal of its slot or
\* about to be added to it, and then in the journal that is packed; a reset that has
\* been decided on drops nothing older that is not known.
Journalled ==
    \A s \in Slot : Live(s) /\ Clean(peer[s]) =>
        \A j \in Accepted(peer[s]) : \A e \in Journaled : Bears(peer[s], j, e) =>
            \/ Knows(peer[s], e)
            \/ e \in journal[s]
            \/ spc = "journal" /\ index = s /\ command = e
Packed ==
    spc \in {"increment", "readseq", "readssrc", "send"} /\ OnTarget /\ Clean(begun) =>
        \A j \in Accepted(begun) : \A e \in Journaled : Bears(begun, j, e) =>
            Knows(begun, e) \/ e \in packed
Resetting ==
    mpc = "resetting" /\ Clean(peer[slot]) =>
        /\ found <= LastSeq(slot)
        /\ \A j \in Accepted(peer[slot]) : \A e \in Journaled :
              Bears(peer[slot], j, e) /\ sent[j].seq <= found => Knows(peer[slot], e)

\* Recoverable, in these terms.
Told ==
    \A p \in Peer : Clean(p) =>
        \A k, j \in Accepted(p) : \A e \in Journaled : j <= k /\ Bears(p, j, e) =>
            Knows(p, e) \/ Tells(k, e)

Kept == Journalled /\ Packed /\ Resetting /\ Recoverable

\* The inductive invariant.
SessionInv == TypeOK /\ Table /\ Loop /\ Reach /\ Numbered /\ Kept


\* The table that net_ctx_init makes.
LEMMA InitSession == Init => SessionInv
<1> SUFFICES ASSUME Init PROVE SessionInv
  OBVIOUS
<1>1. Cardinality(Peer) \in Nat
  BY PeerAssumption, FS_CardinalityType
<1>2. Len(sent) = 0 /\ sent = <<>>
  BY EmptySeq DEF Init
<1>3. \A p \in Peer : Accepted(p) = {}
  BY <1>2 DEF Accepted
<1>4. TypeOK
  BY <1>1, <1>2, EmptySeq DEF Init, TypeOK, Slot, NoFields
<1>5. Table
  BY <1>1 DEF Init, Table, Slot
<1>6. Loop
  BY <1>2 DEF Init, Loop, InFlight, BeforeSend, NotEchoed
<1>7. Reach
  BY DEF Init, Reach, ReachesActive
<1>8. Numbered
  BY <1>3 DEF Init, Numbered, Counted, Rising, Prepared, SeqConsecutive, Live
<1>9. Kept
  BY <1>3 DEF Init, Kept, Journalled, Packed, Resetting, Recoverable, Live
<1>10. QED
  BY <1>4, <1>5, <1>6, <1>7, <1>8, <1>9 DEF SessionInv

\* The slots that are allocated are slots, and so is the one the queue thread is at.
LEMMA Bounds ==
    ASSUME TypeOK, Table, Loop
    PROVE  /\ Cardinality(Peer) \in Nat /\ count \in Nat /\ total \in Nat /\ index \in Nat
           /\ \A s \in Slot : s \in Nat
           /\ \A s \in Nat : s < count => s \in Slot /\ peer[s] \in joined
           /\ InFlight \/ index < total => index \in Slot /\ index < count /\ peer[index] \in joined
<1>1. Cardinality(Peer) \in Nat
  BY PeerAssumption, FS_CardinalityType
<1>2. count \in Nat /\ total \in Nat /\ index \in Nat /\ total <= count
  BY <1>1 DEF TypeOK
<1>3. \A s \in Slot : s \in Nat
  BY <1>1 DEF Slot
<1>4. \A s \in Nat : s < count => s \in Slot
  BY <1>1, <1>2 DEF Slot, TypeOK
<1>5. \A s \in Nat : s < count => peer[s] \in joined
  BY <1>4 DEF Table
<1>6. InFlight => index < total
  BY DEF Loop
<1>7. QED
  BY <1>1, <1>2, <1>3, <1>4, <1>5, <1>6

\* What a packet that was sent is made of.
LEMMA SentType ==
    ASSUME TypeOK, NEW k \in 1..Len(sent)
    PROVE  /\ sent[k].to \in Peer /\ sent[k].from \in Peer \cup {Local}
           /\ sent[k].seq \in Nat /\ sent[k].event \in Command
           /\ sent[k].journal \subseteq Journaled /\ sent[k].accepted \in BOOLEAN
<1> DEFINE R == [to : Peer, from : Peer \cup {Local}, seq : Nat, event : Command,
                 journal : SUBSET Journaled, begun : Peer \cup {NONE}, accepted : BOOLEAN]
<1>1. sent \in Seq(R)
  BY DEF TypeOK
<1> HIDE DEF R
<1>2. sent[k] \in R
  BY <1>1, ElementOfSeq
<1> USE DEF R
<1>3. QED
  BY <1>2

\* Every slot that is allocated has had a peer of its own, so there is a slot for a
\* peer that joins.
LEMMA RoomLeft ==
    ASSUME TypeOK, Table, Loop, NEW p \in Peer, p \notin joined
    PROVE  count \in Slot
<1> DEFINE S == 0..(count - 1)
           T == Peer \ {p}
           f == [s \in S |-> peer[s]]
<1>1. Cardinality(Peer) \in Nat /\ count \in Nat
  BY Bounds
<1>2. IsFiniteSet(T) /\ Cardinality(T) = Cardinality(Peer) - 1
  BY PeerAssumption, FS_RemoveElement
<1>3. \A s \in S : s \in Nat /\ s < count
  BY <1>1
<1>4. \A s \in S : s \in Slot /\ peer[s] \in joined
  BY <1>3, Bounds
<1>5. f \in [S -> T]
  BY <1>4 DEF TypeOK
<1>6. \A s, t \in S : f[s] = f[t] => s = t
  BY <1>4, NoneAssumption DEF Table, TypeOK
<1>7. f \in Injection(S, T)
  BY <1>5, <1>6 DEF Injection, IsInjective
<1>8. Cardinality(S) <= Cardinality(T)
  BY <1>2, <1>7, FS_Injection
<1>9. Cardinality(S) = count
  <2>1. Cardinality(0..(count - 1)) = IF 0 > count - 1 THEN 0 ELSE (count - 1) - 0 + 1
    BY <1>1, FS_Interval
  <2>2. QED
    BY <1>1, <2>1
<1>10. count <= Cardinality(Peer) - 1
  BY <1>2, <1>8, <1>9
<1>11. QED
  BY <1>1, <1>10 DEF Slot

-----------------------------------------------------------------------------
\* What a step of the table does: the first unused slot gets the peer.
LEMMA InviteSlot ==
    ASSUME TypeOK, Table, Loop, NEW p \in Peer, Invite(p)
    PROVE  \E s \in Slot :
              /\ s <= count /\ ~used[s]
              /\ peer' = [peer EXCEPT ![s] = p] /\ used' = [used EXCEPT ![s] = TRUE]
              /\ count' = IF s = count THEN count + 1 ELSE count
              /\ mpc = "idle" /\ p \notin joined /\ joined' = joined \cup {p}
              /\ UNCHANGED <<seq, journal, sender, main, taken, left, sent, acked, raced, toReach>>
<1>1. PICK s \in 0..count :
         /\ FirstUnused(s)
         /\ peer' = [peer EXCEPT ![s] = p]
         /\ used' = [used EXCEPT ![s] = TRUE]
         /\ count' = IF s = count THEN count + 1 ELSE count
  BY DEF Invite
<1>2. p \notin joined
  BY DEF Invite
<1>3. count \in Slot
  BY <1>2, RoomLeft
<1>4. s \in Slot
  BY <1>1, <1>3, Bounds
<1>5. ~used[s]
  BY <1>1, <1>3, <1>4, Bounds DEF FirstUnused, Table, TypeOK
<1>6. s <= count
  BY <1>1, Bounds
<1>7. QED
  BY <1>1, <1>2, <1>4, <1>5, <1>6 DEF Invite

-----------------------------------------------------------------------------
\* Every variable keeps its range.
LEMMA StepTypeOK == ASSUME SessionInv, [Next]_vars PROVE TypeOK'
<1> USE DEF table, sender, main, net, Found, Leave
<1>1. TypeOK /\ Table /\ Loop
  BY DEF SessionInv
<1>2. /\ Cardinality(Peer) \in Nat /\ count \in Nat /\ total \in Nat /\ index \in Nat
      /\ InFlight \/ index < total => index \in Slot
  BY <1>1, Bounds
<1>3. ASSUME NEW c \in Command, NEW from \in joined \cup {Local}, Take(c, from) PROVE TypeOK'
  <2>1. total' \in 0..count' /\ index' \in 0..total'
    BY <1>2, <1>3 DEF Take
  <2>2. toReach' \subseteq Peer
    BY <1>1, <1>3, Bounds DEF Take, Active, TypeOK, Table
  <2>3. QED
    BY <1>1, <1>3, <2>1, <2>2 DEF Take, TypeOK
<1>4. CASE Compare
  BY <1>1, <1>2, <1>4 DEF Compare, NextConnection, NoFields, TypeOK
<1>5. CASE NoConnections
  BY <1>1, <1>2, <1>5 DEF NoConnections, TypeOK
<1>6. CASE PackJournal
  BY <1>1, <1>2, <1>6 DEF PackJournal, TypeOK, InFlight
<1>7. CASE IncrementSeq
  BY <1>1, <1>2, <1>7 DEF IncrementSeq, TypeOK, InFlight
<1>8. CASE ReadSeq
  BY <1>1, <1>2, <1>8 DEF ReadSeq, TypeOK, InFlight
<1>9. CASE ReadSsrc
  BY <1>1, <1>2, <1>9 DEF ReadSsrc, TypeOK, InFlight
<1>10. CASE Send
  <2>1. index \in Slot /\ command \in Command /\ originator \in Peer \cup {Local}
    BY <1>1, <1>2, <1>10 DEF Send, InFlight, Loop, TypeOK
  <2>2. CASE used[index]
    <3> DEFINE P == [to |-> peer[index], from |-> originator, seq |-> rtp.seq, event |-> command,
                     journal |-> packed, begun |-> begun,
                     accepted |-> rtp.ssrc = peer[index] /\ peer[index] \notin left]
               R == [to : Peer, from : Peer \cup {Local}, seq : Nat, event : Command,
                     journal : SUBSET Journaled, begun : Peer \cup {NONE}, accepted : BOOLEAN]
    <3>1. peer[index] \in Peer
      BY <1>1, <2>1, <2>2 DEF Table, TypeOK
    <3>2. P \in R
      BY <1>1, <2>1, <3>1 DEF TypeOK
    <3>3. sent' = Append(sent, P)
      BY <1>10, <2>2 DEF Send
    <3>4. sent \in Seq(R)
      BY <1>1 DEF TypeOK
    <3> HIDE DEF P, R
    <3>5. sent' \in Seq(R) /\ Len(sent') = Len(sent) + 1 /\ Len(sent) \in Nat
      BY <3>2, <3>3, <3>4, AppendProperties, LenProperties
    <3>6. acked' \subseteq 1..Len(sent')
      BY <1>1, <1>10, <3>5 DEF Send, TypeOK
    <3> USE DEF R
    <3>7. toReach' \subseteq Peer
      BY <1>1, <1>10, <2>2 DEF Send, TypeOK
    <3>8. QED
      BY <1>1, <1>10, <3>5, <3>6, <3>7 DEF Send, TypeOK
  <2>3. CASE ~used[index]
    BY <1>1, <1>10, <2>3 DEF Send, TypeOK
  <2>4. QED
    BY <2>2, <2>3
<1>11. CASE AddJournal
  <2>1. index \in Slot /\ command \in Command
    BY <1>1, <1>2, <1>11 DEF AddJournal, InFlight, Loop
  <2>2. journal' \in [Slot -> SUBSET Journaled]
    BY <1>1, <1>11, <2>1 DEF AddJournal, TypeOK
  <2>3. index' \in 0..total' /\ total' \in 0..count'
    BY <1>1, <1>2, <1>11 DEF AddJournal, NextConnection, TypeOK
  <2>4. QED
    BY <1>1, <1>2, <1>11, <2>2, <2>3 DEF AddJournal, NextConnection, NoFields, TypeOK
<1>12. ASSUME NEW p \in Peer, Invite(p) PROVE TypeOK'
  <2>1. PICK s \in Slot :
              /\ s <= count /\ ~used[s]
              /\ peer' = [peer EXCEPT ![s] = p] /\ used' = [used EXCEPT ![s] = TRUE]
              /\ count' = IF s = count THEN count + 1 ELSE count
              /\ mpc = "idle" /\ p \notin joined /\ joined' = joined \cup {p}
              /\ UNCHANGED <<seq, journal, sender, main, taken, left, sent, acked, raced, toReach>>
    BY <1>1, <1>12, InviteSlot
  <2>2. count' \in 0..Cardinality(Peer) /\ total \in 0..count'
    BY <1>1, <1>2, <2>1 DEF TypeOK, Slot
  <2>3. QED
    BY <1>1, <1>12, <2>1, <2>2 DEF TypeOK
<1>13. ASSUME NEW p \in Peer, Bye(p) PROVE TypeOK'
  <2>1. PICK s \in FindBySsrc(p) : Found(s, 0, "closing") /\ journal' = [journal EXCEPT ![s] = {}]
    BY <1>13 DEF Bye
  <2>2. s \in Slot /\ s \in Nat /\ peer[s] = p /\ p \in joined
    BY <1>1, <1>2, <2>1, Bounds DEF FindBySsrc
  <2>3. QED
    BY <1>1, <1>13, <2>1, <2>2 DEF Bye, TypeOK
<1>14. CASE Close
  BY <1>1, <1>14 DEF Close, TypeOK
<1>15. ASSUME NEW p \in Peer, NEW k \in Accepted(p), Feedback(p, k) PROVE TypeOK'
  <2>1. PICK s \in FindBySsrc(p) : Found(s, seq[s], "resetting")
    BY <1>15 DEF Feedback
  <2>2. s \in Slot /\ s \in Nat /\ k \in 1..Len(sent)
    BY <1>1, <1>2, <2>1, Bounds DEF FindBySsrc, Accepted
  <2>3. QED
    BY <1>1, <1>15, <2>1, <2>2 DEF Feedback, TypeOK
<1>16. CASE ResetJournal
  <2>1. \A k \in 1..Len(sent) : sent[k].event \in Command
    BY <1>1, SentType
  <2>2. peer[slot] \in Peer
    BY <1>1, <1>16 DEF ResetJournal, TypeOK, Table
  <2>3. raced' \subseteq Peer \X Command
    BY <1>1, <1>16, <2>1, <2>2 DEF ResetJournal, DroppedLater, TypeOK
  <2>4. QED
    BY <1>1, <1>16, <2>3 DEF ResetJournal, TypeOK
<1>17. CASE UNCHANGED vars
  BY <1>1, <1>17 DEF vars, TypeOK
<1>18. QED
  BY <1>3, <1>4, <1>5, <1>6, <1>7, <1>8, <1>9, <1>10, <1>11, <1>12, <1>13, <1>14, <1>15,
     <1>16, <1>17 DEF Next, SenderStep, MainStep

\* A peer stays in the slot it joined in until another joins there.
LEMMA StepTable == ASSUME SessionInv, [Next]_vars PROVE Table'
<1> USE DEF table, sender, main, net, Found
<1>1. TypeOK /\ Table /\ Loop
  BY DEF SessionInv
<1>2. ASSUME SenderStep PROVE Table'
  <2>1. UNCHANGED <<count, peer, used, mpc, slot, joined, left>>
    BY <1>2 DEF SenderStep, Take, Compare, NextConnection, NoConnections, PackJournal, IncrementSeq,
                ReadSeq, ReadSsrc, Send, AddJournal
  <2>2. QED
    BY <1>1, <2>1 DEF Table
<1>3. ASSUME NEW p \in Peer, Invite(p) PROVE Table'
  <2>1. PICK s \in Slot :
              /\ s <= count /\ ~used[s]
              /\ peer' = [peer EXCEPT ![s] = p] /\ used' = [used EXCEPT ![s] = TRUE]
              /\ count' = IF s = count THEN count + 1 ELSE count
              /\ mpc = "idle" /\ p \notin joined /\ joined' = joined \cup {p}
              /\ UNCHANGED <<seq, journal, sender, main, taken, left, sent, acked, raced, toReach>>
    BY <1>1, <1>3, InviteSlot
  <2>2. count \in Nat /\ \A t \in Slot : t \in Nat
    BY <1>1, Bounds
  <2>3. \A t \in Slot : peer'[t] = (IF t = s THEN p ELSE peer[t]) /\ used'[t] = (t = s \/ used[t])
    BY <1>1, <2>1 DEF TypeOK
  <2>4. p # NONE
    BY NoneAssumption
  <2>5. \A t \in Slot : t < count' <=> t < count \/ t = s
    BY <2>1, <2>2
  <2>6. \A t \in Slot : peer'[t] \in joined' \cup {NONE} /\ (used'[t] => t < count')
    BY <1>1, <2>1, <2>3, <2>5 DEF Table
  <2>7. \A t, u \in Slot : peer'[t] = peer'[u] /\ peer'[t] # NONE => t = u
    BY <1>1, <2>1, <2>3, <2>4 DEF Table
  <2>8. \A t \in Slot : t < count' <=> peer'[t] # NONE
    BY <1>1, <2>3, <2>4, <2>5 DEF Table
  <2>9. mpc' = "idle"
    BY <2>1
  <2>10. QED
    BY <2>6, <2>7, <2>8, <2>9 DEF Table
<1>4. ASSUME NEW p \in Peer, Bye(p) PROVE Table'
  <2>1. PICK s \in FindBySsrc(p) : Found(s, 0, "closing") /\ journal' = [journal EXCEPT ![s] = {}]
    BY <1>4 DEF Bye
  <2>2. used[s] /\ peer[s] = p
    BY <2>1 DEF FindBySsrc
  <2>3. QED
    BY <1>1, <1>4, <2>1, <2>2 DEF Bye, Table
<1>5. CASE Close
  BY <1>1, <1>5 DEF Close, Table, TypeOK
<1>6. ASSUME NEW p \in Peer, NEW k \in Accepted(p), Feedback(p, k) PROVE Table'
  <2>1. PICK s \in FindBySsrc(p) : Found(s, seq[s], "resetting")
    BY <1>6 DEF Feedback
  <2>2. used[s] /\ peer[s] = p
    BY <2>1 DEF FindBySsrc
  <2>3. QED
    BY <1>1, <1>6, <2>1, <2>2 DEF Feedback, Table
<1>7. CASE ResetJournal
  BY <1>1, <1>7 DEF ResetJournal, Table
<1>8. CASE UNCHANGED vars
  BY <1>1, <1>8 DEF vars, Table
<1>9. QED
  BY <1>2, <1>3, <1>4, <1>5, <1>6, <1>7, <1>8 DEF Next, MainStep

-----------------------------------------------------------------------------
\* The packet the queue thread sends.
Packet == [to |-> peer[index], from |-> originator, seq |-> rtp.seq, event |-> command,
           journal |-> packed, begun |-> begun,
           accepted |-> rtp.ssrc = peer[index] /\ peer[index] \notin left]

\* A packet is sent to the session that is in the slot by now, behind all others.
LEMMA SendPacket ==
    ASSUME SessionInv, Send
    PROVE  /\ spc = "send" /\ spc' = "journal" /\ index \in Slot /\ index < total
           /\ Len(sent) \in Nat
           /\ UNCHANGED <<table, index, total, command, originator, packed, rtp, begun, main,
                          taken, joined, left, acked, raced>>
           /\ ~used[index] => sent' = sent /\ toReach' = toReach
           /\ used[index] =>
                 /\ Len(sent') = Len(sent) + 1
                 /\ \A k \in 1..Len(sent) : sent'[k] = sent[k]
                 /\ sent'[Len(sent) + 1] = Packet
                 /\ peer[index] \in Peer
                 /\ toReach' = toReach \ {peer[index]}
<1>1. TypeOK /\ Table /\ Loop /\ spc = "send"
  BY DEF SessionInv, Send
<1>2. index \in Slot /\ index < total
  BY <1>1, Bounds DEF InFlight, Loop
<1>3. Len(sent) \in Nat
  BY <1>1, LenProperties DEF TypeOK
<1>4. ASSUME used[index]
      PROVE  /\ sent' = Append(sent, Packet) /\ peer[index] \in Peer
             /\ toReach' = toReach \ {peer[index]}
  BY <1>1, <1>2, <1>4 DEF Send, Packet, Table, TypeOK
<1>5. ASSUME used[index]
      PROVE  /\ Len(sent') = Len(sent) + 1
             /\ \A k \in 1..Len(sent) : sent'[k] = sent[k]
             /\ sent'[Len(sent) + 1] = Packet
  <2> DEFINE R == [to : Peer, from : Peer \cup {Local}, seq : Nat, event : Command,
                   journal : SUBSET Journaled, begun : Peer \cup {NONE}, accepted : BOOLEAN]
  <2>1. sent \in Seq(R)
    BY <1>1 DEF TypeOK
  <2>2. command \in Command /\ originator \in Peer \cup {Local}
    BY <1>1 DEF Loop, TypeOK
  <2>3. Packet \in R
    BY <1>1, <1>4, <1>5, <2>2 DEF Packet, TypeOK
  <2> HIDE DEF R
  <2>4. QED
    BY <1>4, <1>5, <2>1, <2>3, AppendProperties
<1>6. QED
  BY <1>1, <1>2, <1>3, <1>4, <1>5 DEF Send

\* What was said of every packet, and holds of the new one, holds of all.
LEMMA SentBefore ==
    ASSUME SessionInv, Send, NEW k \in 1..Len(sent')
    PROVE  \/ k \in 1..Len(sent) /\ sent'[k] = sent[k]
           \/ used[index] /\ k = Len(sent) + 1 /\ sent'[k] = Packet
<1>1. CASE used[index]
  BY <1>1, SendPacket
<1>2. CASE ~used[index]
  BY <1>2, SendPacket
<1>3. QED
  BY <1>1, <1>2

\* What the queue thread relies on, between the sections of its loop.
LEMMA StepLoop == ASSUME SessionInv, [Next]_vars PROVE Loop'
<1> USE DEF sender, main, net, Found
<1>1. TypeOK /\ Table /\ Loop
  BY DEF SessionInv
<1>2. /\ count \in Nat /\ total \in Nat /\ index \in Nat
      /\ InFlight \/ index < total => index \in Slot /\ index < count /\ peer[index] \in joined
  BY <1>1, Bounds
<1>3. ASSUME NEW c \in Command, NEW from \in joined \cup {Local}, Take(c, from) PROVE Loop'
  BY <1>1, <1>3 DEF Take, table, Loop, InFlight, BeforeSend, NotEchoed
<1>4. CASE Compare
  BY <1>1, <1>2, <1>4 DEF Compare, NextConnection, Leave, table, Loop, InFlight, BeforeSend, NotEchoed
<1>5. CASE NoConnections
  BY <1>1, <1>5 DEF NoConnections, Leave, table, Loop, InFlight, BeforeSend, NotEchoed
<1>6. CASE PackJournal
  BY <1>1, <1>6 DEF PackJournal, table, Loop, InFlight, BeforeSend, NotEchoed
<1>7. CASE IncrementSeq
  BY <1>1, <1>7 DEF IncrementSeq, Loop, InFlight, BeforeSend, NotEchoed
<1>8. CASE ReadSeq
  BY <1>1, <1>8 DEF ReadSeq, table, Loop, InFlight, BeforeSend, NotEchoed
<1>9. CASE ReadSsrc
  BY <1>1, <1>9 DEF ReadSsrc, table, Loop, InFlight, BeforeSend, NotEchoed
<1>10. CASE Send
  <2>1. /\ spc = "send" /\ spc' = "journal"
        /\ UNCHANGED <<peer, index, total, command, originator, begun, joined>>
    BY <1>10, SendPacket DEF table
  <2>2. peer[index] \in joined /\ peer[index] # originator /\ begun \in joined
    BY <1>1, <1>2, <2>1 DEF Loop, InFlight
  <2>3. ASSUME NEW k \in 1..Len(sent') PROVE sent'[k].to \in joined /\ sent'[k].from # sent'[k].to
    <3>1. CASE k \in 1..Len(sent) /\ sent'[k] = sent[k]
      BY <1>1, <3>1 DEF Loop, NotEchoed
    <3>2. CASE sent'[k] = Packet
      BY <2>2, <3>2 DEF Packet
    <3>3. QED
      BY <1>10, <3>1, <3>2, SentBefore
  <2>4. QED
    BY <1>1, <2>1, <2>2, <2>3 DEF Loop, InFlight, BeforeSend, NotEchoed
<1>11. CASE AddJournal
  BY <1>1, <1>2, <1>11 DEF AddJournal, NextConnection, Leave, Loop, InFlight, BeforeSend, NotEchoed
<1>12. ASSUME NEW p \in Peer, Invite(p) PROVE Loop'
  <2>1. PICK s \in Slot :
              /\ s <= count /\ ~used[s]
              /\ peer' = [peer EXCEPT ![s] = p] /\ used' = [used EXCEPT ![s] = TRUE]
              /\ count' = IF s = count THEN count + 1 ELSE count
              /\ mpc = "idle" /\ p \notin joined /\ joined' = joined \cup {p}
              /\ UNCHANGED <<seq, journal, sender, main, taken, left, sent, acked, raced, toReach>>
    BY <1>1, <1>12, InviteSlot
  <2>2. \A t \in Slot : peer'[t] = IF t = s THEN p ELSE peer[t]
    BY <1>1, <2>1 DEF TypeOK
  <2>3. p # Local
    BY PeerAssumption
  <2>4. \A k \in 1..Len(sent) : sent[k].to # p
    BY <1>1, <2>1 DEF Loop
  <2>5. QED
    BY <1>1, <1>2, <2>1, <2>2, <2>3, <2>4 DEF Loop, InFlight, BeforeSend, NotEchoed
<1>13. ASSUME NEW p \in Peer, Bye(p) PROVE Loop'
  BY <1>1, <1>13 DEF Bye, Loop, InFlight, BeforeSend, NotEchoed
<1>14. CASE Close
  BY <1>1, <1>14 DEF Close, Loop, InFlight, BeforeSend, NotEchoed
<1>15. ASSUME NEW p \in Peer, NEW k \in Accepted(p), Feedback(p, k) PROVE Loop'
  BY <1>1, <1>15 DEF Feedback, table, Loop, InFlight, BeforeSend, NotEchoed
<1>16. CASE ResetJournal
  BY <1>1, <1>16 DEF ResetJournal, Loop, InFlight, BeforeSend, NotEchoed
<1>17. CASE UNCHANGED vars
  BY <1>1, <1>17 DEF vars, table, Loop, InFlight, BeforeSend, NotEchoed
<1>18. QED
  BY <1>3, <1>4, <1>5, <1>6, <1>7, <1>8, <1>9, <1>10, <1>11, <1>12, <1>13, <1>14, <1>15,
     <1>16, <1>17 DEF Next, SenderStep, MainStep

\* Nobody who is still to be reached is passed over.
LEMMA StepReach == ASSUME SessionInv, [Next]_vars PROVE Reach'
<1> USE DEF sender, main, net, Found
<1>1. TypeOK /\ Table /\ Loop /\ Reach
  BY DEF SessionInv
<1>2. /\ count \in Nat /\ total \in Nat /\ index \in Nat
      /\ InFlight \/ index < total => index \in Slot
      /\ \A s \in Slot : s \in Nat
  BY <1>1, Bounds
<1>3. ASSUME NEW c \in Command, NEW from \in joined \cup {Local}, Take(c, from) PROVE Reach'
  BY <1>1, <1>2, <1>3 DEF Take, table, Active, Table, Reach, ReachesActive, Ahead
<1>4. CASE Compare
  <2>1. spc = "compare" /\ index < total /\ UNCHANGED <<table, toReach>>
    BY <1>4 DEF Compare
  <2>2. CASE peer[index] = originator
    <3>1. ASSUME NEW p \in toReach
          PROVE  \E s \in Slot : used[s] /\ peer[s] = p /\ s < total /\ s >= index + 1
      BY <1>1, <1>2, <2>1, <2>2 DEF Reach, Ahead
    <3>2. CASE index + 1 < total
      BY <1>1, <1>4, <2>1, <2>2, <3>1, <3>2 DEF Compare, NextConnection, table, Reach, ReachesActive, Ahead
    <3>3. CASE ~(index + 1 < total)
      <4>1. toReach = {}
        BY <1>2, <3>1, <3>3
      <4>2. QED
        BY <1>4, <2>1, <2>2, <3>3, <4>1 DEF Compare, NextConnection, Leave, Reach, ReachesActive
    <3>4. QED
      BY <3>2, <3>3
  <2>3. CASE peer[index] # originator
    BY <1>1, <1>4, <2>1, <2>3 DEF Compare, table, Reach, ReachesActive, Ahead
  <2>4. QED
    BY <2>2, <2>3
<1>5. CASE NoConnections
  <2>1. toReach = {}
    BY <1>1, <1>2, <1>5 DEF NoConnections, Reach, Ahead
  <2>2. QED
    BY <1>5, <2>1 DEF NoConnections, Leave, Reach, ReachesActive
<1>6. CASE PackJournal
  BY <1>1, <1>6 DEF PackJournal, table, Reach, ReachesActive, Ahead
<1>7. CASE IncrementSeq
  BY <1>1, <1>7 DEF IncrementSeq, Reach, ReachesActive, Ahead
<1>8. CASE ReadSeq
  BY <1>1, <1>8 DEF ReadSeq, table, Reach, ReachesActive, Ahead
<1>9. CASE ReadSsrc
  BY <1>1, <1>9 DEF ReadSsrc, table, Reach, ReachesActive, Ahead
<1>10. CASE Send
  <2>1. /\ spc = "send" /\ spc' = "journal" /\ index \in Slot
        /\ UNCHANGED <<peer, used, index, total, originator>>
        /\ toReach' = IF used[index] THEN toReach \ {peer[index]} ELSE toReach
    BY <1>10, SendPacket DEF table
  <2>2. ASSUME NEW p \in toReach' PROVE \E s \in Slot : used[s] /\ peer[s] = p /\ s < total /\ s > index
    <3>1. PICK s \in Slot : used[s] /\ peer[s] = p /\ s < total /\ s >= index
      BY <1>1, <2>1 DEF Reach, Ahead
    <3>2. s # index
      BY <2>1, <3>1
    <3>3. QED
      BY <1>2, <3>1, <3>2
  <2>3. QED
    BY <1>1, <2>1, <2>2 DEF Reach, ReachesActive, Ahead
<1>11. CASE AddJournal
  <2>1. spc = "journal" /\ UNCHANGED <<peer, used, toReach>>
    BY <1>11 DEF AddJournal
  <2>2. ASSUME NEW p \in toReach
        PROVE  \E s \in Slot : used[s] /\ peer[s] = p /\ s < total /\ s >= index + 1
    BY <1>1, <1>2, <2>1 DEF Reach, Ahead
  <2>3. CASE index + 1 < total
    BY <1>1, <1>11, <2>1, <2>2, <2>3 DEF AddJournal, NextConnection, Reach, ReachesActive, Ahead
  <2>4. CASE ~(index + 1 < total)
    <3>1. toReach = {}
      BY <1>2, <2>2, <2>4
    <3>2. QED
      BY <1>11, <2>1, <2>4, <3>1 DEF AddJournal, NextConnection, Leave, Reach, ReachesActive
  <2>5. QED
    BY <2>3, <2>4
<1>12. ASSUME NEW p \in Peer, Invite(p) PROVE Reach'
  <2>1. PICK s \in Slot :
              /\ s <= count /\ ~used[s]
              /\ peer' = [peer EXCEPT ![s] = p] /\ used' = [used EXCEPT ![s] = TRUE]
              /\ count' = IF s = count THEN count + 1 ELSE count
              /\ mpc = "idle" /\ p \notin joined /\ joined' = joined \cup {p}
              /\ UNCHANGED <<seq, journal, sender, main, taken, left, sent, acked, raced, toReach>>
    BY <1>1, <1>12, InviteSlot
  <2>2. \A t \in Slot : used[t] => peer'[t] = peer[t] /\ used'[t]
    BY <1>1, <2>1 DEF TypeOK
  <2>3. QED
    BY <1>1, <2>1, <2>2 DEF Reach, ReachesActive, Ahead
<1>13. ASSUME NEW p \in Peer, Bye(p) PROVE Reach'
  BY <1>1, <1>13 DEF Bye, Reach, ReachesActive, Ahead
<1>14. CASE Close
  BY <1>1, <1>14 DEF Close, Reach, ReachesActive, Ahead, TypeOK
<1>15. ASSUME NEW p \in Peer, NEW k \in Accepted(p), Feedback(p, k) PROVE Reach'
  BY <1>1, <1>15 DEF Feedback, table, Reach, ReachesActive, Ahead
<1>16. CASE ResetJournal
  BY <1>1, <1>16 DEF ResetJournal, Reach, ReachesActive, Ahead
<1>17. CASE UNCHANGED vars
  BY <1>1, <1>17 DEF vars, table, Reach, ReachesActive, Ahead
<1>18. QED
  BY <1>3, <1>4, <1>5, <1>6, <1>7, <1>8, <1>9, <1>10, <1>11, <1>12, <1>13, <1>14, <1>15,
     <1>16, <1>17 DEF Next, SenderStep, MainStep

-----------------------------------------------------------------------------
\* The number of the last packet is a number.
LEMMA LastSeqType == ASSUME TypeOK, NEW s \in Slot PROVE LastSeq(s) \in Nat /\ LastSeq(s) <= seq[s]
<1>1. seq[s] \in Nat \ {0}
  BY DEF TypeOK
<1>2. QED
  BY <1>1 DEF LastSeq

\* Without a new packet the numbers agree as long as the sessions and the numbers of
\* their last packets do.
LEMMA NoNewNumber ==
    ASSUME SessionInv, sent' = sent, Prepared',
           \A s \in Slot : Live(s)' /\ (\E k \in 1..Len(sent) : sent[k].to = peer'[s]) =>
              Live(s) /\ peer'[s] = peer[s] /\ LastSeq(s)' = LastSeq(s)
    PROVE  Numbered'
<1>1. Numbered
  BY DEF SessionInv
<1>2. \A p : Accepted(p)' = Accepted(p)
  BY DEF Accepted
<1>3. \A k : Stray(k)' <=> Stray(k)
  BY DEF Stray
<1>4. Rising' /\ SeqConsecutive'
  BY <1>1, <1>2, <1>3 DEF Numbered, Rising, SeqConsecutive
<1>5. ASSUME NEW s \in Slot, NEW k \in Accepted(peer'[s]), Live(s)', ~Stray(k)
      PROVE  /\ sent[k].seq <= LastSeq(s)'
             /\ (\A j \in Accepted(peer'[s]) : j <= k) => sent[k].seq = LastSeq(s)'
  <2>1. k \in 1..Len(sent) /\ sent[k].to = peer'[s]
    BY <1>5 DEF Accepted
  <2>2. Live(s) /\ peer'[s] = peer[s] /\ LastSeq(s)' = LastSeq(s)
    BY <1>5, <2>1
  <2>3. QED
    BY <1>1, <1>5, <2>2 DEF Numbered, Counted
<1>6. \A s \in Slot : Accepted(peer[s])' = Accepted(peer'[s])
  BY DEF Accepted
<1>7. Counted'
  BY <1>3, <1>5, <1>6 DEF Counted
<1>8. QED
  BY <1>4, <1>7 DEF Numbered

\* The packet that is sent: a session that is open and has not said BY accepts it, as
\* the one after the last; prepared for the session before, it is the first one sent
\* to this.
LEMMA NewPacket ==
    ASSUME SessionInv, Send, used[index], NEW n, n = Len(sent) + 1
    PROVE  /\ \A p : Accepted(p)' = IF p = peer[index] /\ Packet.accepted
                                    THEN Accepted(p) \cup {n} ELSE Accepted(p)
           /\ \A k \in 1..Len(sent) : Stray(k)' <=> Stray(k)
           /\ Stray(n)' <=> begun # peer[index]
           /\ begun # peer[index] => Accepted(peer[index]) = {}
           /\ begun = peer[index] /\ peer[index] \notin left =>
                 /\ Packet.accepted /\ OnTarget
                 /\ Packet.seq = seq[index] /\ LastSeq(index) = seq[index] - 1
           /\ LastSeq(index)' = seq[index]
           /\ \A s \in Slot : s # index => peer[s] # peer[index] /\ LastSeq(s)' = LastSeq(s)
<1>1. TypeOK /\ Table /\ Loop /\ Prepared /\ spc = "send"
  BY DEF SessionInv, Numbered, Send
<1>2. /\ Len(sent) \in Nat /\ Len(sent') = Len(sent) + 1 /\ index \in Slot
      /\ \A k \in 1..Len(sent) : sent'[k] = sent[k]
      /\ sent'[n] = Packet /\ peer[index] \in Peer
      /\ spc' = "journal" /\ UNCHANGED <<seq, index, peer>>
  BY SendPacket DEF table
<1>3. Packet.to = peer[index] /\ Packet.begun = begun /\ Packet.seq = rtp.seq
      /\ (Packet.accepted <=> rtp.ssrc = peer[index] /\ peer[index] \notin left)
  BY DEF Packet
<1>4. ASSUME NEW p
      PROVE  Accepted(p)' = IF p = peer[index] /\ Packet.accepted
                            THEN Accepted(p) \cup {n} ELSE Accepted(p)
  <2>1. \A k : k \in 1..Len(sent') <=> k \in 1..Len(sent) \/ k = n
    BY <1>2
  <2>2. n \notin 1..Len(sent)
    BY <1>2
  <2>3. \A k : k \in Accepted(p)' <=> k \in 1..Len(sent') /\ sent'[k].to = p /\ sent'[k].accepted
    BY DEF Accepted
  <2>4. \A k : k \in Accepted(p) <=> k \in 1..Len(sent) /\ sent[k].to = p /\ sent[k].accepted
    BY DEF Accepted
  <2>5. ASSUME NEW k, k \in 1..Len(sent) PROVE k \in Accepted(p)' <=> k \in Accepted(p)
    BY <1>2, <2>1, <2>3, <2>4, <2>5
  <2>6. n \in Accepted(p)' <=> p = peer[index] /\ Packet.accepted
    BY <1>2, <1>3, <2>1, <2>3
  <2>7. \A k : k \notin 1..Len(sent) /\ k # n => k \notin Accepted(p)' /\ k \notin Accepted(p)
    BY <2>1, <2>3, <2>4
  <2>8. n \notin Accepted(p)
    BY <2>2, <2>4
  <2>9. CASE p = peer[index] /\ Packet.accepted
    <3>1. \A k : k \in Accepted(p)' <=> k \in Accepted(p) \cup {n}
      BY <2>5, <2>6, <2>7, <2>9
    <3>2. Accepted(p)' = Accepted(p) \cup {n}
      BY <3>1
    <3>3. QED
      BY <2>9, <3>2
  <2>10. CASE ~(p = peer[index] /\ Packet.accepted)
    <3>1. \A k : k \in Accepted(p)' <=> k \in Accepted(p)
      BY <2>5, <2>6, <2>7, <2>8, <2>10
    <3>2. Accepted(p)' = Accepted(p)
      BY <3>1
    <3>3. QED
      BY <2>10, <3>2
  <2>11. QED
    BY <2>9, <2>10
<1>5. (\A k \in 1..Len(sent) : Stray(k)' <=> Stray(k)) /\ (Stray(n)' <=> begun # peer[index])
  BY <1>2, <1>3 DEF Stray
<1>6. begun # peer[index] => Accepted(peer[index]) = {}
  BY <1>1 DEF Loop, BeforeSend, Accepted
<1>7. begun = peer[index] /\ peer[index] \notin left =>
         /\ Packet.accepted /\ OnTarget
         /\ Packet.seq = seq[index] /\ LastSeq(index) = seq[index] - 1
  BY <1>1, <1>3 DEF OnTarget, Live, Prepared, LastSeq, Raised
<1>8. LastSeq(index)' = seq[index]
  BY <1>2 DEF LastSeq, Raised
<1>9. \A s \in Slot : s # index => peer[s] # peer[index] /\ LastSeq(s)' = LastSeq(s)
  BY <1>1, <1>2, NoneAssumption DEF LastSeq, Raised, Table
<1>10. QED
  BY <1>4, <1>5, <1>6, <1>7, <1>8, <1>9

\* No step but Send changes the number of the last packet of a session that is open.
LEMMA QuietStep ==
    ASSUME SessionInv, [Next]_vars, ~Send
    PROVE  /\ sent' = sent
           /\ \A s \in Slot : Live(s)' /\ (used[s] \/ \E k \in 1..Len(sent) : sent[k].to = peer'[s]) =>
                 Live(s) /\ peer'[s] = peer[s] /\ LastSeq(s)' = LastSeq(s)
           /\ Prepared'
<1> USE DEF sender, main, net, Found
<1> DEFINE Same == /\ sent' = sent
                   /\ \A s \in Slot : Live(s)' /\ (used[s] \/ \E k \in 1..Len(sent) : sent[k].to = peer'[s]) =>
                         Live(s) /\ peer'[s] = peer[s] /\ LastSeq(s)' = LastSeq(s)
                   /\ Prepared'
<1>1. TypeOK /\ Table /\ Loop /\ Prepared
  BY DEF SessionInv, Numbered
<1>2. index \in Slot \/ ~InFlight
  BY <1>1, Bounds
<1>3. ASSUME NEW c \in Command, NEW from \in joined \cup {Local}, Take(c, from) PROVE Same
  BY <1>1, <1>3 DEF Take, table, Live, LastSeq, Raised, Prepared
<1>4. CASE Compare
  BY <1>1, <1>4 DEF Compare, NextConnection, Leave, table, Live, LastSeq, Raised, Prepared
<1>5. CASE NoConnections
  BY <1>1, <1>5 DEF NoConnections, Leave, table, Live, LastSeq, Raised, Prepared
<1>6. CASE PackJournal
  BY <1>1, <1>6 DEF PackJournal, table, Live, LastSeq, Raised, Prepared
<1>7. CASE IncrementSeq
  <2>1. index \in Slot /\ spc = "increment" /\ spc' = "readseq" /\ sent' = sent
        /\ UNCHANGED <<peer, used, left, index>>
    BY <1>2, <1>7 DEF IncrementSeq, InFlight
  <2>2. \A s \in Slot : seq'[s] = (IF s = index THEN seq[s] + 1 ELSE seq[s]) /\ seq[s] \in Nat
    BY <1>1, <1>7, <2>1 DEF IncrementSeq, TypeOK
  <2>3. \A s \in Slot : LastSeq(s)' = LastSeq(s)
    BY <2>1, <2>2 DEF LastSeq, Raised
  <2>4. QED
    BY <2>1, <2>3 DEF Live, Prepared
<1>8. CASE ReadSeq
  BY <1>1, <1>8 DEF ReadSeq, table, Live, LastSeq, Raised, Prepared, TypeOK
<1>9. CASE ReadSsrc
  BY <1>1, <1>9 DEF ReadSsrc, table, Live, OnTarget, LastSeq, Raised, Prepared, TypeOK
<1>10. CASE AddJournal
  BY <1>1, <1>10 DEF AddJournal, NextConnection, Leave, Live, LastSeq, Raised, Prepared
<1>11. ASSUME NEW p \in Peer, Invite(p) PROVE Same
  <2>1. PICK s \in Slot :
              /\ s <= count /\ ~used[s]
              /\ peer' = [peer EXCEPT ![s] = p] /\ used' = [used EXCEPT ![s] = TRUE]
              /\ count' = IF s = count THEN count + 1 ELSE count
              /\ mpc = "idle" /\ p \notin joined /\ joined' = joined \cup {p}
              /\ UNCHANGED <<seq, journal, sender, main, taken, left, sent, acked, raced, toReach>>
    BY <1>1, <1>11, InviteSlot
  <2>2. \A t \in Slot : peer'[t] = (IF t = s THEN p ELSE peer[t]) /\ used'[t] = (t = s \/ used[t])
    BY <1>1, <2>1 DEF TypeOK
  <2>3. \A k \in 1..Len(sent) : sent[k].to # p
    BY <1>1, <2>1 DEF Loop
  <2>4. \A t \in Slot : LastSeq(t)' = LastSeq(t)
    BY <2>1 DEF LastSeq, Raised
  <2>5. spc \in {"readssrc", "send"} /\ OnTarget' => OnTarget
    <3>1. spc \in {"readssrc", "send"} => index \in Slot /\ begun \in joined
      BY <1>1, <1>2 DEF InFlight, Loop
    <3>2. spc \in {"readssrc", "send"} /\ OnTarget' => used'[index] /\ peer'[index] = begun /\ begun \notin left
      BY <2>1 DEF OnTarget, Live
    <3>3. spc \in {"readssrc", "send"} /\ OnTarget' => index # s
      BY <2>1, <2>2, <3>1, <3>2
    <3>4. QED
      BY <2>2, <3>1, <3>2, <3>3 DEF OnTarget, Live
  <2>6. Prepared'
    BY <1>1, <2>1, <2>5 DEF Prepared
  <2>7. \A t \in Slot : Live(t)' /\ (used[t] \/ \E k \in 1..Len(sent) : sent[k].to = peer'[t])
         => Live(t) /\ peer'[t] = peer[t]
    <3>1. \A t \in Slot : Live(t)' <=> used'[t] /\ peer'[t] \notin left
      BY <2>1 DEF Live
    <3>2. \A t \in Slot : t # s => peer'[t] = peer[t] /\ (used'[t] => used[t])
      BY <2>2
    <3>3. peer'[s] = p /\ ~used[s]
      BY <2>1, <2>2
    <3>4. QED
      BY <2>3, <3>1, <3>2, <3>3 DEF Live
  <2>8. QED
    BY <2>1, <2>4, <2>6, <2>7
<1>12. ASSUME NEW p \in Peer, Bye(p) PROVE Same
  BY <1>1, <1>12 DEF Bye, Live, LastSeq, Raised, Prepared, OnTarget
<1>13. CASE Close
  <2>1. /\ slot \in Slot /\ used'[slot] = FALSE
        /\ \A s \in Slot : s # slot => used'[s] = used[s] /\ seq'[s] = seq[s]
        /\ UNCHANGED <<peer, left, sent, spc, index, rtp, begun>>
    BY <1>1, <1>13 DEF Close, TypeOK
  <2>2. \A s \in Slot : Live(s)' => Live(s) /\ LastSeq(s)' = LastSeq(s)
    BY <2>1 DEF Live, LastSeq, Raised
  <2>3. spc \in {"readssrc", "send"} /\ OnTarget' => OnTarget /\ seq'[index] = seq[index]
    BY <1>2, <2>1 DEF OnTarget, Live, InFlight
  <2>4. QED
    BY <1>1, <2>1, <2>2, <2>3 DEF Prepared
<1>14. ASSUME NEW p \in Peer, NEW k \in Accepted(p), Feedback(p, k) PROVE Same
  BY <1>1, <1>14 DEF Feedback, table, Live, LastSeq, Raised, Prepared, OnTarget
<1>15. CASE ResetJournal
  BY <1>1, <1>15 DEF ResetJournal, Live, LastSeq, Raised, Prepared, OnTarget
<1>16. CASE UNCHANGED vars
  BY <1>1, <1>16 DEF vars, table, Live, LastSeq, Raised, Prepared, OnTarget
<1>17. QED
  BY <1>3, <1>4, <1>5, <1>6, <1>7, <1>8, <1>9, <1>10, <1>11, <1>12, <1>13, <1>14, <1>15,
     <1>16 DEF Next, SenderStep, MainStep

\* The next packet of a session gets the next number.
LEMMA SendNumbered == ASSUME SessionInv, Send PROVE Numbered'
<1>1. TypeOK /\ Table /\ Counted /\ Rising /\ SeqConsecutive
  BY DEF SessionInv, Numbered
<1>2. /\ Len(sent) \in Nat /\ spc' = "journal" /\ index \in Slot
      /\ UNCHANGED <<peer, used, left, seq, index>>
  BY SendPacket DEF table
<1>3. Prepared'
  BY <1>2 DEF Prepared
<1>4. CASE ~used[index]
  <2>1. sent' = sent
    BY <1>4, SendPacket
  <2>2. \A s \in Slot : Live(s)' => Live(s) /\ LastSeq(s)' = LastSeq(s)
    BY <1>2, <1>4 DEF Live, LastSeq, Raised
  <2>3. QED
    BY <1>2, <1>3, <2>1, <2>2, NoNewNumber
<1>5. CASE used[index]
  <2>1. PICK n : n = Len(sent) + 1
    OBVIOUS
  <2>2. /\ \A p : Accepted(p)' = IF p = peer[index] /\ Packet.accepted
                                 THEN Accepted(p) \cup {n} ELSE Accepted(p)
        /\ \A k \in 1..Len(sent) : Stray(k)' <=> Stray(k)
        /\ Stray(n)' <=> begun # peer[index]
        /\ begun # peer[index] => Accepted(peer[index]) = {}
        /\ begun = peer[index] /\ peer[index] \notin left =>
              /\ Packet.accepted /\ OnTarget
              /\ Packet.seq = seq[index] /\ LastSeq(index) = seq[index] - 1
        /\ LastSeq(index)' = seq[index]
        /\ \A s \in Slot : s # index => peer[s] # peer[index] /\ LastSeq(s)' = LastSeq(s)
    BY <1>5, <2>1, NewPacket
  <2>3. /\ sent'[n] = Packet /\ \A k \in 1..Len(sent) : sent'[k] = sent[k]
        /\ peer[index] \in Peer /\ n \in Nat
    BY <1>2, <1>5, <2>1, SendPacket
  <2>4. \A p : \A k \in Accepted(p) : k \in 1..Len(sent) /\ k < n
    BY <1>2, <2>1 DEF Accepted
  <2>5. \A s \in Slot : Live(s)' <=> Live(s)
    BY <1>2 DEF Live
  <2>6. seq[index] \in Nat
    BY <1>1, <1>2 DEF TypeOK
  <2>7. Packet.accepted => peer[index] \notin left /\ Live(index)
    BY <1>5 DEF Packet, Live
  <2>8. \A k \in 1..Len(sent) : sent[k].seq \in Nat
    BY <1>1, SentType
  \* The packets there were before the new one, in the session it is for.
  <2>9. ASSUME Packet.accepted, NEW k \in Accepted(peer[index]), ~Stray(k)
        PROVE  /\ begun = peer[index] /\ Packet.seq = seq[index] /\ sent[k].seq <= seq[index] - 1
               /\ (\A j \in Accepted(peer[index]) : j <= k) => sent[k].seq = seq[index] - 1
    <3>1. begun = peer[index]
      BY <2>2, <2>9
    <3>2. LastSeq(index) = seq[index] - 1 /\ Packet.seq = seq[index]
      BY <2>2, <2>7, <2>9, <3>1
    <3>3. QED
      BY <1>1, <1>2, <2>7, <2>9, <3>1, <3>2 DEF Counted
  <2>10. Counted'
    <3> SUFFICES ASSUME NEW s \in Slot, NEW k \in Accepted(peer[s])', Live(s), ~Stray(k)'
                 PROVE  /\ sent'[k].seq <= LastSeq(s)'
                        /\ (\A j \in Accepted(peer[s])' : j <= k) => sent'[k].seq = LastSeq(s)'
      BY <2>5 DEF Counted
    <3>1. Accepted(peer[s])' = IF peer[s] = peer[index] /\ Packet.accepted
                               THEN Accepted(peer[s]) \cup {n} ELSE Accepted(peer[s])
      BY <1>2, <2>2
    <3>2. CASE s # index
      BY <1>1, <2>2, <2>3, <2>4, <3>1, <3>2 DEF Counted
    <3>3. CASE s = index /\ k = n
      <4>1. Packet.accepted
        BY <2>4, <3>1, <3>3
      <4>2. begun = peer[index]
        BY <2>2, <3>3
      <4>3. Packet.seq = seq[index]
        BY <2>2, <2>7, <4>1, <4>2
      <4>4. LastSeq(s)' = seq[index]
        BY <1>2, <2>2, <3>3 DEF LastSeq
      <4>5. QED
        BY <2>3, <2>6, <3>3, <4>3, <4>4
    <3>4. CASE s = index /\ k # n
      <4>1. k \in Accepted(peer[index]) /\ ~Stray(k) /\ k < n
        BY <2>2, <2>4, <3>1, <3>4
      <4>2. begun = peer[index] /\ Packet.accepted
        BY <2>2, <3>4, <4>1 DEF Live
      <4>3. sent[k].seq <= seq[index] - 1 /\ sent[k].seq \in Nat /\ sent'[k] = sent[k]
        BY <2>3, <2>4, <2>8, <2>9, <4>1, <4>2
      <4>4. n \in Accepted(peer[s])' /\ ~(n <= k)
        BY <2>3, <2>4, <3>1, <3>4, <4>1, <4>2
      <4>5. LastSeq(s)' = seq[index]
        BY <1>2, <2>2, <3>4 DEF LastSeq
      <4>6. QED
        BY <2>6, <4>3, <4>4, <4>5
    <3>5. QED
      BY <3>2, <3>3, <3>4
  <2>11. Rising'
    <3> SUFFICES ASSUME NEW p \in Peer, NEW j \in Accepted(p)', NEW k \in Accepted(p)',
                        j < k, ~Stray(j)', ~Stray(k)'
                 PROVE  sent'[j].seq < sent'[k].seq
      BY DEF Rising
    <3>1. CASE j \in Accepted(p) /\ k \in Accepted(p)
      BY <1>1, <2>2, <2>3, <2>4, <3>1 DEF Rising
    <3>2. CASE j \in Accepted(p) /\ k = n /\ p = peer[index] /\ Packet.accepted
      <4>1. Packet.seq = seq[index] /\ sent[j].seq <= seq[index] - 1 /\ sent[j].seq \in Nat
        BY <2>2, <2>4, <2>8, <2>9, <3>2
      <4>2. QED
        BY <2>3, <2>4, <2>6, <3>2, <4>1
    <3>3. j = n => FALSE
      BY <2>2, <2>3, <2>4
    <3>4. QED
      BY <2>2, <3>1, <3>2, <3>3
  <2>12. SeqConsecutive'
    <3> SUFFICES ASSUME NEW p \in Peer, NEW j \in Accepted(p)', NEW k \in Accepted(p)', j < k,
                        \A i \in Accepted(p)' : ~ (j < i /\ i < k), ~Stray(j)', ~Stray(k)'
                 PROVE  sent'[k].seq = sent'[j].seq + 1
      BY DEF SeqConsecutive
    <3>1. CASE j \in Accepted(p) /\ k \in Accepted(p)
      <4>1. \A i \in Accepted(p) : ~ (j < i /\ i < k)
        BY <2>2
      <4>2. ~Stray(j) /\ ~Stray(k) /\ sent'[j] = sent[j] /\ sent'[k] = sent[k]
        BY <2>2, <2>3, <2>4, <3>1
      <4>3. QED
        BY <1>1, <3>1, <4>1, <4>2 DEF SeqConsecutive
    <3>2. CASE j \in Accepted(p) /\ k = n /\ p = peer[index] /\ Packet.accepted
      <4>1. \A i \in Accepted(peer[index]) : i <= j
        <5>1. \A i \in Accepted(peer[index]) : i \in Nat /\ i < n /\ i \in Accepted(p)'
          BY <1>2, <2>2, <2>4, <3>2
        <5>2. \A i \in Accepted(peer[index]) : ~(j < i)
          BY <3>2, <5>1
        <5>3. QED
          BY <3>2, <5>1, <5>2
      <4>2. ~Stray(j) /\ sent'[j] = sent[j]
        BY <2>2, <2>3, <2>4, <3>2
      <4>3. Packet.seq = seq[index] /\ sent[j].seq = seq[index] - 1
        BY <2>9, <3>2, <4>1, <4>2
      <4>4. QED
        BY <2>3, <2>6, <3>2, <4>2, <4>3
    <3>3. j = n => FALSE
      BY <2>2, <2>3, <2>4
    <3>4. QED
      BY <2>2, <3>1, <3>2, <3>3
  <2>13. QED
    BY <1>3, <2>10, <2>11, <2>12 DEF Numbered
<1>6. QED
  BY <1>4, <1>5

\* The numbers go on one after the other.
LEMMA StepNumbered == ASSUME SessionInv, [Next]_vars PROVE Numbered'
<1>1. CASE Send
  BY <1>1, SendNumbered
<1>2. CASE ~Send
  BY <1>2, QuietStep, NoNewNumber
<1>3. QED
  BY <1>1, <1>2

-----------------------------------------------------------------------------
\* What a peer knows it goes on knowing, and what need not be recovered need not be.
LEMMA StillKnown ==
    ASSUME SessionInv, [Next]_vars, ~Send
    PROVE  /\ sent' = sent
           /\ \A p : Accepted(p)' = Accepted(p) /\ (Clean(p)' <=> Clean(p))
           /\ \A p, j, e : Bears(p, j, e)' => Bears(p, j, e)
           /\ \A p, e : Knows(p, e) => Knows(p, e)'
           /\ \A k, e : Tells(k, e)' <=> Tells(k, e)
           /\ acked \subseteq acked' /\ raced \subseteq raced'
<1> USE DEF main, net, Found
<1>1. sent' = sent
  BY QuietStep
<1>2. acked \subseteq acked' /\ raced \subseteq raced'
  BY DEF Next, SenderStep, MainStep, vars, Take, Compare, NoConnections, PackJournal, IncrementSeq,
         ReadSeq, ReadSsrc, AddJournal, Invite, Bye, Close, Feedback, ResetJournal
<1>3. \A p : Accepted(p)' = Accepted(p)
  BY <1>1 DEF Accepted
<1>4. \A k : Stray(k)' <=> Stray(k)
  BY <1>1 DEF Stray
<1>5. \A p : Clean(p)' <=> Clean(p)
  BY <1>3, <1>4 DEF Clean
<1>6. \A p, j, e : Bears(p, j, e)' => Bears(p, j, e)
  BY <1>1, <1>2 DEF Bears
<1>7. \A k, e : Tells(k, e)' <=> Tells(k, e)
  BY <1>1 DEF Tells
<1>8. \A p, e : Knows(p, e) => Knows(p, e)'
  BY <1>2, <1>3, <1>7 DEF Knows
<1>9. QED
  BY <1>1, <1>2, <1>3, <1>5, <1>6, <1>7, <1>8

\* Recoverable in these terms, before a step and after it.
LEMMA RecoverableTold == (Recoverable <=> Told) /\ (Recoverable' <=> Told')
<1>1. ASSUME NEW p, NEW k, NEW e
      PROVE  e \in Known((acked \cap Accepted(p)) \cup {k}) <=> Knows(p, e) \/ Tells(k, e)
  BY DEF Known, Tells, Knows
<1>2. ASSUME NEW p, NEW k, NEW e
      PROVE  (e \in Known((acked \cap Accepted(p)) \cup {k}) <=> Knows(p, e) \/ Tells(k, e))'
  BY DEF Known, Tells, Knows
<1>3. Recoverable <=> Told
  BY <1>1 DEF Recoverable, Told, Clean, Bears
<1>4. Recoverable' <=> Told'
  BY <1>2 DEF Recoverable, Told, Clean, Bears
<1>5. QED
  BY <1>3, <1>4

\* Without a new packet nothing more has to be recovered.
LEMMA StillRecoverable == ASSUME SessionInv, [Next]_vars, ~Send PROVE Recoverable'
<1>1. Told
  BY RecoverableTold DEF SessionInv, Kept
<1>2. /\ \A p : Accepted(p)' = Accepted(p) /\ (Clean(p)' <=> Clean(p))
      /\ \A p, j, e : Bears(p, j, e)' => Bears(p, j, e)
      /\ \A p, e : Knows(p, e) => Knows(p, e)'
      /\ \A k, e : Tells(k, e)' <=> Tells(k, e)
  BY StillKnown
<1>3. Told'
  BY <1>1, <1>2 DEF Told
<1>4. QED
  BY <1>3, RecoverableTold

-----------------------------------------------------------------------------
\* An event leaves the journal of a session that goes on only for one that is known
\* or raced.
LEMMA StillJournalled == ASSUME SessionInv, [Next]_vars, ~Send PROVE Journalled'
<1> USE DEF sender, main, net, Found
<1>1. TypeOK /\ Table /\ Loop /\ Journalled /\ Resetting
  BY DEF SessionInv, Kept
<1>2. /\ sent' = sent
      /\ \A p : Accepted(p)' = Accepted(p) /\ (Clean(p)' <=> Clean(p))
      /\ \A p, j, e : Bears(p, j, e)' => Bears(p, j, e)
      /\ \A p, e : Knows(p, e) => Knows(p, e)'
  BY StillKnown
<1>3. \A s \in Slot : Live(s)' /\ (used[s] \/ \E k \in 1..Len(sent) : sent[k].to = peer'[s]) =>
         Live(s) /\ peer'[s] = peer[s]
  BY QuietStep
<1>4. SUFFICES ASSUME NEW s \in Slot, Live(s)', NEW q, q = peer'[s], Clean(q),
                      NEW j \in Accepted(q), NEW e \in Journaled, Bears(q, j, e)'
               PROVE  \/ Knows(q, e)'
                      \/ e \in journal'[s]
                      \/ spc' = "journal" /\ index' = s /\ command' = e
  BY <1>2 DEF Journalled, Accepted, Clean, Bears, Knows, Stray
<1>5. Live(s) /\ peer[s] = q
  BY <1>3, <1>4 DEF Accepted
<1>6. Knows(q, e)' \/ e \in journal[s] \/ (spc = "journal" /\ index = s /\ command = e)
  BY <1>1, <1>2, <1>4, <1>5 DEF Journalled
<1>7. CASE AddJournal
  <2>1. index \in Slot
    BY <1>1, <1>7, Bounds DEF AddJournal, InFlight, Loop
  <2>2. e \in journal[s] => e \in journal'[s]
    BY <1>1, <1>7, <2>1 DEF AddJournal, TypeOK
  <2>3. index = s /\ command = e => e \in journal'[s]
    BY <1>1, <1>7, <2>1 DEF AddJournal, TypeOK
  <2>4. QED
    BY <1>6, <2>2, <2>3
<1>8. ASSUME NEW p \in Peer, Bye(p) PROVE e \in journal[s] => e \in journal'[s]
  BY <1>1, <1>4, <1>5, <1>8 DEF Bye, FindBySsrc, Live, TypeOK
<1>9. CASE ResetJournal
  <2>1. /\ mpc = "resetting" /\ slot \in Slot /\ journal' = [journal EXCEPT ![slot] = {}]
        /\ raced' = raced \cup DroppedLater /\ UNCHANGED <<spc, index, command>>
    BY <1>1, <1>9 DEF ResetJournal, TypeOK
  <2>2. CASE s # slot
    BY <1>1, <1>6, <2>1, <2>2 DEF TypeOK
  <2>3. CASE s = slot /\ e \in journal[s]
    <3>1. Bears(q, j, e) /\ sent[j].event = e /\ <<q, e>> \notin raced'
      BY <1>2, <1>4 DEF Bears
    <3>2. j \in 1..Len(sent) /\ sent[j].to = q
      BY <1>4 DEF Accepted
    <3>3. ~(sent[j].seq > found)
      BY <1>5, <2>1, <2>3, <3>1, <3>2 DEF DroppedLater
    <3>4. sent[j].seq <= found
      <4>1. sent[j].seq \in Nat
        BY <1>1, <3>2, SentType
      <4>2. found \in Nat
        BY <1>1 DEF TypeOK
      <4>3. QED
        BY <3>3, <4>1, <4>2
    <3>5. Knows(q, e)
      BY <1>1, <1>4, <1>5, <2>1, <2>3, <3>1, <3>4 DEF Resetting
    <3>6. QED
      BY <1>2, <3>5
  <2>4. CASE e \notin journal[s]
    BY <1>6, <2>1, <2>4
  <2>5. QED
    BY <2>2, <2>3, <2>4
<1>10. CASE journal' = journal /\ (spc = "journal" => UNCHANGED <<spc, index, command>>)
  BY <1>6, <1>10
<1>11. ASSUME NEW p \in Peer, Bye(p) PROVE UNCHANGED <<spc, index, command>>
  BY <1>11 DEF Bye
<1>12. \/ AddJournal \/ (\E p \in Peer : Bye(p)) \/ ResetJournal
       \/ journal' = journal /\ (spc = "journal" => UNCHANGED <<spc, index, command>>)
  BY DEF Next, SenderStep, MainStep, vars, table, Take, Compare, NoConnections, PackJournal, IncrementSeq,
         ReadSeq, ReadSsrc, Invite, Close, Feedback
<1>13. QED
  BY <1>6, <1>7, <1>8, <1>9, <1>10, <1>11, <1>12

\* The journal that is packed has every event the session is not known to know.
LEMMA StillPacked == ASSUME SessionInv, [Next]_vars, ~Send PROVE Packed'
<1> USE DEF sender, main, net, Found
<1>1. TypeOK /\ Table /\ Loop /\ Journalled /\ Packed
  BY DEF SessionInv, Kept
<1>2. /\ sent' = sent
      /\ \A p : Accepted(p)' = Accepted(p) /\ (Clean(p)' <=> Clean(p))
      /\ \A p, j, e : Bears(p, j, e)' => Bears(p, j, e)
      /\ \A p, e : Knows(p, e) => Knows(p, e)'
  BY StillKnown
<1>3. \A s \in Slot : Live(s)' /\ (used[s] \/ \E k \in 1..Len(sent) : sent[k].to = peer'[s]) =>
         Live(s) /\ peer'[s] = peer[s]
  BY QuietStep
<1> DEFINE Between == {"increment", "readseq", "readssrc", "send"}
<1>4. SUFFICES ASSUME spc' \in Between, OnTarget', NEW q, q = begun', Clean(q),
                      NEW j \in Accepted(q), NEW e \in Journaled, Bears(q, j, e)'
               PROVE  Knows(q, e)' \/ e \in packed'
  BY <1>2 DEF Packed, Accepted, Clean, Bears, Knows, Stray
<1>5. /\ UNCHANGED <<index, begun>>
      /\ \/ PackJournal
         \/ spc \in Between /\ packed' = packed
  BY <1>4 DEF Next, SenderStep, MainStep, vars, Take, Compare, NextConnection, Leave, NoConnections,
              PackJournal, IncrementSeq, ReadSeq, ReadSsrc, AddJournal, Invite, Bye, Close, Feedback, ResetJournal
<1>6. index \in Slot
  BY <1>1, <1>5, Bounds DEF InFlight, Loop, PackJournal
<1>7. Live(index) /\ peer[index] = q /\ OnTarget
  <2>1. Live(index)' /\ peer'[index] = q
    BY <1>4, <1>5 DEF OnTarget, Live
  <2>2. j \in 1..Len(sent) /\ sent[j].to = q
    BY <1>4 DEF Accepted
  <2>3. Live(index) /\ peer[index] = q
    BY <1>3, <1>5, <1>6, <2>1, <2>2 DEF Live
  <2>4. QED
    BY <1>4, <1>5, <2>3 DEF OnTarget
<1>8. CASE PackJournal
  BY <1>1, <1>2, <1>4, <1>6, <1>7, <1>8 DEF PackJournal, Journalled
<1>9. CASE spc \in Between /\ packed' = packed
  BY <1>1, <1>2, <1>4, <1>5, <1>7, <1>9 DEF Packed
<1>10. QED
  BY <1>5, <1>8, <1>9

\* What a peer acknowledges with the number of its last packet, it knows.
LEMMA StillResetting == ASSUME SessionInv, [Next]_vars, ~Send PROVE Resetting'
<1> USE DEF sender, main, net, Found
<1>1. TypeOK /\ Table /\ Loop /\ Numbered /\ Resetting /\ Told
  BY RecoverableTold DEF SessionInv, Kept
<1>2. /\ sent' = sent
      /\ \A p : Accepted(p)' = Accepted(p) /\ (Clean(p)' <=> Clean(p))
      /\ \A p, j, e : Bears(p, j, e)' => Bears(p, j, e)
      /\ \A p, e : Knows(p, e) => Knows(p, e)'
      /\ \A k, e : Tells(k, e)' <=> Tells(k, e)
  BY StillKnown
<1>3. \A s \in Slot : Live(s)' /\ (used[s] \/ \E k \in 1..Len(sent) : sent[k].to = peer'[s]) =>
         Live(s) /\ peer'[s] = peer[s] /\ LastSeq(s)' = LastSeq(s)
  BY QuietStep
<1>4. SUFFICES ASSUME mpc' = "resetting", NEW q, q = peer'[slot'], Clean(q), NEW s, s = slot'
               PROVE  /\ found' <= LastSeq(s)'
                      /\ \A j \in Accepted(q) : \A e \in Journaled :
                            Bears(q, j, e)' /\ sent[j].seq <= found' => Knows(q, e)'
  BY <1>2 DEF Resetting, Accepted, Clean, Bears, Knows, Stray, LastSeq
<1>5. CASE mpc = "resetting" /\ UNCHANGED <<slot, found, peer, used, left>>
  <2>1. s \in Slot /\ used[s] /\ peer[s] = q /\ q \notin left
    BY <1>1, <1>4, <1>5 DEF TypeOK, Table
  <2>2. Live(s)'
    BY <1>5, <2>1 DEF Live
  <2>3. LastSeq(s)' = LastSeq(s)
    BY <1>3, <2>1, <2>2
  <2>4. QED
    BY <1>1, <1>2, <1>4, <1>5, <2>1, <2>3 DEF Resetting
<1>6. ASSUME NEW p \in Peer, NEW k \in Accepted(p), Feedback(p, k)
      PROVE  /\ found' <= LastSeq(s)'
             /\ \A j \in Accepted(q) : \A e \in Journaled :
                   Bears(q, j, e)' /\ sent[j].seq <= found' => Knows(q, e)'
  <2>1. /\ s \in FindBySsrc(p) /\ Acknowledged(k) >= seq[s] /\ found' = seq[s]
        /\ p \notin left /\ acked' = acked \cup {k} /\ UNCHANGED <<table, left>>
    BY <1>4, <1>6 DEF Feedback
  <2>2. s \in Slot /\ used[s] /\ peer[s] = p /\ q = p
    BY <1>1, <1>4, <2>1, Bounds DEF FindBySsrc, table
  <2>3. Live(s) /\ Live(s)'
    BY <2>1, <2>2 DEF Live, table
  <2>4. LastSeq(s)' = LastSeq(s) /\ LastSeq(s) \in Nat /\ LastSeq(s) <= seq[s] /\ seq[s] \in Nat
    BY <1>1, <1>3, <2>2, <2>3, LastSeqType DEF TypeOK
  <2>5. k \in 1..Len(sent) /\ sent[k].seq \in Nat
    BY <1>1, <1>6, SentType DEF Accepted
  <2>6. Acknowledged(k) <= sent[k].seq /\ Acknowledged(k) \in Nat
    BY <2>5, SeqSizeAssumption DEF Acknowledged
  <2>7. sent[k].seq <= LastSeq(s)
    BY <1>1, <1>4, <1>6, <2>2, <2>3 DEF Numbered, Counted, Clean
  <2>8. sent[k].seq = LastSeq(s) /\ LastSeq(s) = seq[s]
    BY <2>1, <2>4, <2>5, <2>6, <2>7
  <2>9. ASSUME NEW j \in Accepted(p) PROVE j <= k
    <3>1. sent[j].seq <= LastSeq(s) /\ j \in 1..Len(sent)
      BY <1>1, <1>4, <2>2, <2>3, <2>9 DEF Numbered, Counted, Clean, Accepted
    <3>2. k < j => sent[k].seq < sent[j].seq
      BY <1>1, <1>4, <1>6, <2>2, <2>9 DEF Numbered, Rising, Clean
    <3>3. sent[j].seq \in Nat
      BY <1>1, <3>1, SentType
    <3>4. QED
      BY <2>4, <2>5, <2>8, <3>1, <3>2, <3>3
  <2>10. ASSUME NEW j \in Accepted(q), NEW e \in Journaled, Bears(q, j, e)' PROVE Knows(q, e)'
    <3>1. Knows(p, e) \/ Tells(k, e)
      BY <1>1, <1>2, <1>4, <1>6, <2>2, <2>9, <2>10 DEF Told
    <3>2. Tells(k, e) => Knows(p, e)'
      <4>1. k \in acked' /\ k \in Accepted(p)'
        BY <1>2, <1>6, <2>1
      <4>2. QED
        BY <1>2, <4>1 DEF Knows
    <3>3. QED
      BY <1>2, <2>2, <3>1, <3>2
  <2>11. QED
    BY <2>1, <2>4, <2>8, <2>10
<1>7. \/ mpc = "resetting" /\ UNCHANGED <<slot, found, peer, used, left>>
      \/ \E p \in Peer : \E k \in Accepted(p) : Feedback(p, k)
  BY <1>4 DEF Next, SenderStep, MainStep, vars, table, Take, Compare, NoConnections, PackJournal, IncrementSeq,
              ReadSeq, ReadSsrc, AddJournal, Invite, Bye, Close, ResetJournal
<1>8. QED
  BY <1>5, <1>6, <1>7

\* The packet that is sent brings what its session is not known to know, and the event
\* it is about goes to the journal next.
LEMMA SendKept == ASSUME SessionInv, Send PROVE Kept'
<1>1. TypeOK /\ Table /\ Counted /\ Journalled /\ Packed /\ Resetting /\ Told
  BY RecoverableTold DEF SessionInv, Numbered, Kept
<1>2. /\ Len(sent) \in Nat /\ spc = "send" /\ spc' = "journal" /\ index \in Slot
      /\ UNCHANGED <<peer, used, left, seq, journal, index, command, acked, raced, mpc, slot, found>>
  BY SendPacket DEF table, main
<1>3. Packed'
  BY <1>2 DEF Packed
<1>4. \A s \in Slot : (Live(s)' <=> Live(s)) /\ LastSeq(s)' >= LastSeq(s)
  BY <1>1, <1>2 DEF Live, LastSeq, Raised, TypeOK
<1>5. CASE ~used[index]
  <2>1. sent' = sent
    BY <1>5, SendPacket
  <2>2. \A p : Accepted(p)' = Accepted(p) /\ (Clean(p)' <=> Clean(p))
    BY <2>1 DEF Accepted, Clean, Stray
  <2>3. \A p, j, e : Bears(p, j, e)' <=> Bears(p, j, e)
    BY <1>2, <2>1 DEF Bears
  <2>4. \A k, e : Tells(k, e)' <=> Tells(k, e)
    BY <2>1 DEF Tells
  <2>5. \A p, e : Knows(p, e)' <=> Knows(p, e)
    BY <1>2, <2>2, <2>4 DEF Knows
  <2>6. Journalled'
    <3> SUFFICES ASSUME NEW s \in Slot, Live(s)', NEW q, q = peer'[s], Clean(q)',
                        NEW j \in Accepted(q)', NEW e \in Journaled, Bears(q, j, e)'
                 PROVE  \/ Knows(q, e)'
                        \/ e \in journal'[s]
                        \/ spc' = "journal" /\ index' = s /\ command' = e
      BY DEF Journalled, Accepted, Clean, Bears, Knows, Stray, Live
    <3>1. Live(s) /\ q = peer[s] /\ Clean(q) /\ j \in Accepted(q) /\ Bears(q, j, e)
      BY <1>2, <1>4, <2>2, <2>3
    <3>2. Knows(q, e) \/ e \in journal[s]
      BY <1>1, <1>2, <3>1 DEF Journalled
    <3>3. QED
      BY <1>2, <2>5, <3>2
  <2>7. Told'
    BY <1>1, <2>2, <2>3, <2>4, <2>5 DEF Told
  <2>8. Resetting'
    <3> SUFFICES ASSUME mpc = "resetting", NEW q, q = peer[slot], Clean(q)', NEW s, s = slot
                 PROVE  /\ found <= LastSeq(s)'
                        /\ \A j \in Accepted(q)' : \A e \in Journaled :
                              Bears(q, j, e)' /\ sent'[j].seq <= found => Knows(q, e)'
      BY <1>2 DEF Resetting, Accepted, Clean, Bears, Knows, Stray, LastSeq
    <3>1. s \in Slot /\ found \in Nat /\ found <= LastSeq(s) /\ used[s]
      BY <1>1, <1>2, <2>2 DEF Resetting, Table, TypeOK
    <3>2. LastSeq(s)' = LastSeq(s)
      BY <1>2, <1>5, <3>1 DEF LastSeq, Raised
    <3>3. QED
      BY <1>1, <2>1, <2>2, <2>3, <2>5, <3>1, <3>2 DEF Resetting
  <2>9. QED
    BY <1>3, <2>6, <2>7, <2>8, RecoverableTold DEF Kept
<1>6. CASE used[index]
  <2>1. PICK n : n = Len(sent) + 1
    OBVIOUS
  <2>2. PICK a : a = peer[index]
    OBVIOUS
  <2>3. /\ \A p : Accepted(p)' = IF p = a /\ Packet.accepted THEN Accepted(p) \cup {n} ELSE Accepted(p)
        /\ \A k \in 1..Len(sent) : Stray(k)' <=> Stray(k)
        /\ Stray(n)' <=> begun # a
        /\ begun # a => Accepted(a) = {}
        /\ begun = a /\ a \notin left =>
              /\ Packet.accepted /\ OnTarget
              /\ Packet.seq = seq[index] /\ LastSeq(index) = seq[index] - 1
        /\ \A s \in Slot : s # index => peer[s] # a /\ LastSeq(s)' = LastSeq(s)
    BY <1>6, <2>1, <2>2, NewPacket
  <2>4. /\ sent'[n] = Packet /\ \A k \in 1..Len(sent) : sent'[k] = sent[k]
        /\ a \in Peer /\ n \in Nat
    BY <1>2, <1>6, <2>1, <2>2, SendPacket
  <2>5. \A p : \A k \in Accepted(p) : k \in 1..Len(sent) /\ k < n
    BY <1>2, <2>1 DEF Accepted
  <2>6. Packet.accepted => a \notin left /\ Live(index)
    BY <1>6, <2>2 DEF Packet, Live
  <2>7. ASSUME NEW p, Clean(p)'
        PROVE  Clean(p) /\ (p = a /\ Packet.accepted => begun = a /\ OnTarget)
    <3>1. \A k \in Accepted(p) : k \in Accepted(p)' /\ ~Stray(k)
      BY <2>3, <2>5, <2>7 DEF Clean
    <3>2. p = a /\ Packet.accepted => ~Stray(n)'
      BY <2>3, <2>7 DEF Clean
    <3>3. QED
      BY <2>3, <2>6, <3>1, <3>2 DEF Clean
  <2>8. \A k \in 1..Len(sent) : \A p, e : (Bears(p, k, e)' <=> Bears(p, k, e)) /\ (Tells(k, e)' <=> Tells(k, e))
    BY <1>2, <2>4 DEF Bears, Tells
  <2>9. ASSUME NEW p, NEW e, Knows(p, e) PROVE Knows(p, e)'
    <3>1. PICK k \in acked \cap Accepted(p) : Tells(k, e)
      BY <2>9 DEF Knows
    <3>2. k \in acked' /\ k \in Accepted(p)' /\ Tells(k, e)'
      BY <1>2, <2>3, <2>5, <2>8, <3>1
    <3>3. QED
      BY <3>2 DEF Knows
  <2>10. \A p, e : Bears(p, n, e)' => command = e
    BY <2>4 DEF Bears, Packet
  <2>11. \A e \in packed : Tells(n, e)'
    BY <2>4 DEF Tells, Packet
  <2>12. \A p, e : Bears(p, n, e)' => Tells(n, e)'
    BY DEF Bears, Tells
  <2>13. ASSUME NEW s \in Slot, Live(s), NEW q, q = peer[s], Clean(q)',
                NEW j \in Accepted(q)', NEW e \in Journaled, Bears(q, j, e)'
         PROVE  Knows(q, e)' \/ e \in journal[s] \/ (index = s /\ command = e)
    <3>1. CASE j \in Accepted(q)
      <4>1. Knows(q, e) \/ e \in journal[s]
        BY <1>1, <1>2, <2>5, <2>7, <2>8, <2>13, <3>1 DEF Journalled
      <4>2. QED
        BY <2>9, <4>1
    <3>2. CASE q = a /\ j = n
      BY <2>3, <2>10, <2>13, <3>2
    <3>3. QED
      BY <2>3, <2>13, <3>1, <3>2
  <2>14. Journalled'
    <3> SUFFICES ASSUME NEW s \in Slot, Live(s)', NEW q, q = peer'[s], Clean(q)',
                        NEW j \in Accepted(q)', NEW e \in Journaled, Bears(q, j, e)'
                 PROVE  \/ Knows(q, e)'
                        \/ e \in journal'[s]
                        \/ spc' = "journal" /\ index' = s /\ command' = e
      BY DEF Journalled, Accepted, Clean, Bears, Knows, Stray, Live
    <3>1. QED
      BY <1>2, <1>4, <2>13
  <2>15. Told'
    <3> SUFFICES ASSUME NEW p \in Peer, Clean(p)', NEW k \in Accepted(p)', NEW j \in Accepted(p)',
                        NEW e \in Journaled, j <= k, Bears(p, j, e)'
                 PROVE  Knows(p, e)' \/ Tells(k, e)'
      BY DEF Told
    <3>1. CASE j \in Accepted(p) /\ k \in Accepted(p)
      BY <1>1, <2>5, <2>7, <2>8, <2>9, <3>1 DEF Told
    <3>2. CASE j \in Accepted(p) /\ k = n /\ p = a /\ Packet.accepted
      <4>1. OnTarget /\ Clean(begun) /\ begun = p
        BY <2>7, <3>2
      <4>2. Knows(p, e) \/ e \in packed
        BY <1>1, <1>2, <2>5, <2>8, <3>2, <4>1 DEF Packed
      <4>3. QED
        BY <2>9, <2>11, <3>2, <4>2
    <3>3. CASE j = n /\ k = n
      BY <2>12, <3>3
    <3>4. j = n /\ k \in Accepted(p) => FALSE
      BY <2>4, <2>5
    <3>5. QED
      BY <2>3, <3>1, <3>2, <3>3, <3>4
  <2>16. Resetting'
    <3> SUFFICES ASSUME mpc = "resetting", NEW q, q = peer[slot], Clean(q)', NEW s, s = slot
                 PROVE  /\ found <= LastSeq(s)'
                        /\ \A j \in Accepted(q)' : \A e \in Journaled :
                              Bears(q, j, e)' /\ sent'[j].seq <= found => Knows(q, e)'
      BY <1>2 DEF Resetting, Accepted, Clean, Bears, Knows, Stray, LastSeq
    <3>1. s \in Slot /\ found \in Nat /\ found <= LastSeq(s) /\ Clean(q)
      BY <1>1, <2>7 DEF Resetting, TypeOK
    <3>2. found <= LastSeq(s)'
      <4>1. LastSeq(s) \in Nat /\ LastSeq(s)' >= LastSeq(s)
        BY <1>1, <1>4, <3>1, LastSeqType
      <4>2. LastSeq(s)' \in Nat
        BY <1>1, <1>2, <3>1 DEF LastSeq, Raised, TypeOK
      <4>3. QED
        BY <3>1, <4>1, <4>2
    <3>3. ASSUME NEW j \in Accepted(q)', NEW e \in Journaled, Bears(q, j, e)', sent'[j].seq <= found
          PROVE  Knows(q, e)'
      <4>1. CASE j \in Accepted(q)
        BY <1>1, <2>4, <2>5, <2>8, <2>9, <3>1, <3>3, <4>1 DEF Resetting
      <4>2. CASE j = n /\ q = a /\ Packet.accepted
        <5>1. begun = a /\ a \notin left
          BY <2>6, <2>7, <4>2
        <5>2. Packet.seq = seq[index] /\ LastSeq(index) = seq[index] - 1
          BY <2>3, <5>1
        <5>3. s = index
          BY <2>3, <3>1, <4>2
        <5>4. seq[index] <= found
          BY <2>4, <3>3, <4>2, <5>2
        <5>5. seq[index] \in Nat
          BY <1>1, <1>2 DEF TypeOK
        <5>6. QED
          BY <3>1, <5>2, <5>3, <5>4, <5>5
      <4>3. QED
        BY <2>3, <3>3, <4>1, <4>2
    <3>4. QED
      BY <3>2, <3>3
  <2>17. QED
    BY <1>3, <2>14, <2>15, <2>16, RecoverableTold DEF Kept
<1>7. QED
  BY <1>5, <1>6

\* Whatever is lost, nothing is lost for good.
LEMMA StepKept == ASSUME SessionInv, [Next]_vars PROVE Kept'
<1>1. CASE Send
  BY <1>1, SendKept
<1>2. CASE ~Send
  BY <1>2, StillJournalled, StillPacked, StillResetting, StillRecoverable DEF Kept
<1>3. QED
  BY <1>1, <1>2

-----------------------------------------------------------------------------
\* The invariant holds in every reachable state, whatever the instance: the queue
\* thread of midi_sender_send_single and the main thread of the responders keep it.
THEOREM SessionInvariant == Spec => []SessionInv
<1>1. SessionInv /\ [Next]_vars => SessionInv'
  BY StepTypeOK, StepTable, StepLoop, StepReach, StepNumbered, StepKept DEF SessionInv
<1>2. QED
  BY <1>1, InitSession, PTL DEF Spec

\* Every field of net_connection.c and of the two threads keeps its range.
THEOREM SessionTypeOK == Spec => []TypeOK
<1>1. SessionInv => TypeOK
  BY DEF SessionInv
<1>2. QED
  BY <1>1, SessionInvariant, PTL

\* midi_sender_send_single never sends a command to the peer it came from.
THEOREM SessionNotEchoed == Spec => []NotEchoed
<1>1. SessionInv => NotEchoed
  BY DEF SessionInv, Loop
<1>2. QED
  BY <1>1, SessionInvariant, PTL

\* Its loop reaches every connection that was open when it began and still is.
THEOREM SessionReachesActive == Spec => []ReachesActive
<1>1. SessionInv => ReachesActive
  BY DEF SessionInv, Reach
<1>2. QED
  BY <1>1, SessionInvariant, PTL

\* net_ctx_increment_seq numbers the packets of a session one after the other.
THEOREM SessionSeqConsecutive == Spec => []SeqConsecutive
<1>1. SessionInv => SeqConsecutive
  BY DEF SessionInv, Numbered
<1>2. QED
  BY <1>1, SessionInvariant, PTL

\* Any packet that arrives tells its peer of every event that was sent before it, but
\* for what net_ctx_journal_reset raced with and a session that began in the middle.
THEOREM SessionRecoverable == Spec => []Recoverable
<1>1. SessionInv => Recoverable
  BY DEF SessionInv, Kept
<1>2. QED
  BY <1>1, SessionInvariant, PTL
=============================================================================
