-------------------------- MODULE DataQueueProofs ---------------------------
(***************************************************************************)
(* For any number of producers, commands and contexts: the linked list is  *)
(* the queue, every accepted command is sent once and in order, and every  *)
(* context is freed once, when nobody holds it, and not before.            *)
(***************************************************************************)
EXTENDS DataQueue, FiniteSetTheorems, SequenceTheorems, TLAPS

-----------------------------------------------------------------------------
\* Where the threads are, and the items and contexts they have in hand: an item
\* belongs to one thread at a time, and nobody produces once the queue is stopped.
Control ==
    /\ \A p \in Producer :
          pc[p] \in {"parsing", "adding", "destroying"} => pcontext[p] \in Context
    /\ \A p \in Producer :
          pc[p] = "adding" => pitem[p] \in Command /\ istate[pitem[p]] = "adding"
    /\ \A p, q \in Producer :
          pc[p] = "adding" /\ pc[q] = "adding" /\ pitem[p] = pitem[q] => p = q
    /\ \A i \in Command :
          istate[i] = "adding" => \E p \in Producer : pc[p] = "adding" /\ pitem[p] = i
    /\ hpc = "taken" => hitem \in Command /\ istate[hitem] = "taken"
    /\ hpc \in {"destroying", "sending"} => hitem \in Command /\ istate[hitem] = "released"
    /\ \A i \in Command : istate[i] = "taken" => hpc = "taken" /\ hitem = i
    /\ \A i \in Command : istate[i] \notin {"new", "sent"} => icontext[i] \in Context
    /\ mpc # "running" => \A p \in Producer : pc[p] = "done"
    /\ mpc = "down" => hpc = "stopped"
    /\ shutdown <=> mpc # "running"
    /\ hpc = "stopped" => shutdown

\* The items of the list are those that are queued, each once, an item that is
\* not linked yet points nowhere, and nothing is queued at the end.
Listed ==
    /\ \A k \in 1..Len(order) : istate[order[k]] = "queued"
    /\ \A k, l \in 1..Len(order) : order[k] = order[l] => k = l
    /\ \A i \in Command : istate[i] = "queued" => \E k \in 1..Len(order) : order[k] = i
    /\ \A i \in Command : istate[i] \in {"new", "adding"} => next[i] = NULL
    /\ mpc = "down" => order = <<>>
    /\ ListShape
    /\ InOrderExactlyOnce

\* The producer p, or the handler, is about to free the context c.
Frees(p, c)     == pc[p] = "destroying" /\ pcontext[p] = c
HandlerFrees(c) == hpc = "destroying" /\ icontext[hitem] = c

\* A context is live from its creation until the one thread that has found no
\* holder left has freed it.
Counted ==
    /\ ReferenceExact
    /\ \A c \in Context : Holders(c) # {} => cstate[c] = "live"
    /\ \A c \in Context : \A p \in Producer : Frees(p, c) => cstate[c] = "live" /\ Holders(c) = {}
    /\ \A c \in Context : HandlerFrees(c) => cstate[c] = "live" /\ Holders(c) = {}
    /\ \A c \in Context : \A p, q \in Producer : Frees(p, c) /\ Frees(q, c) => p = q
    /\ \A c \in Context : \A p \in Producer : ~(Frees(p, c) /\ HandlerFrees(c))
    /\ \A c \in Context : cstate[c] = "live" =>
          Holders(c) # {} \/ (\E p \in Producer : Frees(p, c)) \/ HandlerFrees(c)

\* The inductive invariant.  No part is inductive without the others: a count is
\* right because an item has one owner, and the list is because it is queued once.
QueueInv == TypeOK /\ Control /\ Listed /\ Counted

\* The queue as data_queue_create leaves it.
LEMMA InitQueue == Init => QueueInv
<1> SUFFICES ASSUME Init PROVE QueueInv
  OBVIOUS
<1>1. TypeOK
  BY EmptySeq, Zenon DEF Init, TypeOK, ItemState, ContextState, ProducerPC, HandlerPC
<1>2. Control
  BY DEF Init, Control
<1>3. Listed
  BY DEF Init, Listed, ListShape, InOrderExactlyOnce, InHand
<1>4. Counted
  <2>1. ASSUME NEW c \in Context PROVE Holders(c) = {}
    BY NullAssumption DEF Init, Holders
  <2>2. ReferenceExact
    BY <2>1, FS_EmptySet DEF ReferenceExact, Init
  <2>3. QED
    BY <2>1, <2>2 DEF Counted, Init, Frees, HandlerFrees
<1>5. QED
  BY <1>1, <1>2, <1>3, <1>4 DEF QueueInv

\* The holders of a context are finitely many.
LEMMA HoldersFinite == ASSUME NEW c PROVE IsFiniteSet(Holders(c))
<1>1. Holders(c) \subseteq Producer \cup Command
  BY DEF Holders
<1>2. IsFiniteSet(Producer \cup Command)
  BY FiniteAssumption, FS_Union
<1>3. QED
  BY <1>1, <1>2, FS_Subset

\* What has a holder has a reference.
LEMMA HeldCounts ==
    ASSUME Counted, NEW c \in Context, Holders(c) # {}
    PROVE  reference[c] \in Nat /\ reference[c] >= 1
<1>1. Cardinality(Holders(c)) \in Nat /\ Cardinality(Holders(c)) # 0
  BY HoldersFinite, FS_CardinalityType, FS_EmptySet
<1>2. QED
  BY <1>1 DEF Counted, ReferenceExact

\* A producer that parses holds the context of its packet.
LEMMA ParserHolds ==
    ASSUME Control, NEW p \in Producer, pc[p] = "parsing"
    PROVE  pcontext[p] \in Context /\ p \in Holders(pcontext[p])
BY DEF Control, Holders

\* The handler with an item it has taken holds the context of the item.
LEMMA HandlerHolds ==
    ASSUME Control, hpc = "taken"
    PROVE  icontext[hitem] \in Context /\ hitem \in Holders(icontext[hitem])
BY DEF Control, Holders

-----------------------------------------------------------------------------
\* Every variable keeps its range; a reference is given back only by a holder.
LEMMA StepTypeOK == ASSUME QueueInv, [Next]_vars PROVE TypeOK'
<1> USE DEF QueueInv, queueVars, contextVars, producerVars, handlerVars
<1>1. ASSUME NEW p \in Producer, NEW i \in Command, Acquire(p, i) PROVE TypeOK'
  BY <1>1, ParserHolds DEF Acquire, TypeOK, ItemState, ProducerPC
<1>2. ASSUME NEW p \in Producer, Add(p) PROVE TypeOK'
  <2>1. pitem[p] \in Command
    BY <1>2 DEF Control, Add, HandOver
  <2>2. order' \in Seq(Command) /\ accepted' \in Seq(Command)
    BY <1>2, <2>1, AppendProperties DEF Add, HandOver, TypeOK
  <2>3. QED
    BY <1>2, <2>1, <2>2 DEF Add, HandOver, Signalled, TypeOK, ItemState, ProducerPC, HandlerPC
<1>3. ASSUME NEW p \in Producer, Release(p) PROVE TypeOK'
  <2>1. reference[pcontext[p]] \in Nat /\ reference[pcontext[p]] >= 1 /\ pcontext[p] \in Context
    BY <1>3, ParserHolds, HeldCounts DEF Release
  <2>2. reference' \in [Context -> Nat]
    BY <1>3, <2>1 DEF Release, TypeOK
  <2>3. pc' \in [Producer -> ProducerPC] /\ pcontext' \in [Producer -> Context \cup {NULL}]
    BY <1>3 DEF Release, TypeOK, ProducerPC
  <2>4. QED
    BY <1>3, <2>2, <2>3 DEF Release, TypeOK
<1>4. ASSUME NEW p \in Producer, Destroy(p) PROVE TypeOK'
  BY <1>4 DEF Destroy, TypeOK, ContextState, ProducerPC
<1>5. ASSUME NEW p \in Producer, Finish(p) PROVE TypeOK'
  BY <1>5 DEF Finish, TypeOK, ProducerPC
<1>6. ASSUME NEW p \in Producer, NEW c \in Context, OpenContext(p, c) PROVE TypeOK'
  BY <1>6 DEF OpenContext, TypeOK, ContextState, ProducerPC
<1>7. CASE HandlerWait
  BY <1>7 DEF HandlerWait, TypeOK, HandlerPC
<1>8. CASE HandlerExit
  BY <1>8 DEF HandlerExit, TypeOK, HandlerPC
<1>9. CASE HandlerGet
  <2>1. order' \in Seq(Command)
    BY <1>9, HeadTailProperties DEF HandlerGet, TypeOK
  <2>2. QED
    BY <1>9, <2>1, NullAssumption DEF HandlerGet, TypeOK, ItemState, HandlerPC
<1>10. CASE HandlerRelease
  <2>1. /\ reference[icontext[hitem]] \in Nat /\ reference[icontext[hitem]] >= 1
        /\ icontext[hitem] \in Context
    BY <1>10, HandlerHolds, HeldCounts DEF HandlerRelease
  <2>2. reference' \in [Context -> Nat]
    BY <1>10, <2>1 DEF HandlerRelease, TypeOK
  <2>3. istate' \in [Command -> ItemState] /\ hpc' \in HandlerPC
    BY <1>10 DEF HandlerRelease, TypeOK, ItemState, HandlerPC
  <2>4. QED
    BY <1>10, <2>2, <2>3 DEF HandlerRelease, TypeOK
<1>11. CASE HandlerDestroy
  BY <1>11 DEF HandlerDestroy, TypeOK, ContextState, HandlerPC
<1>12. CASE HandlerSend
  <2>1. hitem \in Command
    BY <1>12 DEF Control, HandlerSend
  <2>2. handled' \in Seq(Command)
    BY <1>12, <2>1, AppendProperties DEF HandlerSend, TypeOK
  <2>3. QED
    BY <1>12, <2>1, <2>2 DEF HandlerSend, TypeOK, ItemState, HandlerPC
<1>13. CASE SpuriousWake
  BY <1>13 DEF SpuriousWake, TypeOK, HandlerPC
<1>14. CASE Stop
  BY <1>14 DEF Stop, Signalled, TypeOK, HandlerPC
<1>15. CASE JoinAndDestroy
  BY <1>15 DEF JoinAndDestroy, TypeOK, ItemState
<1>16. CASE UNCHANGED vars
  BY <1>16 DEF vars, TypeOK
<1>17. QED
  BY <1>1, <1>2, <1>3, <1>4, <1>5, <1>6, <1>7, <1>8, <1>9, <1>10, <1>11, <1>12, <1>13,
     <1>14, <1>15, <1>16 DEF Next, ProducerStep, HandlerStep, Terminated

-----------------------------------------------------------------------------
\* Every thread keeps what it has in hand to itself.
LEMMA StepControl == ASSUME QueueInv, [Next]_vars PROVE Control'
<1> USE DEF QueueInv, queueVars, contextVars, producerVars, handlerVars
<1>1. ASSUME NEW p \in Producer, NEW i \in Command, Acquire(p, i) PROVE Control'
  BY <1>1 DEF Acquire, TypeOK, Control
<1>2. ASSUME NEW p \in Producer, Add(p) PROVE Control'
  BY <1>2 DEF Add, HandOver, Signalled, TypeOK, Control
<1>3. ASSUME NEW p \in Producer, Release(p) PROVE Control'
  <2>1. pc[p] = "parsing" /\ UNCHANGED <<shutdown, istate, icontext, pitem, hpc, hitem, mpc>>
    BY <1>3 DEF Release
  <2>2. \/ pc' = [pc EXCEPT ![p] = "destroying"] /\ pcontext' = pcontext
        \/ pc' = [pc EXCEPT ![p] = "idle"] /\ pcontext' = [pcontext EXCEPT ![p] = NULL]
    BY <1>3, Zenon DEF Release
  <2>3. CASE pc' = [pc EXCEPT ![p] = "destroying"] /\ pcontext' = pcontext
    BY <2>1, <2>3 DEF TypeOK, Control
  <2>4. CASE pc' = [pc EXCEPT ![p] = "idle"] /\ pcontext' = [pcontext EXCEPT ![p] = NULL]
    BY <2>1, <2>4 DEF TypeOK, Control
  <2>5. QED
    BY <2>2, <2>3, <2>4
<1>4. ASSUME NEW p \in Producer, Destroy(p) PROVE Control'
  BY <1>4 DEF Destroy, TypeOK, Control
<1>5. ASSUME NEW p \in Producer, Finish(p) PROVE Control'
  BY <1>5 DEF Finish, TypeOK, Control
<1>6. ASSUME NEW p \in Producer, NEW c \in Context, OpenContext(p, c) PROVE Control'
  BY <1>6 DEF OpenContext, TypeOK, Control
<1>7. CASE HandlerWait
  BY <1>7 DEF HandlerWait, TypeOK, Control
<1>8. CASE HandlerExit
  BY <1>8 DEF HandlerExit, TypeOK, Control
<1>9. CASE HandlerGet
  <2>1. mpc # "down"
    BY <1>9 DEF HandlerGet, Control
  <2>2. top \in Command /\ istate[top] = "queued"
    BY <1>9, <2>1, NullAssumption, EmptySeq, LenProperties DEF HandlerGet, TypeOK, Listed, ListShape
  <2>3. QED
    BY <1>9, <2>2, NullAssumption DEF HandlerGet, TypeOK, Control
<1>10. CASE HandlerRelease
  BY <1>10 DEF HandlerRelease, TypeOK, Control
<1>11. CASE HandlerDestroy
  BY <1>11 DEF HandlerDestroy, TypeOK, Control
<1>12. CASE HandlerSend
  BY <1>12 DEF HandlerSend, TypeOK, Control
<1>13. CASE SpuriousWake
  BY <1>13 DEF SpuriousWake, TypeOK, Control
<1>14. CASE Stop
  BY <1>14 DEF Stop, Signalled, TypeOK, Control
<1>15. CASE JoinAndDestroy
  BY <1>15 DEF JoinAndDestroy, TypeOK, Control
<1>16. CASE UNCHANGED vars
  BY <1>16 DEF vars, Control
<1>17. QED
  BY <1>1, <1>2, <1>3, <1>4, <1>5, <1>6, <1>7, <1>8, <1>9, <1>10, <1>11, <1>12, <1>13,
     <1>14, <1>15, <1>16 DEF Next, ProducerStep, HandlerStep, Terminated

-----------------------------------------------------------------------------
\* A step that leaves the list alone, and what is in hand, keeps it.
LEMMA ListUntouched ==
    ASSUME Listed, UNCHANGED <<queueVars, accepted, handled>>, InHand' = InHand,
           mpc' = "down" <=> mpc = "down",
           \A i \in Command : istate'[i] = "queued" <=> istate[i] = "queued",
           \A i \in Command : istate'[i] \in {"new", "adding"} => istate[i] \in {"new", "adding"},
           order \in Seq(Command)
    PROVE  Listed'
<1>1. \A k \in 1..Len(order) : order[k] \in Command
  BY ElementOfSeq
<1>2. ListShape'
  BY DEF Listed, ListShape, queueVars
<1>3. InOrderExactlyOnce'
  BY DEF Listed, InOrderExactlyOnce, queueVars
<1>4. QED
  BY <1>1, <1>2, <1>3 DEF Listed, queueVars

\* The list holds commands; its ends are the first and the last of them.
LEMMA ListEnds ==
    ASSUME TypeOK, Listed, order # <<>>
    PROVE  /\ Len(order) \in Nat \ {0}
           /\ \A k \in 1..Len(order) : order[k] \in Command
           /\ top = order[1] /\ top \in Command
           /\ bottom = order[Len(order)] /\ bottom \in Command
           /\ top # NULL /\ bottom # NULL
<1>1. Len(order) \in Nat \ {0}
  BY EmptySeq DEF TypeOK
<1>2. \A k \in 1..Len(order) : order[k] \in Command
  BY ElementOfSeq DEF TypeOK
<1>3. QED
  BY <1>1, <1>2, NullAssumption DEF Listed, ListShape

\* Linking an item at the bottom.
LEMMA AddListed ==
    ASSUME QueueInv, NEW p \in Producer, Add(p)
    PROVE  Listed'
<1> DEFINE x == pitem[p]
           n == Len(order)
<1>1. TypeOK /\ Listed /\ x \in Command /\ istate[x] = "adding" /\ mpc # "down" /\ mpc' = mpc
  BY DEF QueueInv, Control, Add, HandOver
<1>2. /\ order' = Append(order, x) /\ accepted' = Append(accepted, x)
      /\ istate' = [istate EXCEPT ![x] = "queued"]
      /\ top' = IF top = NULL THEN x ELSE top
      /\ next' = IF bottom # NULL THEN [next EXCEPT ![bottom] = x] ELSE next
      /\ bottom' = x /\ qstate' = "USED" /\ handled' = handled
      /\ hitem' = hitem /\ hpc' \in {hpc, Signalled(hpc)}
  BY DEF Add, HandOver
<1>3. n \in Nat /\ \A k \in 1..n : order[k] \in Command /\ order[k] # x /\ istate[order[k]] = "queued"
  BY <1>1, ElementOfSeq, LenProperties DEF TypeOK, Listed
<1> HIDE DEF x
<1>4. /\ Len(order') = n + 1
      /\ \A k \in 1..n : order'[k] = order[k]
      /\ order'[n + 1] = x
  BY <1>1, <1>2, AppendProperties DEF TypeOK
<1>5. order' # <<>>
  BY <1>3, <1>4, EmptySeq
<1>6. \A k \in 1..(n + 1) : k # n + 1 => k \in 1..n
  BY <1>3
<1> HIDE DEF n
<1>7. \A k \in 1..Len(order') : istate'[order'[k]] = "queued"
  BY <1>1, <1>2, <1>3, <1>4, <1>6 DEF TypeOK
<1>8. \A k, l \in 1..Len(order') : order'[k] = order'[l] => k = l
  BY <1>1, <1>3, <1>4, <1>6 DEF Listed, n
<1>9. \A i \in Command : istate'[i] = "queued" => \E k \in 1..Len(order') : order'[k] = i
  <2> SUFFICES ASSUME NEW i \in Command, istate'[i] = "queued"
               PROVE  \E k \in 1..(n + 1) : order'[k] = i
    BY <1>4
  <2>1. CASE i = x
    BY <2>1, <1>3, <1>4
  <2>2. CASE i # x
    <3>1. PICK k \in 1..n : order[k] = i
      BY <2>2, <1>1, <1>2 DEF TypeOK, Listed, n
    <3>2. QED
      BY <3>1, <1>3, <1>4
  <2>3. QED
    BY <2>1, <2>2
<1>10. next[x] = NULL
  BY <1>1 DEF Listed
<1>11. \A i \in Command : istate'[i] \in {"new", "adding"} => next'[i] = NULL
  <2>1. bottom # NULL => istate[bottom] = "queued" /\ bottom \in Command
    BY <1>1, <1>3, ListEnds DEF Listed, ListShape, n
  <2>2. QED
    BY <1>1, <1>2, <2>1 DEF TypeOK, Listed
<1>12. ListShape'
  <2>1. x # NULL
    BY <1>1, NullAssumption
  <2>2. CASE order = <<>>
    <3>1. n = 0 /\ top = NULL /\ bottom = NULL
      BY <2>2, <1>1, EmptySeq DEF Listed, ListShape, n
    <3>2. top' = x /\ next' = next
      BY <3>1, <1>2
    <3>3. QED
      BY <2>1, <3>1, <3>2, <1>2, <1>4, <1>5, <1>10 DEF ListShape
  <2>3. CASE order # <<>>
    <3>1. /\ n \in Nat \ {0} /\ top = order[1] /\ top # NULL
          /\ bottom = order[n] /\ bottom # NULL /\ bottom \in Command
      BY <2>3, <1>1, ListEnds DEF n
    <3>2. top' = order'[1] /\ top' # NULL
      BY <3>1, <1>2, <1>4
    <3>3. next' = [next EXCEPT ![bottom] = x] /\ bottom # x
      BY <3>1, <1>2, <1>3
    <3>4. next'[x] = NULL
      BY <3>3, <1>1, <1>10 DEF TypeOK
    <3>5. ASSUME NEW k \in 1..n PROVE next'[order'[k]] = order'[k + 1]
      <4>1. CASE k = n
        BY <4>1, <3>1, <3>3, <1>4 DEF TypeOK, QueueInv
      <4>2. CASE k # n
        <5>1. k \in 1..(n - 1) /\ k + 1 \in 1..n
          BY <4>2, <1>3
        <5>2. next[order[k]] = order[k + 1]
          BY <5>1, <2>3, <1>1 DEF Listed, ListShape, n
        <5>3. order[k] # bottom /\ order[k] \in Command
          BY <4>2, <3>1, <1>1, <1>3 DEF Listed, n
        <5>4. QED
          BY <5>1, <5>2, <5>3, <3>3, <1>1, <1>4 DEF TypeOK
      <4>3. QED
        BY <4>1, <4>2
    <3>6. Len(order') - 1 = n /\ bottom' = order'[Len(order')]
      BY <1>2, <1>3, <1>4
    <3>7. QED
      BY <2>1, <3>2, <3>4, <3>5, <3>6, <1>2, <1>5 DEF ListShape
  <2>4. QED
    BY <2>2, <2>3
<1>13. InOrderExactlyOnce'
  <2>1. InHand' = InHand /\ InHand \in Seq(Command)
    <3>1. InHand' = InHand
      BY <1>2 DEF InHand, Signalled
    <3>2. hpc \in {"taken", "destroying", "sending"} => hitem \in Command
      BY DEF QueueInv, Control
    <3>3. QED
      BY <3>1, <3>2, EmptySeq DEF InHand
  <2>2. accepted = (handled \o InHand) \o order
    BY <1>1 DEF Listed, InOrderExactlyOnce
  <2>3. handled \o InHand \in Seq(Command)
    BY <1>1, <2>1, ConcatProperties DEF TypeOK
  <2>4. accepted' = (handled \o InHand) \o order'
    <3>1. order \in Seq(Command) /\ accepted \in Seq(Command) /\ <<x>> \in Seq(Command)
      BY <1>1 DEF TypeOK
    <3>2. accepted' = accepted \o <<x>> /\ order' = order \o <<x>>
      BY <1>1, <1>2, <3>1, AppendIsConcat
    <3>3. \A r, s, t \in Seq(Command) : (r \o s) \o t = r \o (s \o t)
      BY ConcatAssociative
    <3>4. ((handled \o InHand) \o order) \o <<x>> = (handled \o InHand) \o (order \o <<x>>)
      BY <2>3, <3>1, <3>3, Zenon
    <3>5. QED
      BY <2>2, <3>2, <3>4, Zenon
  <2>5. QED
    BY <1>1, <1>2, <2>1, <2>4 DEF InOrderExactlyOnce
<1>14. QED
  BY <1>1, <1>7, <1>8, <1>9, <1>11, <1>12, <1>13 DEF Listed

\* Unlinking the item at the top.
LEMMA GetListed ==
    ASSUME QueueInv, HandlerGet
    PROVE  Listed'
<1> DEFINE n == Len(order)
<1>1. TypeOK /\ Listed /\ mpc # "down" /\ mpc' = mpc /\ hpc = "loop"
  BY DEF QueueInv, Control, HandlerGet
<1>2. top # NULL /\ order # <<>>
  BY <1>1 DEF Listed, ListShape, HandlerGet, TypeOK
<1>3. /\ n \in Nat \ {0} /\ \A k \in 1..n : order[k] \in Command
      /\ top = order[1] /\ top \in Command
      /\ bottom = order[n] /\ bottom # NULL /\ bottom \in Command
  BY <1>1, <1>2, ListEnds
<1>4. /\ hitem' = top /\ top' = next[top]
      /\ bottom' = IF top' = NULL THEN NULL ELSE bottom
      /\ qstate' = IF top' # NULL THEN "USED" ELSE "EMPTY"
      /\ order' = Tail(order) /\ istate' = [istate EXCEPT ![top] = "taken"]
      /\ hpc' = "taken" /\ next' = next /\ accepted' = accepted /\ handled' = handled
  BY <1>2 DEF HandlerGet
<1>5. /\ order' \in Seq(Command) /\ Len(order') = n - 1
      /\ \A k \in 1..(n - 1) : order'[k] = order[k + 1]
  BY <1>1, <1>2, <1>4, HeadTailProperties DEF TypeOK
<1>6. /\ \A k \in 1..n : istate[order[k]] = "queued"
      /\ \A k, l \in 1..n : order[k] = order[l] => k = l
      /\ \A i \in Command : istate[i] = "queued" => \E k \in 1..n : order[k] = i
      /\ \A i \in Command : istate[i] \in {"new", "adding"} => next[i] = NULL
      /\ next[bottom] = NULL
      /\ \A k \in 1..(n - 1) : next[order[k]] = order[k + 1]
  BY <1>1, <1>2 DEF Listed, ListShape
<1> HIDE DEF n
<1>7. \A k \in 1..(n - 1) : k + 1 \in 1..n /\ k + 1 # 1
  BY <1>3
<1>8. \A k \in 1..(n - 1) : order'[k] # top /\ order'[k] \in Command
  BY <1>3, <1>5, <1>6, <1>7
<1>9. \A k \in 1..Len(order') : istate'[order'[k]] = "queued"
  BY <1>1, <1>3, <1>4, <1>5, <1>6, <1>7, <1>8 DEF TypeOK
<1>10. \A k, l \in 1..Len(order') : order'[k] = order'[l] => k = l
  <2> SUFFICES ASSUME NEW k \in 1..(n - 1), NEW l \in 1..(n - 1), order'[k] = order'[l]
               PROVE  k = l
    BY <1>5
  <2>1. k + 1 = l + 1
    BY <1>5, <1>6, <1>7
  <2>2. QED
    BY <2>1, <1>3
<1>11. \A i \in Command : istate'[i] = "queued" => \E k \in 1..Len(order') : order'[k] = i
  <2> SUFFICES ASSUME NEW i \in Command, istate'[i] = "queued"
               PROVE  \E k \in 1..(n - 1) : order'[k] = i
    BY <1>5
  <2>1. i # top /\ istate[i] = "queued"
    BY <1>1, <1>4 DEF TypeOK
  <2>2. PICK k \in 1..n : order[k] = i
    BY <2>1, <1>6
  <2>3. k # 1
    BY <2>1, <2>2, <1>3
  <2>4. k - 1 \in 1..(n - 1) /\ (k - 1) + 1 = k
    BY <2>3, <1>3
  <2>5. QED
    BY <2>2, <2>4, <1>5
<1>12. \A i \in Command : istate'[i] \in {"new", "adding"} => next'[i] = NULL
  BY <1>1, <1>4, <1>6 DEF TypeOK
<1>13. ListShape'
  <2>1. CASE n = 1
    <3>1. top' = NULL
      BY <2>1, <1>3, <1>4, <1>6
    <3>2. order' = <<>>
      BY <2>1, <1>5, EmptySeq
    <3>3. QED
      BY <3>1, <3>2, <1>4 DEF ListShape
  <2>2. CASE n # 1
    <3>1. 1 \in 1..(n - 1) /\ n - 1 \in 1..(n - 1) /\ 2 \in 1..n /\ (n - 1) + 1 = n
      BY <2>2, <1>3
    <3>2. top' = order[2] /\ order[2] \in Command
      BY <3>1, <1>3, <1>4, <1>6
    <3>3. top' = order'[1] /\ top' # NULL
      BY <3>1, <3>2, <1>5, NullAssumption
    <3>4. order' # <<>>
      BY <3>1, <1>5, EmptySeq
    <3>5. bottom' = order'[Len(order')] /\ bottom' # NULL /\ next'[bottom'] = NULL
      BY <3>1, <3>3, <1>3, <1>4, <1>5, <1>6
    <3>6. ASSUME NEW k \in 1..(Len(order') - 1) PROVE next'[order'[k]] = order'[k + 1]
      <4>1. k \in 1..(n - 1) /\ k + 1 \in 1..(n - 1)
        BY <1>3, <1>5
      <4>2. order'[k] = order[k + 1] /\ order'[k + 1] = order[(k + 1) + 1]
        BY <4>1, <1>5
      <4>3. next[order[k + 1]] = order[(k + 1) + 1]
        BY <4>1, <1>6
      <4>4. QED
        BY <4>2, <4>3, <1>4
    <3>7. QED
      BY <3>3, <3>4, <3>5, <3>6, <1>4 DEF ListShape
  <2>3. QED
    BY <2>1, <2>2
<1>14. InOrderExactlyOnce'
  <2>1. InHand = <<>> /\ InHand' = <<top>>
    BY <1>1, <1>4 DEF InHand
  <2>2. accepted = handled \o order
    BY <1>1, <2>1, ConcatEmptySeq DEF Listed, InOrderExactlyOnce, TypeOK
  <2>3. order = <<top>> \o order'
    <3>1. <<top>> \in Seq(Command) /\ Len(<<top>>) = 1 /\ <<top>>[1] = top
      BY <1>3
    <3>2. /\ <<top>> \o order' \in Seq(Command)
          /\ Len(<<top>> \o order') = 1 + Len(order')
          /\ \A k \in 1..(1 + Len(order')) :
                (<<top>> \o order')[k] = IF k <= 1 THEN <<top>>[k] ELSE order'[k - 1]
      BY <3>1, <1>5, ConcatProperties
    <3>3. Len(<<top>> \o order') = Len(order)
      BY <3>2, <1>3, <1>5 DEF n
    <3>4. ASSUME NEW k \in 1..Len(order) PROVE order[k] = (<<top>> \o order')[k]
      <4>1. k \in 1..n /\ k \in 1..(1 + Len(order'))
        BY <1>3, <1>5 DEF n
      <4>2. CASE k = 1
        BY <4>1, <4>2, <3>1, <3>2, <1>3
      <4>3. CASE k # 1
        <5>1. k - 1 \in 1..(n - 1) /\ (k - 1) + 1 = k /\ ~(k <= 1)
          BY <4>1, <4>3, <1>3
        <5>2. QED
          BY <5>1, <4>1, <3>2, <1>5
      <4>4. QED
        BY <4>2, <4>3
    <3>5. order \in Seq(Command)
      BY <1>1 DEF TypeOK
    <3>6. QED
      BY <3>2, <3>3, <3>4, <3>5, SeqEqual
  <2>4. handled \o (<<top>> \o order') = (handled \o <<top>>) \o order'
    <3>1. handled \in Seq(Command) /\ <<top>> \in Seq(Command) /\ order' \in Seq(Command)
      BY <1>1, <1>3, <1>5 DEF TypeOK
    <3>2. \A r, s, t \in Seq(Command) : (r \o s) \o t = r \o (s \o t)
      BY ConcatAssociative
    <3>3. QED
      BY <3>1, <3>2, Zenon
  <2>5. QED
    BY <1>1, <1>4, <2>1, <2>2, <2>3, <2>4 DEF InOrderExactlyOnce
<1>15. QED
  BY <1>1, <1>9, <1>10, <1>11, <1>12, <1>13, <1>14 DEF Listed

\* What has been sent was in hand, and is in the list no more.
LEMMA SendListed ==
    ASSUME QueueInv, HandlerSend
    PROVE  Listed'
<1>1. /\ TypeOK /\ Listed /\ mpc # "down" /\ hitem \in Command /\ istate[hitem] = "released"
      /\ hpc = "sending"
  BY DEF QueueInv, Control, HandlerSend
<1>2. /\ UNCHANGED <<top, bottom, qstate, order, accepted, mpc>>
      /\ istate' = [istate EXCEPT ![hitem] = "sent"] /\ next' = [next EXCEPT ![hitem] = NULL]
      /\ hpc' = "loop" /\ handled' = Append(handled, hitem)
  BY DEF HandlerSend
<1>3. \A k \in 1..Len(order) : order[k] \in Command /\ order[k] # hitem
  BY <1>1, ElementOfSeq DEF TypeOK, Listed
<1>4. ListShape'
  <2>1. order # <<>> => bottom \in Command /\ Len(order) \in Nat \ {0} /\ bottom # hitem
    BY <1>1, <1>3, ListEnds
  <2>2. \A k \in 1..Len(order) : next'[order[k]] = next[order[k]]
    BY <1>1, <1>2, <1>3 DEF TypeOK
  <2>3. order # <<>> => next'[bottom] = NULL
    BY <1>1, <1>2, <2>1 DEF TypeOK, Listed, ListShape
  <2>4. order # <<>> => \A k \in 1..Len(order) - 1 : next'[order[k]] = order[k + 1]
    <3> SUFFICES ASSUME order # <<>>, NEW k \in 1..Len(order) - 1
                 PROVE  next'[order[k]] = order[k + 1]
      OBVIOUS
    <3>1. k \in 1..Len(order)
      BY <2>1
    <3>2. next[order[k]] = order[k + 1]
      BY <1>1 DEF Listed, ListShape
    <3>3. QED
      BY <2>2, <3>1, <3>2
  <2>5. QED
    BY <1>1, <1>2, <2>3, <2>4 DEF Listed, ListShape
<1>5. InOrderExactlyOnce'
  <2>1. InHand = <<hitem>> /\ InHand' = <<>>
    BY <1>1, <1>2 DEF InHand
  <2>2. handled' = handled \o <<hitem>> /\ handled' \in Seq(Command)
    BY <1>1, <1>2, AppendIsConcat, AppendProperties DEF TypeOK
  <2>3. handled' \o <<>> = handled'
    BY <2>2, ConcatEmptySeq
  <2>4. accepted = (handled \o InHand) \o order
    BY <1>1 DEF Listed, InOrderExactlyOnce
  <2>5. QED
    BY <1>1, <1>2, <2>1, <2>2, <2>3, <2>4 DEF InOrderExactlyOnce
<1>6. \A k \in 1..Len(order) : istate'[order[k]] = "queued"
  BY <1>1, <1>2, <1>3 DEF TypeOK, Listed
<1>7. QED
  BY <1>1, <1>2, <1>4, <1>5, <1>6 DEF Listed, TypeOK

\* A sequence is the beginning of any that goes on from it.
LEMMA SubSeqBeginning ==
    ASSUME NEW S, NEW s \in Seq(S), NEW t \in Seq(S)
    PROVE  s = SubSeq(s \o t, 1, Len(s))
<1>1. CASE s = <<>>
  <2>1. Len(s) = 0
    BY <1>1, EmptySeq
  <2>2. SubSeq(s \o t, 1, 0) = <<>>
    BY SubSeqEmpty
  <2>3. QED
    BY <1>1, <2>1, <2>2
<1>2. CASE s # <<>>
  <2>1. Len(s) \in 1..Len(s) /\ 1 \in 1..Len(s)
    BY <1>2, EmptySeq
  <2>2. SubSeq(s \o t, 1, Len(s)) = SubSeq(s, 1, Len(s))
    BY <2>1, SubSeqOfConcat1
  <2>3. QED
    BY <2>2, SubSeqFull
<1>3. QED
  BY <1>1, <1>2

\* Giving up what is queued leaves an empty list, and what was sent is how the
\* accepted commands began.
LEMMA JoinListed ==
    ASSUME QueueInv, JoinAndDestroy
    PROVE  Listed'
<1>1. TypeOK /\ Listed /\ mpc = "joining" /\ hpc = "stopped"
  BY DEF QueueInv, JoinAndDestroy
<1>2. /\ UNCHANGED <<next, accepted, handled, hpc, hitem>>
      /\ top' = NULL /\ bottom' = NULL /\ order' = <<>> /\ mpc' = "down"
      /\ istate' = [i \in Command |-> IF istate[i] = "queued" THEN "dropped" ELSE istate[i]]
  BY DEF JoinAndDestroy, handlerVars
<1>3. \A i \in Command : istate'[i] # "queued"
  BY <1>2
<1>4. \A i \in Command : istate'[i] \in {"new", "adding"} => istate[i] \in {"new", "adding"}
  BY <1>2
<1>5. ListShape'
  BY <1>2 DEF ListShape
<1>6. InOrderExactlyOnce'
  <2>1. InHand = <<>>
    BY <1>1 DEF InHand
  <2>2. accepted = handled \o order
    BY <1>1, <2>1, ConcatEmptySeq DEF Listed, InOrderExactlyOnce, TypeOK
  <2>3. handled = SubSeq(handled \o order, 1, Len(handled))
    BY <1>1, SubSeqBeginning DEF TypeOK
  <2>4. QED
    BY <1>2, <2>2, <2>3 DEF InOrderExactlyOnce
<1>7. Len(order') = 0
  BY <1>2, EmptySeq
<1>8. QED
  BY <1>1, <1>2, <1>3, <1>4, <1>5, <1>6, <1>7 DEF Listed

\* The list is right after every step.
LEMMA StepListed == ASSUME QueueInv, [Next]_vars PROVE Listed'
<1> USE DEF queueVars, contextVars, producerVars, handlerVars
<1>1. TypeOK /\ Control /\ Listed /\ order \in Seq(Command)
  BY DEF QueueInv, TypeOK
<1>2. ASSUME NEW p \in Producer, NEW i \in Command, Acquire(p, i) PROVE Listed'
  <2>1. istate[i] = "new" /\ istate' = [istate EXCEPT ![i] = "adding"]
    BY <1>2 DEF Acquire
  <2>2. /\ \A j \in Command : istate'[j] = "queued" <=> istate[j] = "queued"
        /\ \A j \in Command : istate'[j] \in {"new", "adding"} => istate[j] \in {"new", "adding"}
    BY <1>1, <2>1 DEF TypeOK
  <2>3. QED
    BY <1>1, <1>2, <2>2, ListUntouched DEF Acquire, InHand
<1>3. ASSUME NEW p \in Producer, Release(p) PROVE Listed'
  BY <1>1, <1>3, ListUntouched DEF Release, InHand
<1>4. ASSUME NEW p \in Producer, Destroy(p) PROVE Listed'
  BY <1>1, <1>4, ListUntouched DEF Destroy, InHand
<1>5. ASSUME NEW p \in Producer, Finish(p) PROVE Listed'
  BY <1>1, <1>5, ListUntouched DEF Finish, InHand
<1>6. ASSUME NEW p \in Producer, NEW c \in Context, OpenContext(p, c) PROVE Listed'
  BY <1>1, <1>6, ListUntouched DEF OpenContext, InHand
<1>7. CASE HandlerWait
  BY <1>1, <1>7, ListUntouched DEF HandlerWait, InHand
<1>8. CASE HandlerExit
  BY <1>1, <1>8, ListUntouched DEF HandlerExit, InHand
<1>9. CASE HandlerRelease
  <2>1. istate[hitem] = "taken" /\ istate' = [istate EXCEPT ![hitem] = "released"]
    BY <1>1, <1>9 DEF HandlerRelease, Control
  <2>2. /\ \A j \in Command : istate'[j] = "queued" <=> istate[j] = "queued"
        /\ \A j \in Command : istate'[j] \in {"new", "adding"} => istate[j] \in {"new", "adding"}
    BY <1>1, <2>1 DEF TypeOK
  <2>3. InHand' = InHand
    BY <1>9 DEF HandlerRelease, InHand
  <2>4. QED
    BY <1>1, <1>9, <2>2, <2>3, ListUntouched DEF HandlerRelease
<1>10. CASE HandlerDestroy
  BY <1>1, <1>10, ListUntouched DEF HandlerDestroy, InHand
<1>11. CASE SpuriousWake
  BY <1>1, <1>11, ListUntouched DEF SpuriousWake, InHand
<1>12. CASE Stop
  <2>1. InHand' = InHand
    BY <1>12 DEF Stop, Signalled, InHand
  <2>2. QED
    BY <1>1, <1>12, <2>1, ListUntouched DEF Stop
<1>13. CASE UNCHANGED vars
  BY <1>1, <1>13, ListUntouched DEF vars, InHand
<1>14. QED
  BY <1>2, <1>3, <1>4, <1>5, <1>6, <1>7, <1>8, <1>9, <1>10, <1>11, <1>12, <1>13,
     AddListed, GetListed, SendListed, JoinListed
     DEF Next, ProducerStep, HandlerStep, Terminated

-----------------------------------------------------------------------------
\* A step that changes no count, no holder and nobody who is about to free.
LEMMA CountUntouched ==
    ASSUME Counted, UNCHANGED contextVars,
           \A c \in Context : Holders(c)' = Holders(c),
           \A c \in Context : \A p \in Producer : Frees(p, c)' <=> Frees(p, c),
           \A c \in Context : HandlerFrees(c)' <=> HandlerFrees(c)
    PROVE  Counted'
<1>1. ReferenceExact'
  BY DEF Counted, ReferenceExact, contextVars
<1>2. QED
  BY <1>1 DEF Counted, contextVars

\* The item goes from its producer to the list.
LEMMA AddCounted ==
    ASSUME QueueInv, NEW p \in Producer, Add(p)
    PROVE  Counted'
<1>1. /\ TypeOK /\ Control /\ Counted
      /\ pc[p] = "adding" /\ pitem[p] \in Command /\ istate[pitem[p]] = "adding"
      /\ pc' = [pc EXCEPT ![p] = "parsing"] /\ istate' = [istate EXCEPT ![pitem[p]] = "queued"]
      /\ UNCHANGED <<contextVars, icontext, pcontext, hitem>> /\ hpc' \in {hpc, Signalled(hpc)}
  BY DEF QueueInv, Control, Add, HandOver
<1>2. \A c \in Context : Holders(c)' = Holders(c)
  BY <1>1 DEF Holders, TypeOK
<1>3. \A c \in Context : \A q \in Producer : Frees(q, c)' <=> Frees(q, c)
  BY <1>1 DEF Frees, TypeOK
<1>4. \A c \in Context : HandlerFrees(c)' <=> HandlerFrees(c)
  BY <1>1 DEF HandlerFrees, Signalled
<1>5. QED
  BY <1>1, <1>2, <1>3, <1>4, CountUntouched

\* The item goes from the list to the handler.
LEMMA GetCounted ==
    ASSUME QueueInv, HandlerGet
    PROVE  Counted'
<1>1. TypeOK /\ Control /\ Listed /\ Counted /\ hpc = "loop" /\ mpc # "down"
  BY DEF QueueInv, Control, HandlerGet
<1>2. top # NULL /\ order # <<>>
  BY <1>1 DEF Listed, ListShape, HandlerGet, TypeOK
<1>3. top \in Command /\ istate[top] = "queued"
  BY <1>1, <1>2, ListEnds DEF Listed
<1>4. /\ istate' = [istate EXCEPT ![top] = "taken"] /\ hpc' = "taken"
      /\ UNCHANGED <<contextVars, icontext, pc, pcontext>>
  BY <1>2 DEF HandlerGet, producerVars
<1>5. \A c \in Context : Holders(c)' = Holders(c)
  BY <1>1, <1>3, <1>4 DEF Holders, TypeOK
<1>6. \A c \in Context : \A q \in Producer : Frees(q, c)' <=> Frees(q, c)
  BY <1>4 DEF Frees
<1>7. \A c \in Context : HandlerFrees(c)' <=> HandlerFrees(c)
  BY <1>1, <1>4 DEF HandlerFrees
<1>8. QED
  BY <1>1, <1>4, <1>5, <1>6, <1>7, CountUntouched

\* What is sent was released before.
LEMMA SendCounted ==
    ASSUME QueueInv, HandlerSend
    PROVE  Counted'
<1>1. /\ TypeOK /\ Counted /\ hitem \in Command /\ istate[hitem] = "released" /\ hpc = "sending"
      /\ istate' = [istate EXCEPT ![hitem] = "sent"]
      /\ icontext' = [icontext EXCEPT ![hitem] = NULL]
      /\ hpc' = "loop" /\ UNCHANGED <<contextVars, pc, pcontext>>
  BY DEF QueueInv, Control, HandlerSend, producerVars
<1>2. \A c \in Context : Holders(c)' = Holders(c)
  BY <1>1 DEF Holders, TypeOK
<1>3. \A c \in Context : \A q \in Producer : Frees(q, c)' <=> Frees(q, c)
  BY <1>1 DEF Frees
<1>4. \A c \in Context : HandlerFrees(c)' <=> HandlerFrees(c)
  BY <1>1 DEF HandlerFrees
<1>5. QED
  BY <1>1, <1>2, <1>3, <1>4, CountUntouched

\* What is given up is not released.
LEMMA JoinCounted ==
    ASSUME QueueInv, JoinAndDestroy
    PROVE  Counted'
<1>1. /\ TypeOK /\ Counted
      /\ istate' = [i \in Command |-> IF istate[i] = "queued" THEN "dropped" ELSE istate[i]]
      /\ UNCHANGED <<contextVars, icontext, pc, pcontext, hpc, hitem>>
  BY DEF QueueInv, JoinAndDestroy, producerVars, handlerVars
<1>2. \A c \in Context : Holders(c)' = Holders(c)
  BY <1>1 DEF Holders, TypeOK
<1>3. QED
  BY <1>1, <1>2, CountUntouched DEF Frees, HandlerFrees

\* One holder more raises the count by one.
LEMMA OneMore ==
    ASSUME NEW c, NEW x, x \notin Holders(c)
    PROVE  Cardinality(Holders(c) \cup {x}) = Cardinality(Holders(c)) + 1
BY HoldersFinite, FS_AddElement

\* One holder less lowers it by one.
LEMMA OneLess ==
    ASSUME NEW c, NEW x, x \in Holders(c)
    PROVE  Cardinality(Holders(c) \ {x}) = Cardinality(Holders(c)) - 1
BY HoldersFinite, FS_RemoveElement

\* A new context has one holder, the producer that has created it.
LEMMA OpenCounted ==
    ASSUME QueueInv, NEW p \in Producer, NEW c \in Context, OpenContext(p, c)
    PROVE  Counted'
<1>1. /\ TypeOK /\ Control /\ Counted
      /\ pc[p] = "idle" /\ cstate[c] = "new"
      /\ cstate' = [cstate EXCEPT ![c] = "live"] /\ reference' = [reference EXCEPT ![c] = 1]
      /\ pcontext' = [pcontext EXCEPT ![p] = c] /\ pc' = [pc EXCEPT ![p] = "parsing"]
      /\ UNCHANGED <<istate, icontext, hpc, hitem>>
  BY DEF QueueInv, OpenContext, handlerVars
<1>2. Holders(c) = {}
  BY <1>1 DEF Counted
<1>3. Holders(c)' = {p}
  BY <1>1, <1>2 DEF Holders, TypeOK
<1>4. \A d \in Context : d # c => Holders(d)' = Holders(d)
  BY <1>1 DEF Holders, TypeOK
<1>5. \A d \in Context : \A q \in Producer : Frees(q, d)' <=> Frees(q, d)
  BY <1>1 DEF Frees, TypeOK
<1>6. \A d \in Context : HandlerFrees(d)' <=> HandlerFrees(d)
  BY <1>1 DEF HandlerFrees
<1>7. \A d \in Context : cstate'[d] = IF d = c THEN "live" ELSE cstate[d]
  BY <1>1 DEF TypeOK
<1>8. ReferenceExact'
  <2>1. Cardinality(Holders(c)') = 1
    BY <1>3, FS_Singleton
  <2>2. QED
    BY <1>1, <1>4, <2>1 DEF Counted, ReferenceExact, TypeOK
<1>9. \A q \in Producer : ~Frees(q, c)
  BY <1>1 DEF Counted
<1>10. ~HandlerFrees(c)
  BY <1>1 DEF Counted
<1>11. QED
  BY <1>1, <1>3, <1>4, <1>5, <1>6, <1>7, <1>8, <1>9, <1>10 DEF Counted

\* A command is one more holder of a context its producer holds.
LEMMA AcquireCounted ==
    ASSUME QueueInv, NEW p \in Producer, NEW i \in Command, Acquire(p, i)
    PROVE  Counted'
<1>0. PICK c \in Context : c = pcontext[p]
  BY ParserHolds DEF QueueInv, Acquire
<1>1. /\ TypeOK /\ Control /\ Counted /\ i \in Command
      /\ pc[p] = "parsing" /\ istate[i] = "new"
      /\ reference' = [reference EXCEPT ![c] = reference[c] + 1]
      /\ istate' = [istate EXCEPT ![i] = "adding"] /\ icontext' = [icontext EXCEPT ![i] = c]
      /\ pc' = [pc EXCEPT ![p] = "adding"]
      /\ UNCHANGED <<cstate, pcontext, hpc, hitem>>
  BY <1>0 DEF QueueInv, Acquire, handlerVars
<1>2. pcontext[p] = c /\ p \in Holders(c)
  BY <1>0, <1>1, ParserHolds
<1>3. i \notin Holders(c)
  BY <1>1, DisjointAssumption DEF Holders
<1>4. Holders(c)' = Holders(c) \cup {i}
  BY <1>1, <1>2 DEF Holders, TypeOK
<1>5. \A d \in Context : d # c => Holders(d)' = Holders(d)
  BY <1>1, <1>2 DEF Holders, TypeOK
<1>6. \A d \in Context : \A q \in Producer : Frees(q, d)' <=> Frees(q, d)
  BY <1>1 DEF Frees, TypeOK
<1>7. \A d \in Context : HandlerFrees(d)' <=> HandlerFrees(d)
  BY <1>1 DEF HandlerFrees, Control, TypeOK
<1>8. ReferenceExact'
  <2>1. Cardinality(Holders(c)') = Cardinality(Holders(c)) + 1
    BY <1>3, <1>4, OneMore
  <2>2. QED
    BY <1>1, <1>2, <1>5, <2>1 DEF Counted, ReferenceExact, TypeOK
<1>9. cstate[c] = "live" /\ (\A q \in Producer : ~Frees(q, c)) /\ ~HandlerFrees(c)
  BY <1>1, <1>2 DEF Counted
<1>10. \A d \in Context : Holders(d)' # {} => Holders(d) # {}
  BY <1>2, <1>4, <1>5
<1>11. \A d \in Context : Holders(d) # {} => Holders(d)' # {}
  BY <1>2, <1>4, <1>5
<1>12. QED
  BY <1>1, <1>6, <1>7, <1>8, <1>9, <1>10, <1>11 DEF Counted

\* A producer that has parsed its packet holds the context no more; it will free it
\* if it was the last.
LEMMA ReleaseCounted ==
    ASSUME QueueInv, NEW p \in Producer, Release(p)
    PROVE  Counted'
<1>1. PICK c \in Context : c = pcontext[p]
  BY ParserHolds DEF QueueInv, Release
<1>2. /\ TypeOK /\ Control /\ Counted /\ pc[p] = "parsing" /\ pcontext[p] = c
      /\ reference' = [reference EXCEPT ![c] = reference[c] - 1]
      /\ UNCHANGED <<istate, icontext, cstate, hpc, hitem>>
  BY <1>1 DEF QueueInv, Release, handlerVars
<1>3. p \in Holders(c)
  BY <1>2, ParserHolds
<1>4. reference'[c] = reference[c] - 1
  BY <1>2 DEF TypeOK
<1>5. \/ /\ reference'[c] = 0
         /\ pc' = [pc EXCEPT ![p] = "destroying"] /\ pcontext' = pcontext
      \/ /\ reference'[c] # 0
         /\ pc' = [pc EXCEPT ![p] = "idle"] /\ pcontext' = [pcontext EXCEPT ![p] = NULL]
  BY <1>2, Zenon DEF Release
<1>6. pc'[p] # "parsing" /\ pc'[p] # "adding" /\ \A q \in Producer : q # p =>
          pc'[q] = pc[q] /\ pcontext'[q] = pcontext[q]
  BY <1>2, <1>5 DEF TypeOK
<1>7. Holders(c)' = Holders(c) \ {p}
  <2>1. p \notin Command
    BY DisjointAssumption
  <2>2. QED
    BY <1>2, <1>6, <2>1 DEF Holders
<1>8. \A d \in Context : d # c => Holders(d)' = Holders(d)
  BY <1>2, <1>6 DEF Holders
<1>9. \A d \in Context : HandlerFrees(d)' <=> HandlerFrees(d)
  BY <1>2 DEF HandlerFrees
<1>10. /\ \A d \in Context : \A q \in Producer : q # p => (Frees(q, d)' <=> Frees(q, d))
       /\ \A d \in Context : Frees(p, d)' <=> d = c /\ reference'[c] = 0
  <2>1. \A d \in Context : \A q \in Producer : q # p => (Frees(q, d)' <=> Frees(q, d))
    BY <1>6 DEF Frees
  <2>2. CASE reference'[c] = 0
    BY <1>2, <1>5, <2>1, <2>2 DEF Frees, TypeOK
  <2>3. CASE reference'[c] # 0
    BY <1>2, <1>5, <2>1, <2>3 DEF Frees, TypeOK
  <2>4. QED
    BY <2>2, <2>3
<1>11. ReferenceExact'
  <2>1. Cardinality(Holders(c)') = Cardinality(Holders(c)) - 1
    BY <1>3, <1>7, OneLess
  <2>2. QED
    BY <1>2, <1>4, <1>8, <2>1 DEF Counted, ReferenceExact, TypeOK
<1>12. reference'[c] = 0 <=> Holders(c)' = {}
  <2>1. IsFiniteSet(Holders(c)')
    BY <1>7, HoldersFinite, FS_Subset
  <2>2. Cardinality(Holders(c)') = 0 <=> Holders(c)' = {}
    BY <2>1, FS_EmptySet
  <2>3. QED
    BY <1>11, <2>2 DEF ReferenceExact
<1>13. cstate[c] = "live" /\ (\A q \in Producer : ~Frees(q, c)) /\ ~HandlerFrees(c)
  BY <1>2, <1>3 DEF Counted
<1>14. ~\E d \in Context : Frees(p, d)
  BY <1>2 DEF Frees
<1>15. QED
  BY <1>2, <1>8, <1>9, <1>10, <1>11, <1>12, <1>13, <1>14 DEF Counted

\* The handler, which copies the originator, holds the context no more.
LEMMA HandlerReleaseCounted ==
    ASSUME QueueInv, HandlerRelease
    PROVE  Counted'
<1>1. PICK c \in Context : c = icontext[hitem]
  BY HandlerHolds DEF QueueInv, HandlerRelease
<1>2. /\ TypeOK /\ Control /\ Counted /\ hpc = "taken" /\ icontext[hitem] = c
      /\ hitem \in Command /\ istate[hitem] = "taken"
      /\ reference' = [reference EXCEPT ![c] = reference[c] - 1]
      /\ istate' = [istate EXCEPT ![hitem] = "released"]
      /\ hpc' = IF reference'[c] = 0 THEN "destroying" ELSE "sending"
      /\ UNCHANGED <<icontext, cstate, pc, pcontext, hitem>>
  BY <1>1 DEF QueueInv, Control, HandlerRelease, producerVars
<1>3. hitem \in Holders(c)
  BY <1>2, HandlerHolds
<1>4. reference'[c] = reference[c] - 1
  BY <1>2 DEF TypeOK
<1>5. Holders(c)' = Holders(c) \ {hitem}
  <2>1. hitem \notin Producer
    BY <1>2, DisjointAssumption
  <2>2. QED
    BY <1>2, <2>1 DEF Holders, TypeOK
<1>6. \A d \in Context : d # c => Holders(d)' = Holders(d)
  BY <1>2 DEF Holders, TypeOK
<1>7. \A d \in Context : \A q \in Producer : Frees(q, d)' <=> Frees(q, d)
  BY <1>2 DEF Frees
<1>8. \A d \in Context : HandlerFrees(d)' <=> d = c /\ reference'[c] = 0
  BY <1>2 DEF HandlerFrees
<1>9. ReferenceExact'
  <2>1. Cardinality(Holders(c)') = Cardinality(Holders(c)) - 1
    <3>1. Cardinality(Holders(c) \ {hitem}) = Cardinality(Holders(c)) - 1
      BY <1>3, OneLess
    <3>2. QED
      BY <1>5, <3>1
  <2>2. QED
    BY <1>2, <1>4, <1>6, <2>1 DEF Counted, ReferenceExact, TypeOK
<1>10. reference'[c] = 0 <=> Holders(c)' = {}
  <2>1. IsFiniteSet(Holders(c)')
    BY <1>5, HoldersFinite, FS_Subset
  <2>2. Cardinality(Holders(c)') = 0 <=> Holders(c)' = {}
    BY <2>1, FS_EmptySet
  <2>3. QED
    BY <1>9, <2>2 DEF ReferenceExact
<1>11. cstate[c] = "live" /\ \A q \in Producer : ~Frees(q, c)
  BY <1>2, <1>3 DEF Counted
<1>12. \A d \in Context : ~HandlerFrees(d)
  BY <1>2 DEF HandlerFrees
<1>13. QED
  BY <1>2, <1>6, <1>7, <1>8, <1>9, <1>10, <1>11, <1>12 DEF Counted

\* Freeing a context: no count changes, and one thread less is about to free.
LEMMA DestroyCounted ==
    ASSUME QueueInv, NEW p \in Producer, Destroy(p)
    PROVE  Counted'
<1>1. PICK c \in Context : c = pcontext[p]
  BY DEF QueueInv, Control, Destroy
<1>2. /\ TypeOK /\ Counted /\ pc[p] = "destroying" /\ pcontext[p] = c
      /\ cstate' = [cstate EXCEPT ![c] = "freed"]
      /\ pc' = [pc EXCEPT ![p] = "idle"] /\ pcontext' = [pcontext EXCEPT ![p] = NULL]
      /\ UNCHANGED <<reference, istate, icontext, hpc, hitem>>
  BY <1>1 DEF QueueInv, Destroy, handlerVars
<1>3. \A d \in Context : Holders(d)' = Holders(d)
  BY <1>2 DEF Holders, TypeOK
<1>4. Frees(p, c) /\ Holders(c) = {} /\ ~HandlerFrees(c)
  BY <1>2 DEF Frees, Counted
<1>5. \A q \in Producer : Frees(q, c) => q = p
  BY <1>2, <1>4 DEF Counted
<1>6. \A d \in Context : \A q \in Producer : Frees(q, d)' <=> q # p /\ Frees(q, d)
  BY <1>2 DEF Frees, TypeOK
<1>7. \A d \in Context : Frees(p, d) => d = c
  BY <1>2 DEF Frees
<1>8. \A d \in Context : HandlerFrees(d)' <=> HandlerFrees(d)
  BY <1>2 DEF HandlerFrees
<1>9. \A d \in Context : cstate'[d] = IF d = c THEN "freed" ELSE cstate[d]
  BY <1>2 DEF TypeOK
<1>10. ReferenceExact'
  BY <1>2, <1>3 DEF Counted, ReferenceExact
<1>11. QED
  BY <1>2, <1>3, <1>4, <1>5, <1>6, <1>7, <1>8, <1>9, <1>10 DEF Counted

\* The same of the handler, the other thread that may find itself the last.
LEMMA HandlerDestroyCounted ==
    ASSUME QueueInv, HandlerDestroy
    PROVE  Counted'
<1>1. PICK c \in Context : c = icontext[hitem]
  BY DEF QueueInv, Control, HandlerDestroy
<1>2. /\ TypeOK /\ Counted /\ hpc = "destroying" /\ icontext[hitem] = c
      /\ cstate' = [cstate EXCEPT ![c] = "freed"] /\ hpc' = "sending"
      /\ UNCHANGED <<reference, istate, icontext, pc, pcontext, hitem>>
  BY <1>1 DEF QueueInv, HandlerDestroy, producerVars
<1>3. \A d \in Context : Holders(d)' = Holders(d)
  BY <1>2 DEF Holders
<1>4. HandlerFrees(c) /\ Holders(c) = {} /\ \A q \in Producer : ~Frees(q, c)
  BY <1>2 DEF HandlerFrees, Counted
<1>5. \A d \in Context : \A q \in Producer : Frees(q, d)' <=> Frees(q, d)
  BY <1>2 DEF Frees
<1>6. \A d \in Context : ~HandlerFrees(d)' /\ (HandlerFrees(d) => d = c)
  BY <1>2 DEF HandlerFrees
<1>7. \A d \in Context : cstate'[d] = IF d = c THEN "freed" ELSE cstate[d]
  BY <1>2 DEF TypeOK
<1>8. ReferenceExact'
  BY <1>2, <1>3 DEF Counted, ReferenceExact
<1>9. QED
  BY <1>2, <1>3, <1>4, <1>5, <1>6, <1>7, <1>8 DEF Counted

\* The counts are right after every step.
LEMMA StepCounted == ASSUME QueueInv, [Next]_vars PROVE Counted'
<1> USE DEF contextVars, producerVars, handlerVars
<1>1. TypeOK /\ Counted
  BY DEF QueueInv
<1>2. ASSUME NEW p \in Producer, Finish(p) PROVE Counted'
  <2>1. pc[p] = "idle" /\ pc' = [pc EXCEPT ![p] = "done"]
        /\ UNCHANGED <<contextVars, istate, icontext, pcontext, hpc, hitem>>
    BY <1>2 DEF Finish
  <2>2. \A c \in Context : Holders(c)' = Holders(c)
    BY <1>1, <2>1 DEF Holders, TypeOK
  <2>3. \A c \in Context : \A q \in Producer : Frees(q, c)' <=> Frees(q, c)
    BY <1>1, <2>1 DEF Frees, TypeOK
  <2>4. QED
    BY <1>1, <2>1, <2>2, <2>3, CountUntouched DEF HandlerFrees
<1>3. CASE HandlerWait
  BY <1>1, <1>3, CountUntouched DEF HandlerWait, Holders, Frees, HandlerFrees
<1>4. CASE HandlerExit
  BY <1>1, <1>4, CountUntouched DEF HandlerExit, Holders, Frees, HandlerFrees
<1>5. CASE SpuriousWake
  BY <1>1, <1>5, CountUntouched DEF SpuriousWake, Holders, Frees, HandlerFrees
<1>6. CASE Stop
  BY <1>1, <1>6, CountUntouched DEF Stop, Signalled, Holders, Frees, HandlerFrees
<1>7. CASE UNCHANGED vars
  BY <1>1, <1>7, CountUntouched DEF vars, Holders, Frees, HandlerFrees
<1>8. QED
  BY <1>2, <1>3, <1>4, <1>5, <1>6, <1>7, OpenCounted, AcquireCounted, AddCounted,
     ReleaseCounted, DestroyCounted, GetCounted, HandlerReleaseCounted,
     HandlerDestroyCounted, SendCounted, JoinCounted
     DEF Next, ProducerStep, HandlerStep, Terminated

-----------------------------------------------------------------------------
\* The inductive invariant: a queue with any number of producers and commands.
THEOREM QueueInvariant == Spec => []QueueInv
<1>1. QueueInv /\ [Next]_vars => QueueInv'
  BY StepTypeOK, StepControl, StepListed, StepCounted DEF QueueInv
<1>2. QED
  BY InitQueue, <1>1, PTL DEF Spec

\* Types; in particular context->reference, which is unsigned, never goes below 0.
THEOREM QueueTypeOK == Spec => []TypeOK
<1>1. QueueInv => TypeOK
  BY DEF QueueInv
<1>2. QED
  BY QueueInvariant, <1>1, PTL

\* top, bottom and the links of the items are the queue (data_queue_add, _get).
THEOREM QueueListShape == Spec => []ListShape
<1>1. QueueInv => ListShape
  BY DEF QueueInv, Listed
<1>2. QED
  BY QueueInvariant, <1>1, PTL

\* Every accepted command is sent once and in order, or in hand, or queued.
THEOREM QueueInOrderExactlyOnce == Spec => []InOrderExactlyOnce
<1>1. QueueInv => InOrderExactlyOnce
  BY DEF QueueInv, Listed
<1>2. QED
  BY QueueInvariant, <1>1, PTL

\* context->reference counts the holders, whatever the order of acquire and release.
THEOREM QueueReferenceExact == Spec => []ReferenceExact
<1>1. QueueInv => ReferenceExact
  BY DEF QueueInv, Counted
<1>2. QED
  BY QueueInvariant, <1>1, PTL

\* Nobody uses a context that data_context_destroy has freed, and it is freed once.
THEOREM QueueNoUseAfterFree == Spec => []NoUseAfterFree
<1>1. QueueInv => NoUseAfterFree
  <2> SUFFICES ASSUME QueueInv PROVE NoUseAfterFree
    OBVIOUS
  <2>1. \A p \in Producer : pc[p] = "destroying" => cstate[pcontext[p]] = "live"
    BY DEF QueueInv, Control, Counted, Frees
  <2>2. hpc = "destroying" => cstate[icontext[hitem]] = "live"
    BY DEF QueueInv, Control, Counted, HandlerFrees
  <2>3. QED
    BY <2>1, <2>2 DEF QueueInv, Counted, NoUseAfterFree
<1>2. QED
  BY QueueInvariant, <1>1, PTL

\* After midi_sender_stop only what a dropped item points to is still allocated: every
\* other holder has released, and whoever released last has freed.
THEOREM QueueOnlyDroppedLeak == Spec => []OnlyDroppedLeak
<1>1. QueueInv => OnlyDroppedLeak
  <2> SUFFICES ASSUME QueueInv, mpc = "down", NEW c \in Context, cstate[c] = "live"
               PROVE  \E i \in Command : istate[i] = "dropped" /\ icontext[i] = c
    BY DEF OnlyDroppedLeak
  <2>1. hpc = "stopped" /\ \A p \in Producer : pc[p] = "done"
    BY DEF QueueInv, Control
  <2>2. Holders(c) # {}
    BY <2>1 DEF QueueInv, Counted, Frees, HandlerFrees
  <2>3. PICK i \in Command : icontext[i] = c
                             /\ istate[i] \in {"adding", "queued", "taken", "dropped"}
    BY <2>1, <2>2 DEF Holders
  <2>4. istate[i] # "adding" /\ istate[i] # "taken"
    BY <2>1 DEF QueueInv, Control
  <2>5. istate[i] # "queued"
    BY EmptySeq DEF QueueInv, Listed
  <2>6. QED
    BY <2>3, <2>4, <2>5
<1>2. QED
  BY QueueInvariant, <1>1, PTL
=============================================================================
