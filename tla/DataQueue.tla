----------------------------- MODULE DataQueue ------------------------------
(***************************************************************************)
(* data_queue.c, data_context.c and the two ends of the queue in           *)
(* midi_sender.c: the hand-over of parsed MIDI commands from the threads   *)
(* that read sockets and ALSA devices to the thread that sends them to the *)
(* RTP connections.                                                        *)
(*                                                                         *)
(* Producers are the main thread and the ALSA listener.  Each packet they  *)
(* read gets a reference-counted data_context naming its originator, which *)
(* every command parsed from the packet shares.  A section of code that    *)
(* runs under queue->lock or context->lock is one action.  Allocation does *)
(* not fail, and an address is not handed out again after a free: a        *)
(* Command and a Context stand for one allocation each.                    *)
(***************************************************************************)
EXTENDS Integers, Sequences, FiniteSets

CONSTANTS Producer,   \* the threads that call midi_sender_add
          Command,    \* the commands, and the queue items that carry them
          Context,    \* the data_context allocations
          NULL        \* the null pointer

ASSUME FiniteAssumption == IsFiniteSet(Producer) /\ IsFiniteSet(Command)
ASSUME NullAssumption == NULL \notin Producer \cup Command \cup Context
ASSUME DisjointAssumption == Producer \cap Command = {}

VARIABLES
    top, bottom,  \* queue->top, queue->bottom
    next,         \* item->next of every item
    qstate,       \* queue->state
    shutdown,     \* queue->shutdown, FALSE for DATA_QUEUE_CONTINUE
    istate,       \* where an item is in its life
    icontext,     \* item->context
    order,        \* history: the items between data_queue_add and _get
    accepted,     \* history: the commands in the order they were added
    handled,      \* history: the commands in the order they were sent
    reference,    \* context->reference
    cstate,       \* whether a context is allocated
    pc,           \* what each producer is doing
    pcontext,     \* the local context of net_socket_read in each producer
    pitem,        \* the item a producer is adding
    hpc,          \* what the queue thread is doing (data_queue_handler)
    hitem,        \* its local item
    mpc           \* how far midi_sender_stop has got in the main thread

queueVars   == <<top, bottom, next, qstate, order>>
contextVars == <<reference, cstate>>
producerVars == <<pc, pcontext, pitem>>
handlerVars == <<hpc, hitem>>
vars == <<top, bottom, next, qstate, shutdown, istate, icontext, order, accepted,
          handled, reference, cstate, pc, pcontext, pitem, hpc, hitem, mpc>>

ItemState    == {"new", "adding", "queued", "taken", "released", "sent", "dropped"}
ContextState == {"new", "live", "freed"}
ProducerPC   == {"idle", "parsing", "adding", "destroying", "done"}
HandlerPC    == {"loop", "waiting", "taken", "destroying", "sending", "stopped"}

\* data_queue_create and data_queue_start: the handler is at the top of its loop.
Init ==
    /\ top = NULL
    /\ bottom = NULL
    /\ next = [i \in Command |-> NULL]
    /\ qstate = "EMPTY"
    /\ shutdown = FALSE
    /\ istate = [i \in Command |-> "new"]
    /\ icontext = [i \in Command |-> NULL]
    /\ order = <<>>
    /\ accepted = <<>>
    /\ handled = <<>>
    /\ reference = [c \in Context |-> 0]
    /\ cstate = [c \in Context |-> "new"]
    /\ pc = [p \in Producer |-> "idle"]
    /\ pcontext = [p \in Producer |-> NULL]
    /\ pitem = [p \in Producer |-> NULL]
    /\ hpc = "loop"
    /\ hitem = NULL
    /\ mpc = "running"

-----------------------------------------------------------------------------
\* Producers.

\* net_socket_read: data_context_create and data_context_acquire before the
\* packet is parsed.
OpenContext(p, c) ==
    /\ pc[p] = "idle"
    /\ cstate[c] = "new"
    /\ cstate' = [cstate EXCEPT ![c] = "live"]
    /\ reference' = [reference EXCEPT ![c] = 1]
    /\ pcontext' = [pcontext EXCEPT ![p] = c]
    /\ pc' = [pc EXCEPT ![p] = "parsing"]
    /\ UNCHANGED <<queueVars, shutdown, istate, icontext, accepted, handled,
                   pitem, handlerVars, mpc>>

\* midi_sender_add up to the queue: data_context_acquire for the command i.
\* The slip queues the command on the reference the packet holds.
SkipAcquire(p, i) ==
    /\ pc[p] = "parsing"
    /\ istate[i] = "new"
    /\ istate' = [istate EXCEPT ![i] = "adding"]
    /\ icontext' = [icontext EXCEPT ![i] = pcontext[p]]
    /\ pitem' = [pitem EXCEPT ![p] = i]
    /\ pc' = [pc EXCEPT ![p] = "adding"]
    /\ UNCHANGED <<queueVars, shutdown, accepted, handled, contextVars,
                   pcontext, handlerVars, mpc>>

Acquire(p, i) ==
    /\ pc[p] = "parsing"
    /\ istate[i] = "new"
    /\ reference' = [reference EXCEPT ![pcontext[p]] = @ + 1]
    /\ istate' = [istate EXCEPT ![i] = "adding"]
    /\ icontext' = [icontext EXCEPT ![i] = pcontext[p]]
    /\ pitem' = [pitem EXCEPT ![p] = i]
    /\ pc' = [pc EXCEPT ![p] = "adding"]
    /\ UNCHANGED <<queueVars, shutdown, accepted, handled, cstate, pcontext,
                   handlerVars, mpc>>

\* pthread_cond_signal: the handler is the only thread that waits.
Signalled(h) == IF h = "waiting" THEN "loop" ELSE h

\* data_queue_add, with its item: the item goes from the producer to the queue.
HandOver(p) ==
    /\ pc[p] = "adding"
    /\ order' = Append(order, pitem[p])
    /\ accepted' = Append(accepted, pitem[p])
    /\ istate' = [istate EXCEPT ![pitem[p]] = "queued"]
    /\ pitem' = [pitem EXCEPT ![p] = NULL]
    /\ pc' = [pc EXCEPT ![p] = "parsing"]

\* data_queue_add under queue->lock: link the item at the bottom and wake the
\* handler if the queue was empty.  The slips never wake it, and do not link
\* the old bottom to the new item.
AddNoWake(p) ==
    /\ HandOver(p)
    /\ top' = IF top = NULL THEN pitem[p] ELSE top
    /\ next' = IF bottom # NULL THEN [next EXCEPT ![bottom] = pitem[p]] ELSE next
    /\ bottom' = pitem[p]
    /\ qstate' = "USED"
    /\ UNCHANGED <<shutdown, icontext, handled, contextVars, pcontext, handlerVars, mpc>>

AddUnlinked(p) ==
    /\ HandOver(p)
    /\ top' = IF top = NULL THEN pitem[p] ELSE top
    /\ bottom' = pitem[p]
    /\ qstate' = "USED"
    /\ hpc' = IF qstate = "EMPTY" THEN Signalled(hpc) ELSE hpc
    /\ UNCHANGED <<next, shutdown, icontext, handled, contextVars, pcontext, hitem, mpc>>

Add(p) ==
    /\ HandOver(p)
    /\ top' = IF top = NULL THEN pitem[p] ELSE top
    /\ next' = IF bottom # NULL THEN [next EXCEPT ![bottom] = pitem[p]] ELSE next
    /\ bottom' = pitem[p]
    /\ qstate' = "USED"
    /\ hpc' = IF qstate = "EMPTY" THEN Signalled(hpc) ELSE hpc
    /\ UNCHANGED <<shutdown, icontext, handled, contextVars, pcontext, hitem, mpc>>

\* data_context_release by the producer once the packet is parsed.  The count
\* is decremented under context->lock and the copy of it tested after.
Release(p) ==
    /\ pc[p] = "parsing"
    /\ reference' = [reference EXCEPT ![pcontext[p]] = @ - 1]
    /\ IF reference'[pcontext[p]] = 0
       THEN /\ pc' = [pc EXCEPT ![p] = "destroying"]
            /\ UNCHANGED pcontext
       ELSE /\ pc' = [pc EXCEPT ![p] = "idle"]
            /\ pcontext' = [pcontext EXCEPT ![p] = NULL]
    /\ UNCHANGED <<queueVars, shutdown, istate, icontext, accepted, handled,
                   cstate, pitem, handlerVars, mpc>>

\* data_context_destroy, called by the producer.
Destroy(p) ==
    /\ pc[p] = "destroying"
    /\ cstate' = [cstate EXCEPT ![pcontext[p]] = "freed"]
    /\ pc' = [pc EXCEPT ![p] = "idle"]
    /\ pcontext' = [pcontext EXCEPT ![p] = NULL]
    /\ UNCHANGED <<queueVars, shutdown, istate, icontext, accepted, handled,
                   reference, pitem, handlerVars, mpc>>

\* net_socket_fd_loop, or the ALSA listener that raveloxmidi_wait_for_alsa
\* joins, has returned.
Finish(p) ==
    /\ pc[p] = "idle"
    /\ pc' = [pc EXCEPT ![p] = "done"]
    /\ UNCHANGED <<queueVars, shutdown, istate, icontext, accepted, handled,
                   contextVars, pcontext, pitem, handlerVars, mpc>>

-----------------------------------------------------------------------------
\* The queue thread: data_queue_handler with midi_sender_handler as its action.

HandlerWait ==
    /\ hpc = "loop"
    /\ qstate = "EMPTY" /\ ~ shutdown
    /\ hpc' = "waiting"
    /\ UNCHANGED <<queueVars, shutdown, istate, icontext, accepted, handled,
                   contextVars, producerVars, hitem, mpc>>

\* pthread_cond_wait may return without a signal.
SpuriousWake ==
    /\ hpc = "waiting"
    /\ hpc' = "loop"
    /\ UNCHANGED <<queueVars, shutdown, istate, icontext, accepted, handled,
                   contextVars, producerVars, hitem, mpc>>

\* A shutdown is seen before the items that are still queued.
HandlerExit ==
    /\ hpc = "loop"
    /\ shutdown
    /\ hpc' = "stopped"
    /\ UNCHANGED <<queueVars, shutdown, istate, icontext, accepted, handled,
                   contextVars, producerVars, hitem, mpc>>

\* data_queue_get: unlink the top item.  The slip leaves bottom pointing at an
\* item that is about to be freed.
GetKeepBottom ==
    /\ hpc = "loop"
    /\ qstate # "EMPTY" /\ ~ shutdown
    /\ hitem' = top
    /\ top' = IF top # NULL THEN next[top] ELSE top
    /\ qstate' = IF top' # NULL THEN "USED" ELSE "EMPTY"
    /\ order' = IF order # <<>> THEN Tail(order) ELSE order
    /\ istate' = IF top # NULL THEN [istate EXCEPT ![top] = "taken"] ELSE istate
    /\ hpc' = IF top # NULL THEN "taken" ELSE "loop"
    /\ UNCHANGED <<bottom, next, shutdown, icontext, accepted, handled,
                   contextVars, producerVars, mpc>>

HandlerGet ==
    /\ hpc = "loop"
    /\ qstate # "EMPTY" /\ ~ shutdown
    /\ hitem' = top
    /\ top' = IF top # NULL THEN next[top] ELSE top
    /\ bottom' = IF top' = NULL THEN NULL ELSE bottom
    /\ qstate' = IF top' # NULL THEN "USED" ELSE "EMPTY"
    /\ order' = IF order # <<>> THEN Tail(order) ELSE order
    /\ istate' = IF top # NULL THEN [istate EXCEPT ![top] = "taken"] ELSE istate
    /\ hpc' = IF top # NULL THEN "taken" ELSE "loop"
    /\ UNCHANGED <<next, shutdown, icontext, accepted, handled, contextVars,
                   producerVars, mpc>>

\* midi_sender_handler copies the originator out of the context and releases it.
\* The slips keep the reference, and destroy the context whatever the count.
HandlerKeep ==
    /\ hpc = "taken"
    /\ istate' = [istate EXCEPT ![hitem] = "released"]
    /\ hpc' = "sending"
    /\ UNCHANGED <<queueVars, shutdown, icontext, accepted, handled, contextVars,
                   producerVars, hitem, mpc>>

HandlerReleaseEager ==
    /\ hpc = "taken"
    /\ reference' = [reference EXCEPT ![icontext[hitem]] = @ - 1]
    /\ istate' = [istate EXCEPT ![hitem] = "released"]
    /\ hpc' = "destroying"
    /\ UNCHANGED <<queueVars, shutdown, icontext, accepted, handled, cstate,
                   producerVars, hitem, mpc>>

HandlerRelease ==
    /\ hpc = "taken"
    /\ reference' = [reference EXCEPT ![icontext[hitem]] = @ - 1]
    /\ istate' = [istate EXCEPT ![hitem] = "released"]
    /\ hpc' = IF reference'[icontext[hitem]] = 0 THEN "destroying" ELSE "sending"
    /\ UNCHANGED <<queueVars, shutdown, icontext, accepted, handled, cstate,
                   producerVars, hitem, mpc>>

HandlerDestroy ==
    /\ hpc = "destroying"
    /\ cstate' = [cstate EXCEPT ![icontext[hitem]] = "freed"]
    /\ hpc' = "sending"
    /\ UNCHANGED <<queueVars, shutdown, istate, icontext, accepted, handled,
                   reference, producerVars, hitem, mpc>>

\* midi_sender_send_single, midi_command_destroy, and the end of the loop body,
\* which clears and frees the item.
HandlerSend ==
    /\ hpc = "sending"
    /\ handled' = Append(handled, hitem)
    /\ istate' = [istate EXCEPT ![hitem] = "sent"]
    /\ icontext' = [icontext EXCEPT ![hitem] = NULL]
    /\ next' = [next EXCEPT ![hitem] = NULL]
    /\ hitem' = NULL
    /\ hpc' = "loop"
    /\ UNCHANGED <<top, bottom, qstate, order, shutdown, accepted, contextVars,
                   producerVars, mpc>>

-----------------------------------------------------------------------------
\* The main thread, once every producer has returned: midi_sender_stop.

\* data_queue_stop.  The slip sets the flag and does not wake the handler.
StopNoWake ==
    /\ mpc = "running"
    /\ \A p \in Producer : pc[p] = "done"
    /\ shutdown' = TRUE
    /\ mpc' = "joining"
    /\ UNCHANGED <<queueVars, istate, icontext, accepted, handled, contextVars,
                   producerVars, handlerVars>>

Stop ==
    /\ mpc = "running"
    /\ \A p \in Producer : pc[p] = "done"
    /\ shutdown' = TRUE
    /\ hpc' = Signalled(hpc)
    /\ mpc' = "joining"
    /\ UNCHANGED <<queueVars, istate, icontext, accepted, handled, contextVars,
                   producerVars, hitem>>

\* data_queue_join and data_queue_destroy: the items still queued are freed, the
\* commands and contexts they point to are not.
JoinAndDestroy ==
    /\ mpc = "joining"
    /\ hpc = "stopped"
    /\ top' = NULL
    /\ bottom' = NULL
    /\ order' = <<>>
    /\ istate' = [i \in Command |-> IF istate[i] = "queued" THEN "dropped" ELSE istate[i]]
    /\ mpc' = "down"
    /\ UNCHANGED <<next, qstate, shutdown, icontext, accepted, handled, contextVars,
                   producerVars, handlerVars>>

\* The process goes on to tear down its other parts.
Terminated == mpc = "down" /\ UNCHANGED vars

-----------------------------------------------------------------------------
ProducerStep(p) ==
    \/ \E i \in Command : Acquire(p, i)
    \/ Add(p)
    \/ Release(p)
    \/ Destroy(p)
    \/ Finish(p)
    \/ \E c \in Context : OpenContext(p, c)

HandlerStep ==
    \/ HandlerWait
    \/ HandlerExit
    \/ HandlerGet
    \/ HandlerRelease
    \/ HandlerDestroy
    \/ HandlerSend

Next ==
    \/ \E p \in Producer : ProducerStep(p)
    \/ HandlerStep
    \/ SpuriousWake
    \/ Stop
    \/ JoinAndDestroy
    \/ Terminated

Spec == Init /\ [][Next]_vars

\* A thread that can run does run, and a packet is parsed to its end.  Nothing
\* makes a packet arrive, a spurious wake-up happen or the loops return.
Fairness ==
    /\ \A p \in Producer : WF_vars(Add(p) \/ Release(p) \/ Destroy(p))
    /\ WF_vars(HandlerStep)
    /\ WF_vars(Stop)
    /\ WF_vars(JoinAndDestroy)

FairSpec == Spec /\ Fairness

-----------------------------------------------------------------------------
\* In particular context->reference, an unsigned counter, never goes below 0.
TypeOK ==
    /\ {top, bottom, hitem} \subseteq Command \cup {NULL}
    /\ next \in [Command -> Command \cup {NULL}]
    /\ qstate \in {"EMPTY", "USED"}
    /\ shutdown \in BOOLEAN
    /\ istate \in [Command -> ItemState]
    /\ icontext \in [Command -> Context \cup {NULL}]
    /\ order \in Seq(Command)
    /\ accepted \in Seq(Command)
    /\ handled \in Seq(Command)
    /\ reference \in [Context -> Nat]
    /\ cstate \in [Context -> ContextState]
    /\ pc \in [Producer -> ProducerPC]
    /\ pcontext \in [Producer -> Context \cup {NULL}]
    /\ pitem \in [Producer -> Command \cup {NULL}]
    /\ hpc \in HandlerPC
    /\ mpc \in {"running", "joining", "down"}

\* The linked list is the queue: following next from top visits exactly the
\* items added and not yet taken, in order, and ends at bottom, however the
\* producers and the handler interleave.  The wake-up test on queue->state and
\* the write through bottom->next in data_queue_add depend on it.
ListShape ==
    /\ order = <<>> <=> top = NULL
    /\ order = <<>> <=> bottom = NULL
    /\ mpc # "down" => (qstate = "EMPTY" <=> top = NULL)
    /\ order # <<>> =>
          /\ top = order[1]
          /\ bottom = order[Len(order)]
          /\ next[bottom] = NULL
          /\ \A k \in 1..Len(order) - 1 : next[order[k]] = order[k + 1]

\* The command the handler has taken and not yet sent.
InHand == IF hpc \in {"taken", "destroying", "sending"} THEN <<hitem>> ELSE <<>>

\* Every command that was accepted is sent exactly once and in the order of
\* acceptance, or is in hand, or still queued: none is lost, doubled or
\* overtaken.  Items are only given up by data_queue_destroy, at the end.
InOrderExactlyOnce ==
    IF mpc # "down" THEN accepted = handled \o InHand \o order
                    ELSE handled = SubSeq(accepted, 1, Len(handled))

\* Who holds a reference to the context c: the producers that are parsing its
\* packet, and the commands that have acquired it and not been released.
Holders(c) ==
    {p \in Producer : pcontext[p] = c /\ pc[p] \in {"parsing", "adding"}} \cup
    {i \in Command : icontext[i] = c
                     /\ istate[i] \in {"adding", "queued", "taken", "dropped"}}

\* context->reference counts exactly the outstanding uses of the context.
ReferenceExact == \A c \in Context : reference[c] = Cardinality(Holders(c))

\* No thread reaches a context that has been freed, and only one frees it.
NoUseAfterFree ==
    /\ \A c \in Context : Holders(c) # {} => cstate[c] = "live"
    /\ \A p \in Producer : pc[p] = "destroying" => cstate[pcontext[p]] = "live"
    /\ hpc = "destroying" => cstate[icontext[hitem]] = "live"

\* Nothing is leaked but what a dropped item points to: at the end of
\* midi_sender_stop every other context that was allocated has been freed.
OnlyDroppedLeak ==
    mpc = "down" => \A c \in Context :
        cstate[c] = "live" => \E i \in Command : istate[i] = "dropped" /\ icontext[i] = c

\* No wake-up is lost: a queued command is sent unless the queue is stopped.
EveryCommandSent == \A i \in Command : istate[i] = "queued" ~> (istate[i] = "sent" \/ shutdown)

\* midi_sender_stop returns: the handler is woken and joined.
StopReturns == (mpc = "joining") ~> (mpc = "down")
=============================================================================
