------------------------------ MODULE Shutdown ------------------------------
(***************************************************************************)
(* How raveloxmidi ends: the main loop and the shutdown signal             *)
(* (net_socket.c), the ALSA listener (raveloxmidi_alsa.c), the wait of the *)
(* sync thread (remote_connection.c) and the order in which main takes     *)
(* things down (raveloxmidi.c).                                            *)
(*                                                                         *)
(* QUIT and signals set a flag and write to a pipe that all three threads  *)
(* poll.  Both the main loop and the listener poll and read the input      *)
(* device; its socket has a lock, and so has the listener's poll table.    *)
(* The queue thread, which ends by its own queue, is in DataQueue; here it *)
(* is only a thread that a signal may interrupt.  Locks under which no     *)
(* other lock is taken and nothing is waited for are left out, the one of  *)
(* the log among them.  poll, select and what they report are the          *)
(* kernel's.                                                               *)
(***************************************************************************)
EXTENDS Naturals, FiniteSets

CONSTANTS Interrupted,   \* the threads that a signal may be delivered to
          MaxSignals     \* bound: the signals received

Thread == {"main", "listener", "sync"}
Lock   == {"poll_descriptors", "socket", "shutdown"}
Fd     == {"pipe", "local", "device", "again"}   \* again: the pipe, a second time

ASSUME InterruptedAssumption == Interrupted \subseteq Thread \cup {"queue"}
ASSUME BoundAssumption == MaxSignals \in Nat

VARIABLES
    input,       \* an ALSA input is open, and a listener is started for it
    device,      \* what there is to read from it
    asked,       \* QUIT is waiting at the local socket
    flag,        \* net_socket_shutdown
    pipe,        \* bytes in the shutdown pipe
    closed,      \* both of its ends are closed
    holder,      \* who holds each lock
    destroyed,   \* the locks destroyed
    misused,     \* history: the locks taken after they were destroyed
    polled,      \* the descriptors in poll_descriptors
    revents,     \* those of them that the last poll found readable
    twice,       \* main's table names the pipe a second time, at its end
    todo,        \* the descriptors a loop has yet to look at
    pc,          \* where each thread is
    hpc, hon,    \* where the signal handler is, and the thread it interrupts
    signals      \* how many signals were received

kernel == <<device, asked, pipe, closed>>
locks  == <<holder, destroyed, misused>>
table  == <<polled, revents, twice>>
signal == <<hpc, hon, signals>>
vars   == <<input, device, asked, flag, pipe, closed, holder, destroyed, misused,
            polled, revents, twice, todo, pc, hpc, hon, signals>>

\* raveloxmidi_alsa_init: the descriptors of an input that could be opened.
InputFds(open) == IF open THEN {"device"} ELSE {}

\* main before its loop, after net_socket_loop_init.  The sync thread is there if a
\* remote connection has been established.
Init ==
    /\ input \in BOOLEAN
    /\ device = "quiet"
    /\ asked = FALSE
    /\ flag = FALSE
    /\ pipe = 0
    /\ closed = FALSE
    /\ holder = [l \in Lock |-> "nobody"]
    /\ destroyed = {}
    /\ misused = {}
    /\ polled = InputFds(input)
    /\ revents = {}
    /\ twice = FALSE
    /\ todo = [t \in {"main", "listener"} |-> {}]
    /\ pc \in [Thread -> {"status", "off", "wait"}]
    /\ pc["main"] = "status" /\ pc["listener"] = "off" /\ pc["sync"] \in {"off", "wait"}
    /\ hpc = "off"
    /\ hon = "queue"
    /\ signals = 0

-----------------------------------------------------------------------------
\* A thread does not run while the handler runs on it.
At(t, place) == pc[t] = place /\ ~ (hpc # "off" /\ hon = t)

Goto(t, place) == pc' = [pc EXCEPT ![t] = place]

\* pthread_mutex_lock.  Of a destroyed lock it fails, which nobody looks at.
Acquire(t, l) ==
    \/ /\ l \notin destroyed
       /\ holder[l] = "nobody"
       /\ holder' = [holder EXCEPT ![l] = t]
       /\ UNCHANGED <<destroyed, misused>>
    \/ /\ l \in destroyed
       /\ misused' = misused \cup {l}
       /\ UNCHANGED <<holder, destroyed>>

Release(t, l) ==
    /\ holder' = [holder EXCEPT ![l] = IF @ = t THEN "nobody" ELSE @]
    /\ UNCHANGED <<destroyed, misused>>

\* A section of a lock in which nothing is waited for.
Free(l) == holder[l] = "nobody" /\ l \notin destroyed

-----------------------------------------------------------------------------
\* net_socket_get_shutdown_status, and what each thread does with the answer.
StatusLock(t) ==
    /\ At(t, "status") \/ At(t, "last")
    /\ Acquire(t, "shutdown")
    /\ Goto(t, IF pc[t] = "last" THEN "lastread" ELSE "statusread")
    /\ UNCHANGED <<input, kernel, flag, table, todo, signal>>

StatusRead(t) ==
    /\ At(t, "statusread")
    /\ Release(t, "shutdown")
    /\ LET next == IF t = "main" THEN IF flag THEN "join" ELSE "setfds"
                   ELSE IF t = "listener" THEN IF flag THEN "ended" ELSE "poll"
                   ELSE IF flag THEN "last" ELSE "wait"
       IN  \* raveloxmidi_alsa_loop comes before the first poll of main
           pc' = IF t = "main" /\ next = "setfds" /\ input /\ pc["listener"] = "off"
                 THEN [pc EXCEPT !["main"] = next, !["listener"] = "start"]
                 ELSE [pc EXCEPT ![t] = next]
    /\ UNCHANGED <<input, kernel, flag, table, todo, signal>>

\* The sync thread asks again after its loop, to log the answer.
LastRead ==
    /\ At("sync", "lastread")
    /\ Release("sync", "shutdown")
    /\ Goto("sync", "ended")
    /\ UNCHANGED <<input, kernel, flag, table, todo, signal>>

-----------------------------------------------------------------------------
\* net_socket_read of the device, by main or the listener.

\* The descriptors are looked at in the order of the tables.
Before(f) == CASE f = "pipe" -> {}
               [] f = "local" -> {"pipe"}
               [] f = "device" -> {"pipe", "local"}
               [] f = "again" -> {"pipe", "local", "device"}
Turn(t, f) == f \in todo[t] /\ Before(f) \cap todo[t] = {}

ReadLock(t) ==
    /\ At(t, "handle") /\ Turn(t, "device")
    /\ Acquire(t, "socket")
    /\ todo' = [todo EXCEPT ![t] = @ \ {"device"}]
    /\ Goto(t, "reading")
    /\ UNCHANGED <<input, kernel, flag, table, signal>>

\* There is something to read, or there is not any more.  The slip returns
\* without unlocking when nothing was read.
ReadHeld(t) ==
    /\ At(t, "reading")
    /\ device # "gone"
    /\ device' = "quiet"
    /\ IF device = "data" THEN Release(t, "socket") ELSE UNCHANGED locks
    /\ Goto(t, "handle")
    /\ UNCHANGED <<input, asked, pipe, closed, flag, table, todo, signal>>

Read(t) ==
    /\ At(t, "reading")
    /\ device # "gone"
    /\ device' = "quiet"
    /\ Release(t, "socket")
    /\ Goto(t, "handle")
    /\ UNCHANGED <<input, asked, pipe, closed, flag, table, todo, signal>>

\* ENODEV: raveloxmidi_alsa_disable_poll_fd takes the lock of the poll table.
ReadFails(t) ==
    /\ At(t, "reading")
    /\ device = "gone"
    /\ Acquire(t, "poll_descriptors")
    /\ Goto(t, "disabling")
    /\ UNCHANGED <<input, kernel, flag, table, todo, signal>>

Disable(t) ==
    /\ At(t, "disabling")
    /\ polled' = polled \ {"device"}
    /\ revents' = revents \ {"device"}
    /\ holder' = [l \in Lock |-> IF holder[l] = t THEN "nobody" ELSE holder[l]]
    /\ Goto(t, "handle")
    /\ UNCHANGED <<input, kernel, flag, destroyed, misused, twice, todo, signal>>

-----------------------------------------------------------------------------
\* net_socket_fd_loop.

\* net_socket_set_fds, before every poll: the pipe, and every socket, to which the listener
\* has added the pipe as its last.
SetFds ==
    /\ At("main", "setfds")
    /\ twice' = (pc["listener"] \notin {"off", "start"})
    /\ Goto("main", "poll")
    /\ UNCHANGED <<input, kernel, flag, locks, polled, revents, todo, signal>>

PipeReady == pipe > 0 \/ closed

MainReadable ==
    (IF asked THEN {"local"} ELSE {})
    \cup (IF PipeReady THEN IF twice THEN {"pipe", "again"} ELSE {"pipe"} ELSE {})
    \cup (IF input /\ device = "data" THEN {"device"} ELSE {})

MainReady == MainReadable # {} \/ (input /\ device = "gone")

MainPolls ==
    /\ At("main", "poll")
    /\ MainReady
    /\ todo' = [todo EXCEPT !["main"] = MainReadable]
    /\ Goto("main", "handle")
    /\ UNCHANGED <<input, kernel, flag, locks, table, signal>>

\* A timeout, or EINTR: only when there is nothing to report.
MainWakes ==
    /\ At("main", "poll")
    /\ ~ MainReady
    /\ Goto("main", "status")
    /\ UNCHANGED <<input, kernel, flag, locks, table, todo, signal>>

\* net_socket_drain_shutdown_signal, once for each of the pipe's entries that the poll found
\* ready, whatever is in the pipe by then.  It reads nothing from a closed pipe.
Drain ==
    /\ At("main", "handle")
    /\ \E f \in {"pipe", "again"} :
          /\ Turn("main", f)
          /\ todo' = [todo EXCEPT !["main"] = @ \ {f}]
    /\ pipe' = IF closed THEN pipe ELSE 0
    /\ UNCHANGED <<input, device, asked, closed, flag, locks, table, pc, signal>>

\* QUIT, or any other packet to the local socket, has been read.
QuitLock ==
    /\ At("main", "handle") /\ Turn("main", "local")
    /\ Acquire("main", "shutdown")
    /\ asked' = FALSE
    /\ todo' = [todo EXCEPT !["main"] = @ \ {"local"}]
    /\ Goto("main", "quitting")
    /\ UNCHANGED <<input, device, pipe, closed, flag, table, signal>>

QuitSet ==
    /\ At("main", "quitting")
    /\ flag' = TRUE
    /\ Release("main", "shutdown")
    /\ Goto("main", "quitwrite")
    /\ UNCHANGED <<input, kernel, table, todo, signal>>

\* The slip leaves the others asleep.
QuitWriteNot ==
    /\ At("main", "quitwrite")
    /\ Goto("main", "handle")
    /\ UNCHANGED <<input, kernel, flag, locks, table, todo, signal>>

QuitWrite ==
    /\ At("main", "quitwrite")
    /\ pipe' = IF closed THEN pipe ELSE pipe + 1
    /\ Goto("main", "handle")
    /\ UNCHANGED <<input, device, asked, closed, flag, locks, table, todo, signal>>

MainHandled ==
    /\ At("main", "handle")
    /\ todo["main"] = {}
    /\ Goto("main", "status")
    /\ UNCHANGED <<input, kernel, flag, locks, table, todo, signal>>

-----------------------------------------------------------------------------
\* raveloxmidi_alsa_listener.

\* The pipe goes into its own table and among the sockets that main polls.
ListenerStarts ==
    /\ At("listener", "start")
    /\ Free("poll_descriptors")
    /\ polled' = polled \cup {"pipe"}
    /\ Goto("listener", "poll")
    /\ UNCHANGED <<input, kernel, flag, locks, revents, twice, todo, signal>>

\* raveloxmidi_alsa_poll holds the lock of the table while it sleeps.
ListenerLocks ==
    /\ At("listener", "poll")
    /\ Acquire("listener", "poll_descriptors")
    /\ Goto("listener", "polling")
    /\ UNCHANGED <<input, kernel, flag, table, todo, signal>>

ListenerReady == ("device" \in polled /\ device # "quiet") \/ ("pipe" \in polled /\ PipeReady)

ListenerPolls ==
    /\ At("listener", "polling")
    /\ ListenerReady
    /\ revents' = polled \cap ((IF device = "data" THEN {"device"} ELSE {})
                               \cup (IF pipe > 0 /\ ~ closed THEN {"pipe"} ELSE {}))
    /\ Release("listener", "poll_descriptors")
    /\ Goto("listener", "classify")
    /\ UNCHANGED <<input, kernel, flag, polled, twice, todo, signal>>

ListenerWakes ==
    /\ At("listener", "polling")
    /\ ~ ListenerReady
    /\ revents' = {}
    /\ Release("listener", "poll_descriptors")
    /\ Goto("listener", "classify")
    /\ UNCHANGED <<input, kernel, flag, polled, twice, todo, signal>>

\* The lock is taken again, by raveloxmidi_alsa_poll to look at revents and, after a
\* timeout too, by its caller to log the table: one section here, as the listener does
\* nothing between the two.  The device comes before the pipe in the table: 1, or 2, or 0.
Classify ==
    /\ At("listener", "classify")
    /\ Free("poll_descriptors")
    /\ Goto("listener", IF "device" \in revents THEN "serve" ELSE "status")
    /\ UNCHANGED <<input, kernel, flag, locks, table, todo, signal>>

\* The lock is held until every descriptor has been read.
Serve ==
    /\ At("listener", "serve")
    /\ Acquire("listener", "poll_descriptors")
    /\ todo' = [todo EXCEPT !["listener"] = revents \cap {"device"}]
    /\ Goto("listener", "handle")
    /\ UNCHANGED <<input, kernel, flag, table, signal>>

\* The slip keeps the lock.
ServedHeld ==
    /\ At("listener", "handle")
    /\ todo["listener"] = {}
    /\ Goto("listener", "status")
    /\ UNCHANGED <<input, kernel, flag, locks, table, todo, signal>>

Served ==
    /\ At("listener", "handle")
    /\ todo["listener"] = {}
    /\ Release("listener", "poll_descriptors")
    /\ Goto("listener", "status")
    /\ UNCHANGED <<input, kernel, flag, table, todo, signal>>

-----------------------------------------------------------------------------
\* The wait of remote_connect_sync_thread.

SyncSelects ==
    /\ At("sync", "wait")
    /\ PipeReady
    /\ Goto("sync", "status")
    /\ UNCHANGED <<input, kernel, flag, locks, table, todo, signal>>

SyncWakes ==
    /\ At("sync", "wait")
    /\ ~ PipeReady
    /\ Goto("sync", "status")
    /\ UNCHANGED <<input, kernel, flag, locks, table, todo, signal>>

-----------------------------------------------------------------------------
\* main after its loop.

\* raveloxmidi_wait_for_alsa, and raveloxmidi_alsa_teardown: the table is freed and
\* its lock destroyed.  The slip does not wait.
JoinAlsaNot ==
    /\ At("main", "join")
    /\ input => pc["listener"] # "off"
    /\ destroyed' = destroyed \cup {"poll_descriptors"}
    /\ polled' = {}
    /\ Goto("main", "teardown")
    /\ UNCHANGED <<input, kernel, flag, holder, misused, revents, twice, todo, signal>>

JoinAlsa ==
    /\ At("main", "join")
    /\ input => pc["listener"] = "ended"
    /\ Free("poll_descriptors")
    /\ destroyed' = destroyed \cup {"poll_descriptors"}
    /\ polled' = {}
    /\ Goto("main", "teardown")
    /\ UNCHANGED <<input, kernel, flag, holder, misused, revents, twice, todo, signal>>

\* Told to end before it started the listener, main joins no thread at all.
JoinNoListener ==
    /\ At("main", "join")
    /\ input /\ pc["listener"] = "off"
    /\ Goto("main", "crashed")
    /\ UNCHANGED <<input, kernel, flag, locks, table, todo, signal>>

\* net_socket_loop_teardown: pthread_mutex_destroy fails while the lock is held.
LoopTeardown ==
    /\ At("main", "teardown")
    /\ destroyed' = IF Free("shutdown") THEN destroyed \cup {"shutdown"} ELSE destroyed
    /\ Goto("main", "joinsync")
    /\ UNCHANGED <<input, kernel, flag, holder, misused, table, todo, signal>>

\* remote_connect_teardown; after it, the process ends.
JoinSync ==
    /\ At("main", "joinsync")
    /\ pc["sync"] \in {"off", "ended"}
    /\ Goto("main", "ended")
    /\ UNCHANGED <<input, kernel, flag, locks, table, todo, signal>>

-----------------------------------------------------------------------------
\* net_socket_loop_shutdown, the signal handler.

Signal(t) ==
    /\ hpc = "off"
    /\ signals < MaxSignals
    /\ t \in Interrupted
    /\ t \in Thread => pc[t] \notin {"off", "ended", "crashed"}
    /\ pc["main"] \notin {"ended", "crashed"}
    /\ hpc' = "lock" /\ hon' = t
    /\ signals' = signals + 1
    /\ UNCHANGED <<input, kernel, flag, locks, table, todo, pc>>

HandlerLock ==
    /\ hpc = "lock"
    /\ Acquire("handler", "shutdown")
    /\ hpc' = "set"
    /\ UNCHANGED <<input, kernel, flag, table, todo, pc, hon, signals>>

HandlerSet ==
    /\ hpc = "set"
    /\ flag' = TRUE
    /\ Release("handler", "shutdown")
    /\ hpc' = "write"
    /\ UNCHANGED <<input, kernel, table, todo, pc, hon, signals>>

HandlerWrite ==
    /\ hpc = "write"
    /\ pipe' = IF closed THEN pipe ELSE pipe + 1
    /\ hpc' = "close"
    /\ UNCHANGED <<input, device, asked, closed, flag, locks, table, todo, pc, hon, signals>>

\* Whoever sleeps on a pipe whose writing end is closed is woken.  The slip
\* leaves the pipe open.
HandlerCloseNot ==
    /\ hpc = "close"
    /\ hpc' = "off"
    /\ UNCHANGED <<input, kernel, flag, locks, table, todo, pc, hon, signals>>

HandlerClose ==
    /\ hpc = "close"
    /\ closed' = TRUE
    /\ hpc' = "off"
    /\ UNCHANGED <<input, device, asked, pipe, flag, locks, table, todo, pc, hon, signals>>

-----------------------------------------------------------------------------
\* Outside.

QuitArrives ==
    /\ ~ asked /\ ~ flag
    /\ asked' = TRUE
    /\ UNCHANGED <<input, device, pipe, closed, flag, locks, table, todo, pc, signal>>

DeviceSends ==
    /\ input /\ device = "quiet"
    /\ device' = "data"
    /\ UNCHANGED <<input, asked, pipe, closed, flag, locks, table, todo, pc, signal>>

DeviceGoes ==
    /\ input /\ device # "gone"
    /\ device' = "gone"
    /\ UNCHANGED <<input, asked, pipe, closed, flag, locks, table, todo, pc, signal>>

-----------------------------------------------------------------------------
Reader(t) == ReadLock(t) \/ Read(t) \/ ReadFails(t) \/ Disable(t)

Main ==
    \/ StatusLock("main") \/ StatusRead("main")
    \/ SetFds \/ MainPolls \/ Drain \/ QuitLock \/ QuitSet \/ QuitWrite \/ MainHandled
    \/ JoinAlsa \/ JoinNoListener \/ LoopTeardown \/ JoinSync

Listener ==
    \/ StatusLock("listener") \/ StatusRead("listener")
    \/ ListenerStarts \/ ListenerLocks \/ ListenerPolls \/ Classify \/ Serve \/ Served

Sync == StatusLock("sync") \/ StatusRead("sync") \/ LastRead \/ SyncSelects

Handler == HandlerLock \/ HandlerSet \/ HandlerWrite \/ HandlerClose

Outside ==
    \/ MainWakes \/ ListenerWakes \/ SyncWakes
    \/ QuitArrives \/ DeviceSends \/ DeviceGoes
    \/ \E t \in Interrupted : Signal(t)

Next ==
    \/ Main \/ Listener \/ Sync \/ Handler \/ Outside
    \/ \E t \in {"main", "listener"} : Reader(t)

Spec == Init /\ [][Next]_vars

\* Every thread runs when it can, and a thread that waits for a lock that is released
\* again and again gets it.  Nothing is assumed of timeouts.
FairSpec ==
    /\ Spec
    /\ SF_vars(Main \/ Reader("main"))
    /\ SF_vars(Listener \/ Reader("listener"))
    /\ SF_vars(Sync)
    /\ SF_vars(Handler)

-----------------------------------------------------------------------------
Holding(t) == {l \in Lock : holder[l] = t}

TypeOK ==
    /\ input \in BOOLEAN /\ asked \in BOOLEAN /\ flag \in BOOLEAN /\ closed \in BOOLEAN
    /\ device \in {"quiet", "data", "gone"}
    /\ pipe \in 0..MaxSignals + 1
    /\ holder \in [Lock -> Thread \cup {"handler", "nobody"}]
    /\ destroyed \subseteq Lock /\ misused \subseteq destroyed
    /\ polled \subseteq {"device", "pipe"} /\ revents \subseteq {"device", "pipe"}
    /\ twice \in BOOLEAN
    /\ todo \in [{"main", "listener"} -> SUBSET Fd]
    /\ DOMAIN pc = Thread
    /\ hpc \in {"off", "lock", "set", "write", "close"} /\ hon \in Thread \cup {"queue"}
    /\ signals \in 0..MaxSignals
    \* a thread that looks at its next descriptor, sleeps or has ended holds no lock,
    \* but the listener, in its poll and while it serves, that of the table
    /\ \A t \in Thread : pc[t] \in {"status", "poll", "polling", "handle", "wait", "ended"} =>
           Holding(t) = IF t = "listener" /\ pc[t] \in {"polling", "handle"}
                        THEN {"poll_descriptors"} ELSE {}

\* The listener is to read a device that is gone, under the lock of its table.
ServesUnplugged ==
    /\ device = "gone"
    /\ holder["poll_descriptors"] = "listener"
    /\ pc["listener"] = "reading" \/ (pc["listener"] = "handle" /\ "device" \in todo["listener"])

\* README: QUIT "will shut down raveloxmidi".  So does a signal, and
\* nobody is left to wait for the end of a timeout.
QuitShutsDown == asked \/ flag ~> pc["main"] \in {"ended", "crashed"}

\* The same, unless the device is unplugged between the listener's poll and its read:
\* QUIT, at any moment, and the signal end the program also when main notices that the
\* device is gone.
ShutsDownUnlessStuck == asked \/ flag ~> pc["main"] \in {"ended", "crashed"} \/ ServesUnplugged

\* Once the flag is set and written, whoever sleeps has something to wake it: main does
\* not empty the pipe before the others have seen it, unless it is closed or about
\* to be.
NobodySleepsOn ==
    flag /\ pc["main"] # "quitwrite" /\ hpc \notin {"write", "close"} =>
        \A t \in Thread : pc[t] \in {"poll", "polling", "wait"} =>
            PipeReady

\* What t waits for.
Wanted(t) ==
    IF t = "handler" THEN IF hpc = "lock" THEN {"shutdown"} ELSE {}
    ELSE CASE pc[t] \in {"status", "last"} -> {"shutdown"}
           [] pc[t] = "handle" /\ Turn(t, "device") -> {"socket"}
           [] pc[t] = "handle" /\ Turn(t, "local") -> {"shutdown"}
           [] pc[t] = "reading" /\ device = "gone" -> {"poll_descriptors"}
           [] pc[t] \in {"start", "serve", "classify"} -> {"poll_descriptors"}
           [] pc[t] = "poll" /\ t = "listener" -> {"poll_descriptors"}
           [] OTHER -> {}

Joined(t) ==
    IF t = "main" /\ pc[t] = "join" THEN {"listener"}
    ELSE IF t = "main" /\ pc[t] = "joinsync" THEN {"sync"} ELSE {}

\* The thread whose next step t needs: the one it joins, the holder of the lock it waits
\* for, or the handler that interrupted it.
WaitsFor(t) ==
    IF t \in Thread /\ hpc # "off" /\ hon = t THEN {"handler"}
    ELSE Joined(t) \cup ({holder[l] : l \in Wanted(t)} \ {"nobody"})

\* No thread waits for itself, by way of none, one or two others, unless the device
\* is unplugged under the listener's hands.
NoCircularWait ==
    ServesUnplugged \/ \A t \in Thread :
        /\ t \notin WaitsFor(t)
        /\ \A u \in WaitsFor(t) : t \notin WaitsFor(u)
        /\ \A u \in WaitsFor(t) : \A v \in WaitsFor(u) : t \notin WaitsFor(v)

\* poll_descriptors and its lock are not used once raveloxmidi_alsa_teardown has
\* freed them.  (The lock of the flag is: main destroys it before it joins the sync
\* thread.)
PollTableLive ==
    /\ misused \subseteq {"shutdown"}
    /\ "poll_descriptors" \in destroyed => pc["listener"] \in {"off", "ended"}
=============================================================================
