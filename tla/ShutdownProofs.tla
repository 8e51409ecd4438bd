---------------------------- MODULE ShutdownProofs --------------------------
(***************************************************************************)
(* How raveloxmidi ends, for any number of signals, delivered to any of    *)
(* its threads at any moment: every thread holds the locks its place in    *)
(* the code says, the poll table is not used after it was freed, and       *)
(* nobody sleeps on once the shutdown flag is set and written.             *)
(***************************************************************************)
EXTENDS Shutdown, TLAPS

-----------------------------------------------------------------------------
\* Where a thread can be.
MainPlace     == {"status", "statusread", "setfds", "poll", "handle", "reading", "disabling", "quitting",
                  "quitwrite", "join", "teardown", "joinsync", "ended", "crashed"}
ListenerPlace == {"off", "start", "poll", "polling", "classify", "serve", "handle", "reading",
                  "status", "statusread", "ended"}
SyncPlace     == {"off", "wait", "status", "statusread", "last", "lastread", "ended"}

\* Descriptors are left over only while they are being handled, in their order.
Places ==
    /\ pc \in [Thread -> MainPlace \cup ListenerPlace \cup SyncPlace]
    /\ pc["main"] \in MainPlace /\ pc["listener"] \in ListenerPlace /\ pc["sync"] \in SyncPlace
    /\ ~input => pc["listener"] = "off"
    /\ todo["main"] # {} =>
            pc["main"] \in {"handle", "reading", "disabling", "quitting", "quitwrite"}
    /\ pc["main"] \in {"quitting", "quitwrite"} => todo["main"] \subseteq {"device", "again"}
    /\ todo["listener"] \subseteq {"device"}
    /\ polled \subseteq {"device", "pipe"}

\* A lock is destroyed only when those who take it have ended, or at least main is past
\* its loop.
Gone ==
    /\ destroyed \subseteq {"poll_descriptors", "shutdown"} /\ misused \subseteq {"shutdown"} \cap destroyed
    /\ "poll_descriptors" \in destroyed => /\ pc["main"] \in {"teardown", "joinsync", "ended"}
                                           /\ pc["listener"] \in {"off", "ended"}
    /\ "shutdown" \in destroyed => pc["main"] \in {"joinsync", "ended"}

\* Who holds a lock is where it is held.  The listener never gets to disable a device: it
\* would wait for itself.
Held ==
    /\ holder \in [Lock -> Thread \cup {"handler", "nobody"}]
    /\ holder["socket"] \in {"main", "listener", "nobody"}
    /\ holder["socket"] = "main" <=> pc["main"] \in {"reading", "disabling"}
    /\ holder["socket"] = "listener" <=> pc["listener"] = "reading"
    /\ holder["poll_descriptors"] \in {"main", "listener", "nobody"}
    /\ holder["poll_descriptors"] = "main" <=> pc["main"] = "disabling"
    /\ holder["poll_descriptors"] = "listener" <=> pc["listener"] \in {"polling", "handle", "reading"}
    /\ holder["shutdown"] = "main" => pc["main"] \in {"statusread", "quitting"}
    /\ holder["shutdown"] = "listener" => pc["listener"] = "statusread"
    /\ holder["shutdown"] = "sync" => pc["sync"] \in {"statusread", "lastread"}
    /\ holder["shutdown"] = "handler" => hpc = "set"

\* A signal writes one byte to the pipe, and QUIT one in all: main does not poll again
\* once the flag is set.
MayQuit == ~flag \/ pc["main"] \in {"setfds", "poll", "quitting", "quitwrite"} \/ "local" \in todo["main"]
Written == signals - (IF hpc \in {"lock", "set", "write"} THEN 1 ELSE 0)
Counted ==
    /\ signals \in 0..MaxSignals /\ pipe \in Nat /\ Written \in Nat
    /\ pipe <= Written + 1
    /\ MayQuit => pipe <= Written
    /\ pc["main"] = "quitwrite" => flag

\* What is in the pipe is there for good: the handler is about to close it, or main wrote
\* it itself and does not come back to its poll.
Filled == pipe > 0 => \/ closed \/ hpc = "close"
                      \/ flag /\ pc["main"] \notin {"setfds", "poll"}

\* So main drains the pipe, by either of its entries, only for the handler.
Drained == todo["main"] \cap {"pipe", "again"} # {} => closed \/ hpc = "close"

\* The flag is set by the handler, which then writes and closes the pipe, or by main,
\* which then writes and does not drain the pipe any more.
Woken ==
    flag => \/ closed
            \/ hpc \in {"write", "close"}
            \/ pc["main"] = "quitwrite"
            \/ pipe > 0 /\ pc["main"] \notin {"setfds", "poll"}

\* The rest of TypeOK.
Ranges ==
    /\ input \in BOOLEAN /\ asked \in BOOLEAN /\ flag \in BOOLEAN /\ closed \in BOOLEAN
    /\ device \in {"quiet", "data", "gone"}
    /\ revents \subseteq {"device", "pipe"} /\ twice \in BOOLEAN
    /\ todo \in [{"main", "listener"} -> SUBSET Fd]
    /\ hpc \in {"off", "lock", "set", "write", "close"} /\ hon \in Thread \cup {"queue"}

\* The inductive invariant.
ShutdownInv == Ranges /\ Places /\ Gone /\ Held /\ Counted /\ Filled /\ Drained /\ Woken

\* What main finds before its loop.
LEMMA InitShutdown == Init => ShutdownInv
<1> SUFFICES ASSUME Init PROVE ShutdownInv
  OBVIOUS
<1>1. Ranges /\ Places
  BY DEF Init, Ranges, Places, InputFds, Thread, Fd, MainPlace, ListenerPlace, SyncPlace
<1>2. Gone /\ Held
  BY DEF Init, Gone, Held, Lock, Thread
<1>3. Counted /\ Filled /\ Drained /\ Woken
  BY BoundAssumption DEF Init, Counted, Filled, Drained, Written, MayQuit, Woken
<1>4. QED
  BY <1>1, <1>2, <1>3 DEF ShutdownInv

\* Every thread goes from place to place.
LEMMA StepRanges == ASSUME ShutdownInv, [Next]_vars PROVE Ranges'
<1> USE DEF kernel, locks, table, signal
<1>1. Ranges /\ Places
  BY DEF ShutdownInv
<1>2. /\ UNCHANGED input
      /\ Ranges => /\ asked' \in BOOLEAN /\ flag' \in BOOLEAN
                   /\ closed' \in BOOLEAN /\ twice' \in BOOLEAN
  BY DEF Next, Main, Listener, Sync, Handler, Outside, Reader, vars, Ranges,
         StatusLock, StatusRead, SetFds, MainPolls, Drain, QuitLock, QuitSet, QuitWrite, MainHandled,
         JoinAlsa, JoinNoListener, LoopTeardown, JoinSync, ListenerStarts, ListenerLocks, ListenerPolls,
         Classify, Serve, Served, LastRead, SyncSelects, HandlerLock, HandlerSet, HandlerWrite,
         HandlerClose, MainWakes, ListenerWakes, SyncWakes, QuitArrives, DeviceSends, DeviceGoes, Signal,
         ReadLock, Read, ReadFails, Disable
<1>3. device' \in {"quiet", "data", "gone"} /\ revents' \subseteq {"device", "pipe"}
  BY <1>1
     DEF Next, Main, Listener, Sync, Handler, Outside, Reader, vars, Ranges, Places,
         StatusLock, StatusRead, SetFds, MainPolls, Drain, QuitLock, QuitSet, QuitWrite, MainHandled,
         JoinAlsa, JoinNoListener, LoopTeardown, JoinSync, ListenerStarts, ListenerLocks, ListenerPolls,
         Classify, Serve, Served, LastRead, SyncSelects, HandlerLock, HandlerSet, HandlerWrite,
         HandlerClose, MainWakes, ListenerWakes, SyncWakes, QuitArrives, DeviceSends, DeviceGoes, Signal,
         ReadLock, Read, ReadFails, Disable
<1>4. todo' \in [{"main", "listener"} -> SUBSET Fd]
  BY <1>1
     DEF Next, Main, Listener, Sync, Handler, Outside, Reader, vars, Ranges, Fd, MainReadable,
         StatusLock, StatusRead, SetFds, MainPolls, Drain, QuitLock, QuitSet, QuitWrite, MainHandled,
         JoinAlsa, JoinNoListener, LoopTeardown, JoinSync, ListenerStarts, ListenerLocks, ListenerPolls,
         Classify, Serve, Served, LastRead, SyncSelects, HandlerLock, HandlerSet, HandlerWrite,
         HandlerClose, MainWakes, ListenerWakes, SyncWakes, QuitArrives, DeviceSends, DeviceGoes, Signal,
         ReadLock, Read, ReadFails, Disable
<1>5. hpc' \in {"off", "lock", "set", "write", "close"} /\ hon' \in Thread \cup {"queue"}
  BY <1>1, InterruptedAssumption
     DEF Next, Main, Listener, Sync, Handler, Outside, Reader, vars, Ranges,
         StatusLock, StatusRead, SetFds, MainPolls, Drain, QuitLock, QuitSet, QuitWrite, MainHandled,
         JoinAlsa, JoinNoListener, LoopTeardown, JoinSync, ListenerStarts, ListenerLocks, ListenerPolls,
         Classify, Serve, Served, LastRead, SyncSelects, HandlerLock, HandlerSet, HandlerWrite,
         HandlerClose, MainWakes, ListenerWakes, SyncWakes, QuitArrives, DeviceSends, DeviceGoes, Signal,
         ReadLock, Read, ReadFails, Disable
<1>6. QED
  BY <1>1, <1>2, <1>3, <1>4, <1>5 DEF Ranges


\* A thread goes from place to place of its own code, and has descriptors left only while
\* it handles them.
LEMMA StepPlaces == ASSUME ShutdownInv, [Next]_vars PROVE Places'
<1> USE DEF kernel, locks, table, signal
<1>1. Ranges /\ Places /\ Gone /\ Held
  BY DEF ShutdownInv
<1>2. pc' \in [Thread -> MainPlace \cup ListenerPlace \cup SyncPlace]
  BY <1>1
     DEF Next, Main, Listener, Sync, Handler, Outside, Reader, vars,
         StatusLock, StatusRead, SetFds, MainPolls, Drain, QuitLock, QuitSet, QuitWrite, MainHandled,
         JoinAlsa, JoinNoListener, LoopTeardown, JoinSync, ListenerStarts, ListenerLocks, ListenerPolls,
         Classify, Serve, Served, LastRead, SyncSelects, HandlerLock, HandlerSet, HandlerWrite,
         HandlerClose, MainWakes, ListenerWakes, SyncWakes, QuitArrives, DeviceSends, DeviceGoes, Signal,
         ReadLock, Read, ReadFails, Disable,
         Goto, Places, Thread, MainPlace, ListenerPlace, SyncPlace
<1>3. pc'["main"] \in MainPlace /\ pc'["listener"] \in ListenerPlace /\ pc'["sync"] \in SyncPlace
  BY <1>1
     DEF Next, Main, Listener, Sync, Handler, Outside, Reader, vars,
         StatusLock, StatusRead, SetFds, MainPolls, Drain, QuitLock, QuitSet, QuitWrite, MainHandled,
         JoinAlsa, JoinNoListener, LoopTeardown, JoinSync, ListenerStarts, ListenerLocks, ListenerPolls,
         Classify, Serve, Served, LastRead, SyncSelects, HandlerLock, HandlerSet, HandlerWrite,
         HandlerClose, MainWakes, ListenerWakes, SyncWakes, QuitArrives, DeviceSends, DeviceGoes, Signal,
         ReadLock, Read, ReadFails, Disable,
         Goto, At, Places, Thread, MainPlace, ListenerPlace, SyncPlace, Turn, Before, Acquire, Held, Gone
<1>4. ~input' => pc'["listener"] = "off"
  BY <1>1
     DEF Next, Main, Listener, Sync, Handler, Outside, Reader, vars,
         StatusLock, StatusRead, SetFds, MainPolls, Drain, QuitLock, QuitSet, QuitWrite, MainHandled,
         JoinAlsa, JoinNoListener, LoopTeardown, JoinSync, ListenerStarts, ListenerLocks, ListenerPolls,
         Classify, Serve, Served, LastRead, SyncSelects, HandlerLock, HandlerSet, HandlerWrite,
         HandlerClose, MainWakes, ListenerWakes, SyncWakes, QuitArrives, DeviceSends, DeviceGoes, Signal,
         ReadLock, Read, ReadFails, Disable,
         Goto, At, Places, Thread
<1>5. todo'["main"] # {} =>
            pc'["main"] \in {"handle", "reading", "disabling", "quitting", "quitwrite"}
  BY <1>1
     DEF Next, Main, Listener, Sync, Handler, Outside, Reader, vars,
         StatusLock, StatusRead, SetFds, MainPolls, Drain, QuitLock, QuitSet, QuitWrite, MainHandled,
         JoinAlsa, JoinNoListener, LoopTeardown, JoinSync, ListenerStarts, ListenerLocks, ListenerPolls,
         Classify, Serve, Served, LastRead, SyncSelects, HandlerLock, HandlerSet, HandlerWrite,
         HandlerClose, MainWakes, ListenerWakes, SyncWakes, QuitArrives, DeviceSends, DeviceGoes, Signal,
         ReadLock, Read, ReadFails, Disable,
         Goto, At, Places, Ranges, Thread, Fd, Turn, Before
<1>6. pc'["main"] \in {"quitting", "quitwrite"} => todo'["main"] \subseteq {"device", "again"}
  BY <1>1
     DEF Next, Main, Listener, Sync, Handler, Outside, Reader, vars,
         StatusLock, StatusRead, SetFds, MainPolls, Drain, QuitLock, QuitSet, QuitWrite, MainHandled,
         JoinAlsa, JoinNoListener, LoopTeardown, JoinSync, ListenerStarts, ListenerLocks, ListenerPolls,
         Classify, Serve, Served, LastRead, SyncSelects, HandlerLock, HandlerSet, HandlerWrite,
         HandlerClose, MainWakes, ListenerWakes, SyncWakes, QuitArrives, DeviceSends, DeviceGoes, Signal,
         ReadLock, Read, ReadFails, Disable,
         Goto, At, Places, Ranges, Thread, Fd, Turn, Before
<1>7. todo'["listener"] \subseteq {"device"}
  BY <1>1
     DEF Next, Main, Listener, Sync, Handler, Outside, Reader, vars,
         StatusLock, StatusRead, SetFds, MainPolls, Drain, QuitLock, QuitSet, QuitWrite, MainHandled,
         JoinAlsa, JoinNoListener, LoopTeardown, JoinSync, ListenerStarts, ListenerLocks, ListenerPolls,
         Classify, Serve, Served, LastRead, SyncSelects, HandlerLock, HandlerSet, HandlerWrite,
         HandlerClose, MainWakes, ListenerWakes, SyncWakes, QuitArrives, DeviceSends, DeviceGoes, Signal,
         ReadLock, Read, ReadFails, Disable,
         Places, Ranges
<1>8. polled' \subseteq {"device", "pipe"}
  BY <1>1
     DEF Next, Main, Listener, Sync, Handler, Outside, Reader, vars,
         StatusLock, StatusRead, SetFds, MainPolls, Drain, QuitLock, QuitSet, QuitWrite, MainHandled,
         JoinAlsa, JoinNoListener, LoopTeardown, JoinSync, ListenerStarts, ListenerLocks, ListenerPolls,
         Classify, Serve, Served, LastRead, SyncSelects, HandlerLock, HandlerSet, HandlerWrite,
         HandlerClose, MainWakes, ListenerWakes, SyncWakes, QuitArrives, DeviceSends, DeviceGoes, Signal,
         ReadLock, Read, ReadFails, Disable,
         Places
<1>9. QED
  BY <1>2, <1>3, <1>4, <1>5, <1>6, <1>7, <1>8 DEF Places


\* Nobody locks the poll table, nor the flag but the sync thread, once it was destroyed.
LEMMA StepGone == ASSUME ShutdownInv, [Next]_vars PROVE Gone'
<1> USE DEF kernel, locks, table, signal
<1>1. Ranges /\ Places /\ Gone /\ Held
  BY DEF ShutdownInv
<1>2. destroyed' \subseteq {"poll_descriptors", "shutdown"}
  BY <1>1, ZenonT(60)
     DEF Next, Main, Listener, Sync, Handler, Outside, Reader, vars,
         StatusLock, StatusRead, SetFds, MainPolls, Drain, QuitLock, QuitSet, QuitWrite, MainHandled,
         JoinAlsa, JoinNoListener, LoopTeardown, JoinSync, ListenerStarts, ListenerLocks, ListenerPolls,
         Classify, Serve, Served, LastRead, SyncSelects, HandlerLock, HandlerSet, HandlerWrite,
         HandlerClose, MainWakes, ListenerWakes, SyncWakes, QuitArrives, DeviceSends, DeviceGoes, Signal,
         ReadLock, Read, ReadFails, Disable,
         Acquire, Release, Gone
<1>3. misused' \subseteq {"shutdown"} \cap destroyed'
  BY <1>1
     DEF Next, Main, Listener, Sync, Handler, Outside, Reader, vars,
         StatusLock, StatusRead, SetFds, MainPolls, Drain, QuitLock, QuitSet, QuitWrite, MainHandled,
         JoinAlsa, JoinNoListener, LoopTeardown, JoinSync, ListenerStarts, ListenerLocks, ListenerPolls,
         Classify, Serve, Served, LastRead, SyncSelects, HandlerLock, HandlerSet, HandlerWrite,
         HandlerClose, MainWakes, ListenerWakes, SyncWakes, QuitArrives, DeviceSends, DeviceGoes, Signal,
         ReadLock, Read, ReadFails, Disable,
         Acquire, Release, At, Gone, Places, ListenerPlace
<1>4. "poll_descriptors" \in destroyed' => /\ pc'["main"] \in {"teardown", "joinsync", "ended"}
                                           /\ pc'["listener"] \in {"off", "ended"}
  BY <1>1
     DEF Next, Main, Listener, Sync, Handler, Outside, Reader, vars,
         StatusLock, StatusRead, SetFds, MainPolls, Drain, QuitLock, QuitSet, QuitWrite, MainHandled,
         JoinAlsa, JoinNoListener, LoopTeardown, JoinSync, ListenerStarts, ListenerLocks, ListenerPolls,
         Classify, Serve, Served, LastRead, SyncSelects, HandlerLock, HandlerSet, HandlerWrite,
         HandlerClose, MainWakes, ListenerWakes, SyncWakes, QuitArrives, DeviceSends, DeviceGoes, Signal,
         ReadLock, Read, ReadFails, Disable,
         Acquire, Release, At, Goto, Gone, Places, Thread
<1>5. "shutdown" \in destroyed' => pc'["main"] \in {"joinsync", "ended"}
  BY <1>1
     DEF Next, Main, Listener, Sync, Handler, Outside, Reader, vars,
         StatusLock, StatusRead, SetFds, MainPolls, Drain, QuitLock, QuitSet, QuitWrite, MainHandled,
         JoinAlsa, JoinNoListener, LoopTeardown, JoinSync, ListenerStarts, ListenerLocks, ListenerPolls,
         Classify, Serve, Served, LastRead, SyncSelects, HandlerLock, HandlerSet, HandlerWrite,
         HandlerClose, MainWakes, ListenerWakes, SyncWakes, QuitArrives, DeviceSends, DeviceGoes, Signal,
         ReadLock, Read, ReadFails, Disable,
         Acquire, Release, At, Goto, Gone, Places, Thread
<1>6. QED
  BY <1>2, <1>3, <1>4, <1>5 DEF Gone


\* A lock is held where it is taken, and given back before its holder goes elsewhere.
LEMMA StepHeld == ASSUME ShutdownInv, [Next]_vars PROVE Held'
<1> USE DEF kernel, locks, table, signal
<1>1. Ranges /\ Places /\ Gone /\ Held
  BY DEF ShutdownInv
<1>2. holder' \in [Lock -> Thread \cup {"handler", "nobody"}]
  BY <1>1
     DEF Next, Main, Listener, Sync, Handler, Outside, Reader, vars,
         StatusLock, StatusRead, SetFds, MainPolls, Drain, QuitLock, QuitSet, QuitWrite, MainHandled,
         JoinAlsa, JoinNoListener, LoopTeardown, JoinSync, ListenerStarts, ListenerLocks, ListenerPolls,
         Classify, Serve, Served, LastRead, SyncSelects, HandlerLock, HandlerSet, HandlerWrite,
         HandlerClose, MainWakes, ListenerWakes, SyncWakes, QuitArrives, DeviceSends, DeviceGoes, Signal,
         ReadLock, Read, ReadFails, Disable,
         Acquire, Release, Held, Lock, Thread
<1>3. /\ holder'["socket"] \in {"main", "listener", "nobody"}
      /\ holder'["poll_descriptors"] \in {"main", "listener", "nobody"}
  BY <1>1
     DEF Next, Main, Listener, Sync, Handler, Outside, Reader, vars,
         StatusLock, StatusRead, SetFds, MainPolls, Drain, QuitLock, QuitSet, QuitWrite, MainHandled,
         JoinAlsa, JoinNoListener, LoopTeardown, JoinSync, ListenerStarts, ListenerLocks, ListenerPolls,
         Classify, Serve, Served, LastRead, SyncSelects, HandlerLock, HandlerSet, HandlerWrite,
         HandlerClose, MainWakes, ListenerWakes, SyncWakes, QuitArrives, DeviceSends, DeviceGoes, Signal,
         ReadLock, Read, ReadFails, Disable,
         Acquire, Release, Held, Lock, Thread
<1>4. holder'["socket"] = "main" <=> pc'["main"] \in {"reading", "disabling"}
  BY <1>1
     DEF Next, Main, Listener, Sync, Handler, Outside, Reader, vars,
         StatusLock, StatusRead, SetFds, MainPolls, Drain, QuitLock, QuitSet, QuitWrite, MainHandled,
         JoinAlsa, JoinNoListener, LoopTeardown, JoinSync, ListenerStarts, ListenerLocks, ListenerPolls,
         Classify, Serve, Served, LastRead, SyncSelects, HandlerLock, HandlerSet, HandlerWrite,
         HandlerClose, MainWakes, ListenerWakes, SyncWakes, QuitArrives, DeviceSends, DeviceGoes, Signal,
         ReadLock, Read, ReadFails, Disable,
         Acquire, Release, At, Goto, Held, Gone, Places, Lock, Thread
<1>5. holder'["socket"] = "listener" <=> pc'["listener"] = "reading"
  BY <1>1
     DEF Next, Main, Listener, Sync, Handler, Outside, Reader, vars,
         StatusLock, StatusRead, SetFds, MainPolls, Drain, QuitLock, QuitSet, QuitWrite, MainHandled,
         JoinAlsa, JoinNoListener, LoopTeardown, JoinSync, ListenerStarts, ListenerLocks, ListenerPolls,
         Classify, Serve, Served, LastRead, SyncSelects, HandlerLock, HandlerSet, HandlerWrite,
         HandlerClose, MainWakes, ListenerWakes, SyncWakes, QuitArrives, DeviceSends, DeviceGoes, Signal,
         ReadLock, Read, ReadFails, Disable,
         Acquire, Release, At, Goto, Held, Gone, Places, Lock, Thread
<1>6. holder'["poll_descriptors"] = "main" <=> pc'["main"] = "disabling"
  BY <1>1
     DEF Next, Main, Listener, Sync, Handler, Outside, Reader, vars,
         StatusLock, StatusRead, SetFds, MainPolls, Drain, QuitLock, QuitSet, QuitWrite, MainHandled,
         JoinAlsa, JoinNoListener, LoopTeardown, JoinSync, ListenerStarts, ListenerLocks, ListenerPolls,
         Classify, Serve, Served, LastRead, SyncSelects, HandlerLock, HandlerSet, HandlerWrite,
         HandlerClose, MainWakes, ListenerWakes, SyncWakes, QuitArrives, DeviceSends, DeviceGoes, Signal,
         ReadLock, Read, ReadFails, Disable,
         Acquire, Release, At, Goto, Held, Gone, Places, Lock, Thread
<1>7. holder'["poll_descriptors"] = "listener" <=> pc'["listener"] \in {"polling", "handle", "reading"}
  <2>1. CASE Main
    BY <1>1, <2>1
       DEF Main, StatusLock, StatusRead, SetFds, MainPolls, Drain, QuitLock, QuitSet, QuitWrite, MainHandled,
           JoinAlsa, JoinNoListener, LoopTeardown, JoinSync,
           Acquire, Release, At, Goto, Held, Gone, Places, Lock, Thread, ListenerPlace
  <2>2. CASE Listener
    BY <1>1, <2>2
       DEF Listener, StatusLock, StatusRead, ListenerStarts, ListenerLocks, ListenerPolls, Classify,
           Serve, Served,
           Acquire, Release, At, Goto, Held, Gone, Places, Lock, Thread, ListenerPlace
  <2>3. CASE Sync
    BY <1>1, <2>3
       DEF Sync, StatusLock, StatusRead, LastRead, SyncSelects,
           Acquire, Release, At, Goto, Held, Gone, Places, Lock, Thread, ListenerPlace
  <2>4. CASE Handler
    BY <1>1, <2>4
       DEF Handler, HandlerLock, HandlerSet, HandlerWrite, HandlerClose,
           Acquire, Release, At, Goto, Held, Gone, Places, Lock, Thread, ListenerPlace
  <2>5. CASE Outside \/ UNCHANGED vars
    BY <1>1, <2>5
       DEF Outside, vars, MainWakes, ListenerWakes, SyncWakes, QuitArrives, DeviceSends, DeviceGoes, Signal,
           Acquire, Release, At, Goto, Held, Gone, Places, Lock, Thread, ListenerPlace
  <2>6. CASE Reader("main")
    BY <1>1, <2>6
       DEF Reader, ReadLock, Read, ReadFails, Disable,
           Acquire, Release, At, Goto, Held, Gone, Places, Lock, Thread, ListenerPlace
  <2>7. CASE Reader("listener")
    BY <1>1, <2>7
       DEF Reader, ReadLock, Read, ReadFails, Disable,
           Acquire, Release, At, Goto, Held, Gone, Places, Lock, Thread, ListenerPlace
  <2>8. QED
    BY <2>1, <2>2, <2>3, <2>4, <2>5, <2>6, <2>7 DEF Next
<1>8. holder'["shutdown"] = "main" => pc'["main"] \in {"statusread", "quitting"}
  <2>1. CASE Main
    BY <1>1, <2>1
       DEF Main, StatusLock, StatusRead, SetFds, MainPolls, Drain, QuitLock, QuitSet, QuitWrite, MainHandled,
           JoinAlsa, JoinNoListener, LoopTeardown, JoinSync,
           Acquire, Release, At, Goto, Held, Gone, Places, Lock, Thread, MainPlace, ListenerPlace
  <2>2. CASE Listener
    BY <1>1, <2>2
       DEF Listener, StatusLock, StatusRead, ListenerStarts, ListenerLocks, ListenerPolls, Classify,
           Serve, Served,
           Acquire, Release, At, Goto, Held, Gone, Places, Lock, Thread, MainPlace, ListenerPlace
  <2>3. CASE Sync
    BY <1>1, <2>3
       DEF Sync, StatusLock, StatusRead, LastRead, SyncSelects,
           Acquire, Release, At, Goto, Held, Gone, Places, Lock, Thread, MainPlace, ListenerPlace
  <2>4. CASE Handler
    BY <1>1, <2>4
       DEF Handler, HandlerLock, HandlerSet, HandlerWrite, HandlerClose,
           Acquire, Release, At, Goto, Held, Gone, Places, Lock, Thread, MainPlace, ListenerPlace
  <2>5. CASE Outside \/ UNCHANGED vars
    BY <1>1, <2>5
       DEF Outside, vars, MainWakes, ListenerWakes, SyncWakes, QuitArrives, DeviceSends, DeviceGoes, Signal,
           Acquire, Release, At, Goto, Held, Gone, Places, Lock, Thread, MainPlace, ListenerPlace
  <2>6. CASE Reader("main")
    BY <1>1, <2>6
       DEF Reader, ReadLock, Read, ReadFails, Disable,
           Acquire, Release, At, Goto, Held, Gone, Places, Lock, Thread, MainPlace, ListenerPlace
  <2>7. CASE Reader("listener")
    BY <1>1, <2>7
       DEF Reader, ReadLock, Read, ReadFails, Disable,
           Acquire, Release, At, Goto, Held, Gone, Places, Lock, Thread, MainPlace, ListenerPlace
  <2>8. QED
    BY <2>1, <2>2, <2>3, <2>4, <2>5, <2>6, <2>7 DEF Next
<1>9. holder'["shutdown"] = "listener" => pc'["listener"] = "statusread"
  <2>1. CASE Main
    BY <1>1, <2>1
       DEF Main, StatusLock, StatusRead, SetFds, MainPolls, Drain, QuitLock, QuitSet, QuitWrite, MainHandled,
           JoinAlsa, JoinNoListener, LoopTeardown, JoinSync,
           Acquire, Release, At, Goto, Held, Gone, Places, Lock, Thread, MainPlace, ListenerPlace
  <2>2. CASE Listener
    BY <1>1, <2>2
       DEF Listener, StatusLock, StatusRead, ListenerStarts, ListenerLocks, ListenerPolls, Classify,
           Serve, Served,
           Acquire, Release, At, Goto, Held, Gone, Places, Lock, Thread, MainPlace, ListenerPlace
  <2>3. CASE Sync
    BY <1>1, <2>3
       DEF Sync, StatusLock, StatusRead, LastRead, SyncSelects,
           Acquire, Release, At, Goto, Held, Gone, Places, Lock, Thread, MainPlace, ListenerPlace
  <2>4. CASE Handler
    BY <1>1, <2>4
       DEF Handler, HandlerLock, HandlerSet, HandlerWrite, HandlerClose,
           Acquire, Release, At, Goto, Held, Gone, Places, Lock, Thread, MainPlace, ListenerPlace
  <2>5. CASE Outside \/ UNCHANGED vars
    BY <1>1, <2>5
       DEF Outside, vars, MainWakes, ListenerWakes, SyncWakes, QuitArrives, DeviceSends, DeviceGoes, Signal,
           Acquire, Release, At, Goto, Held, Gone, Places, Lock, Thread, MainPlace, ListenerPlace
  <2>6. CASE Reader("main")
    BY <1>1, <2>6
       DEF Reader, ReadLock, Read, ReadFails, Disable,
           Acquire, Release, At, Goto, Held, Gone, Places, Lock, Thread, MainPlace, ListenerPlace
  <2>7. CASE Reader("listener")
    BY <1>1, <2>7
       DEF Reader, ReadLock, Read, ReadFails, Disable,
           Acquire, Release, At, Goto, Held, Gone, Places, Lock, Thread, MainPlace, ListenerPlace
  <2>8. QED
    BY <2>1, <2>2, <2>3, <2>4, <2>5, <2>6, <2>7 DEF Next
<1>10. /\ holder'["shutdown"] = "sync" => pc'["sync"] \in {"statusread", "lastread"}
       /\ holder'["shutdown"] = "handler" => hpc' = "set"
  BY <1>1
     DEF Next, Main, Listener, Sync, Handler, Outside, Reader, vars,
         StatusLock, StatusRead, SetFds, MainPolls, Drain, QuitLock, QuitSet, QuitWrite, MainHandled,
         JoinAlsa, JoinNoListener, LoopTeardown, JoinSync, ListenerStarts, ListenerLocks, ListenerPolls,
         Classify, Serve, Served, LastRead, SyncSelects, HandlerLock, HandlerSet, HandlerWrite,
         HandlerClose, MainWakes, ListenerWakes, SyncWakes, QuitArrives, DeviceSends, DeviceGoes, Signal,
         ReadLock, Read, ReadFails, Disable,
         Acquire, Release, At, Goto, Held, Gone, Places, Lock, Thread
<1>11. QED
  BY <1>2, <1>3, <1>4, <1>5, <1>6, <1>7, <1>8, <1>9, <1>10 DEF Held


\* Main asks no more for the end once it is on its way, so it writes to the pipe once.
LEMMA StepCounted == ASSUME ShutdownInv, [Next]_vars PROVE Counted'
<1> USE DEF kernel, locks, table, signal
<1>1. Ranges /\ Places /\ Counted
  BY DEF ShutdownInv
<1>2. signals' \in 0..MaxSignals /\ pipe' \in Nat /\ Written' \in Nat
  BY <1>1, BoundAssumption
     DEF Next, Main, Listener, Sync, Handler, Outside, Reader, vars,
         StatusLock, StatusRead, SetFds, MainPolls, Drain, QuitLock, QuitSet, QuitWrite, MainHandled,
         JoinAlsa, JoinNoListener, LoopTeardown, JoinSync, ListenerStarts, ListenerLocks, ListenerPolls,
         Classify, Serve, Served, LastRead, SyncSelects, HandlerLock, HandlerSet, HandlerWrite,
         HandlerClose, MainWakes, ListenerWakes, SyncWakes, QuitArrives, DeviceSends, DeviceGoes, Signal,
         ReadLock, Read, ReadFails, Disable,
         Ranges, Counted, Written
<1>3. pipe' <= Written' + 1
  BY <1>1, BoundAssumption
     DEF Next, Main, Listener, Sync, Handler, Outside, Reader, vars,
         StatusLock, StatusRead, SetFds, MainPolls, Drain, QuitLock, QuitSet, QuitWrite, MainHandled,
         JoinAlsa, JoinNoListener, LoopTeardown, JoinSync, ListenerStarts, ListenerLocks, ListenerPolls,
         Classify, Serve, Served, LastRead, SyncSelects, HandlerLock, HandlerSet, HandlerWrite,
         HandlerClose, MainWakes, ListenerWakes, SyncWakes, QuitArrives, DeviceSends, DeviceGoes, Signal,
         ReadLock, Read, ReadFails, Disable,
         At, Ranges, Counted, Written, MayQuit
\* what main does not do any more
<1>4. pc'["main"] = "quitwrite" => flag'
  BY <1>1
     DEF Next, Main, Listener, Sync, Handler, Outside, Reader, vars,
         StatusLock, StatusRead, SetFds, MainPolls, Drain, QuitLock, QuitSet, QuitWrite, MainHandled,
         JoinAlsa, JoinNoListener, LoopTeardown, JoinSync, ListenerStarts, ListenerLocks, ListenerPolls,
         Classify, Serve, Served, LastRead, SyncSelects, HandlerLock, HandlerSet, HandlerWrite,
         HandlerClose, MainWakes, ListenerWakes, SyncWakes, QuitArrives, DeviceSends, DeviceGoes, Signal,
         ReadLock, Read, ReadFails, Disable,
         At, Goto, Places, Counted, Thread
<1>5. pc'["main"] \in {"setfds", "poll"} => ~flag' \/ pc["main"] \in {"setfds", "poll"}
  BY <1>1
     DEF Next, Main, Listener, Sync, Handler, Outside, Reader, vars,
         StatusLock, StatusRead, SetFds, MainPolls, Drain, QuitLock, QuitSet, QuitWrite, MainHandled,
         JoinAlsa, JoinNoListener, LoopTeardown, JoinSync, ListenerStarts, ListenerLocks, ListenerPolls,
         Classify, Serve, Served, LastRead, SyncSelects, HandlerLock, HandlerSet, HandlerWrite,
         HandlerClose, MainWakes, ListenerWakes, SyncWakes, QuitArrives, DeviceSends, DeviceGoes, Signal,
         ReadLock, Read, ReadFails, Disable,
         At, Goto, Places, Thread
<1>6. pc'["main"] \in {"quitting", "quitwrite"} => \/ pc["main"] \in {"quitting", "quitwrite"}
                                                  \/ "local" \in todo["main"]
  BY <1>1
     DEF Next, Main, Listener, Sync, Handler, Outside, Reader, vars,
         StatusLock, StatusRead, SetFds, MainPolls, Drain, QuitLock, QuitSet, QuitWrite, MainHandled,
         JoinAlsa, JoinNoListener, LoopTeardown, JoinSync, ListenerStarts, ListenerLocks, ListenerPolls,
         Classify, Serve, Served, LastRead, SyncSelects, HandlerLock, HandlerSet, HandlerWrite,
         HandlerClose, MainWakes, ListenerWakes, SyncWakes, QuitArrives, DeviceSends, DeviceGoes, Signal,
         ReadLock, Read, ReadFails, Disable,
         At, Goto, Places, Thread, Turn
<1>7. "local" \in todo'["main"] => "local" \in todo["main"] \/ pc["main"] = "poll"
  BY <1>1
     DEF Next, Main, Listener, Sync, Handler, Outside, Reader, vars,
         StatusLock, StatusRead, SetFds, MainPolls, Drain, QuitLock, QuitSet, QuitWrite, MainHandled,
         JoinAlsa, JoinNoListener, LoopTeardown, JoinSync, ListenerStarts, ListenerLocks, ListenerPolls,
         Classify, Serve, Served, LastRead, SyncSelects, HandlerLock, HandlerSet, HandlerWrite,
         HandlerClose, MainWakes, ListenerWakes, SyncWakes, QuitArrives, DeviceSends, DeviceGoes, Signal,
         ReadLock, Read, ReadFails, Disable,
         At, Ranges
<1>8. flag => flag'
  BY DEF Next, Main, Listener, Sync, Handler, Outside, Reader, vars,
         StatusLock, StatusRead, SetFds, MainPolls, Drain, QuitLock, QuitSet, QuitWrite, MainHandled,
         JoinAlsa, JoinNoListener, LoopTeardown, JoinSync, ListenerStarts, ListenerLocks, ListenerPolls,
         Classify, Serve, Served, LastRead, SyncSelects, HandlerLock, HandlerSet, HandlerWrite,
         HandlerClose, MainWakes, ListenerWakes, SyncWakes, QuitArrives, DeviceSends, DeviceGoes, Signal,
         ReadLock, Read, ReadFails, Disable
<1>9. MayQuit' => MayQuit
  BY <1>5, <1>6, <1>7, <1>8 DEF MayQuit
\* the pipe and the signals
<1>10. CASE QuitWrite
  <2>1. flag' /\ pc'["main"] = "handle" /\ "local" \notin todo'["main"]
    BY <1>1, <1>10 DEF QuitWrite, At, Goto, Places, Counted, Thread
  <2>2. QED
    BY <1>2, <1>3, <1>4, <2>1 DEF Counted, MayQuit
<1>11. CASE HandlerWrite
  <2>1. pipe' <= pipe + 1 /\ Written' = Written + 1
    BY <1>1, <1>11 DEF HandlerWrite, Counted, Written
  <2>2. MayQuit' => pipe' <= Written'
    BY <1>1, <1>2, <1>9, <2>1 DEF Counted
  <2>3. QED
    BY <1>2, <1>3, <1>4, <2>2 DEF Counted
<1>12. CASE ~QuitWrite /\ ~HandlerWrite
  <2>1. pipe' <= pipe
    BY <1>1, <1>12
       DEF Next, Main, Listener, Sync, Handler, Outside, Reader, vars,
         StatusLock, StatusRead, SetFds, MainPolls, Drain, QuitLock, QuitSet, MainHandled,
         JoinAlsa, JoinNoListener, LoopTeardown, JoinSync, ListenerStarts, ListenerLocks, ListenerPolls,
         Classify, Serve, Served, LastRead, SyncSelects, HandlerLock, HandlerSet,
         HandlerClose, MainWakes, ListenerWakes, SyncWakes, QuitArrives, DeviceSends, DeviceGoes, Signal,
         ReadLock, Read, ReadFails, Disable,
         Counted
  <2>2. \/ UNCHANGED <<hpc, signals>>
        \/ hpc = "off" /\ hpc' = "lock" /\ signals' = signals + 1
        \/ hpc = "lock" /\ hpc' = "set" /\ signals' = signals
        \/ hpc = "set" /\ hpc' = "write" /\ signals' = signals
        \/ hpc = "close" /\ hpc' = "off" /\ signals' = signals
    BY <1>12
       DEF Next, Main, Listener, Sync, Handler, Outside, Reader, vars,
         StatusLock, StatusRead, SetFds, MainPolls, Drain, QuitLock, QuitSet, MainHandled,
         JoinAlsa, JoinNoListener, LoopTeardown, JoinSync, ListenerStarts, ListenerLocks, ListenerPolls,
         Classify, Serve, Served, LastRead, SyncSelects, HandlerLock, HandlerSet,
         HandlerClose, MainWakes, ListenerWakes, SyncWakes, QuitArrives, DeviceSends, DeviceGoes, Signal,
         ReadLock, Read, ReadFails, Disable
  <2>3. Written' = Written
    BY <1>1, BoundAssumption, <2>2 DEF Written, Counted
  <2>4. MayQuit' => pipe' <= Written'
    BY <1>1, <1>2, <1>9, <2>1, <2>3 DEF Counted
  <2>5. QED
    BY <1>2, <1>3, <1>4, <2>4 DEF Counted
<1>13. QED
  BY <1>10, <1>11, <1>12


\* The pipe is filled by the handler, which closes it next, or by main after its last poll;
\* so what main's poll finds in it, and what main drains, is the handler's.
LEMMA StepFilled == ASSUME ShutdownInv, [Next]_vars PROVE Filled' /\ Drained'
<1> USE DEF kernel, locks, table, signal
<1>1. Ranges /\ Places /\ Filled /\ Drained /\ pipe \in Nat
      /\ (pc["main"] = "quitwrite" => flag)
  BY DEF ShutdownInv, Counted
\* what the handler and main do not undo
<1>2. closed \/ hpc = "close" => closed' \/ hpc' = "close"
  BY DEF Next, Main, Listener, Sync, Handler, Outside, Reader, vars,
         StatusLock, StatusRead, SetFds, MainPolls, Drain, QuitLock, QuitSet, QuitWrite, MainHandled,
         JoinAlsa, JoinNoListener, LoopTeardown, JoinSync, ListenerStarts, ListenerLocks, ListenerPolls,
         Classify, Serve, Served, LastRead, SyncSelects, HandlerLock, HandlerSet, HandlerWrite,
         HandlerClose, MainWakes, ListenerWakes, SyncWakes, QuitArrives, DeviceSends, DeviceGoes, Signal,
         ReadLock, Read, ReadFails, Disable
<1>3. flag => flag'
  BY DEF Next, Main, Listener, Sync, Handler, Outside, Reader, vars,
         StatusLock, StatusRead, SetFds, MainPolls, Drain, QuitLock, QuitSet, QuitWrite, MainHandled,
         JoinAlsa, JoinNoListener, LoopTeardown, JoinSync, ListenerStarts, ListenerLocks, ListenerPolls,
         Classify, Serve, Served, LastRead, SyncSelects, HandlerLock, HandlerSet, HandlerWrite,
         HandlerClose, MainWakes, ListenerWakes, SyncWakes, QuitArrives, DeviceSends, DeviceGoes, Signal,
         ReadLock, Read, ReadFails, Disable
<1>4. pc'["main"] \in {"setfds", "poll"} => ~flag' \/ pc["main"] \in {"setfds", "poll"}
  BY <1>1
     DEF Next, Main, Listener, Sync, Handler, Outside, Reader, vars,
         StatusLock, StatusRead, SetFds, MainPolls, Drain, QuitLock, QuitSet, QuitWrite, MainHandled,
         JoinAlsa, JoinNoListener, LoopTeardown, JoinSync, ListenerStarts, ListenerLocks, ListenerPolls,
         Classify, Serve, Served, LastRead, SyncSelects, HandlerLock, HandlerSet, HandlerWrite,
         HandlerClose, MainWakes, ListenerWakes, SyncWakes, QuitArrives, DeviceSends, DeviceGoes, Signal,
         ReadLock, Read, ReadFails, Disable,
         At, Goto, Places, Thread
<1>5. pipe' > 0 => pipe > 0 \/ HandlerWrite \/ QuitWrite
  BY <1>1
     DEF Next, Main, Listener, Sync, Handler, Outside, Reader, vars,
         StatusLock, StatusRead, SetFds, MainPolls, Drain, QuitLock, QuitSet, MainHandled,
         JoinAlsa, JoinNoListener, LoopTeardown, JoinSync, ListenerStarts, ListenerLocks, ListenerPolls,
         Classify, Serve, Served, LastRead, SyncSelects, HandlerLock, HandlerSet,
         HandlerClose, MainWakes, ListenerWakes, SyncWakes, QuitArrives, DeviceSends, DeviceGoes, Signal,
         ReadLock, Read, ReadFails, Disable
<1>6. Filled'
  <2>1. CASE HandlerWrite
    BY <2>1 DEF HandlerWrite, Filled
  <2>2. CASE QuitWrite
    BY <1>1, <2>2 DEF QuitWrite, At, Goto, Places, Thread, Filled
  <2>3. CASE pipe > 0 \/ ~ (pipe' > 0)
    BY <1>1, <1>2, <1>3, <1>4, <2>3 DEF Filled
  <2>4. QED
    BY <1>5, <2>1, <2>2, <2>3
<1>7. Drained'
  <2>1. CASE MainPolls
    <3>1. pc["main"] = "poll" /\ todo'["main"] = MainReadable
      BY <1>1, <2>1 DEF MainPolls, At, Ranges
    <3>2. MainReadable \cap {"pipe", "again"} # {} => PipeReady
      BY DEF MainReadable
    <3>3. PipeReady => closed \/ hpc = "close"
      BY <1>1, <3>1 DEF PipeReady, Filled
    <3>4. QED
      BY <1>2, <3>1, <3>2, <3>3 DEF Drained
  <2>2. CASE ~MainPolls
    <3>1. todo'["main"] \subseteq todo["main"]
      BY <1>1, <2>2
         DEF Next, Main, Listener, Sync, Handler, Outside, Reader, vars,
         StatusLock, StatusRead, SetFds, Drain, QuitLock, QuitSet, QuitWrite, MainHandled,
         JoinAlsa, JoinNoListener, LoopTeardown, JoinSync, ListenerStarts, ListenerLocks, ListenerPolls,
         Classify, Serve, Served, LastRead, SyncSelects, HandlerLock, HandlerSet, HandlerWrite,
         HandlerClose, MainWakes, ListenerWakes, SyncWakes, QuitArrives, DeviceSends, DeviceGoes, Signal,
         ReadLock, Read, ReadFails, Disable,
         Ranges
    <3>2. QED
      BY <1>1, <1>2, <3>1 DEF Drained
  <2>3. QED
    BY <2>1, <2>2
<1>8. QED
  BY <1>6, <1>7


\* Whoever sets the flag goes on to write to the pipe, and main, having seen the pipe,
\* is past it.
LEMMA StepWoken == ASSUME ShutdownInv, [Next]_vars PROVE Woken'
<1> USE DEF kernel, locks, table, signal
<1>1. Ranges /\ Places /\ Drained /\ Woken /\ pipe \in Nat
  BY DEF ShutdownInv, Counted
<1>2. Woken'
  <2>1. CASE Main
    <3>1. CASE StatusLock("main")
      <4>1. UNCHANGED <<flag, closed, hpc, pipe, todo>>
        BY <3>1 DEF StatusLock
      <4>2. pc["main"] # "quitwrite" /\ pc'["main"] \notin {"setfds", "poll"}
        BY <1>1, <3>1 DEF StatusLock, At, Goto, Places, Thread
      <4>3. QED
        BY <1>1, <4>1, <4>2 DEF Woken
    <3>2. CASE StatusRead("main")
      <4>1. UNCHANGED <<flag, closed, hpc, pipe, todo>>
        BY <3>2 DEF StatusRead
      <4>2. pc["main"] # "quitwrite" /\ (flag => pc'["main"] \notin {"setfds", "poll"})
        BY <1>1, <3>2 DEF StatusRead, At, Places, Thread
      <4>3. QED
        BY <1>1, <4>1, <4>2 DEF Woken
    <3>3. CASE SetFds \/ MainPolls \/ MainHandled
      BY <1>1, <3>3 DEF SetFds, MainPolls, MainHandled, At, Goto, Places, Woken, Thread
    <3>4. CASE Drain
      BY <1>1, <3>4 DEF Drain, Turn, Drained, Woken
    <3>5. CASE QuitLock
      <4>1. UNCHANGED <<flag, closed, hpc, pipe>>
        BY <3>5 DEF QuitLock
      <4>2. pc["main"] # "quitwrite" /\ pc'["main"] \notin {"setfds", "poll"}
        BY <1>1, <3>5 DEF QuitLock, At, Goto, Places, Thread
      <4>3. QED
        BY <1>1, <4>1, <4>2 DEF Woken
    <3>6. CASE QuitSet
      BY <1>1, <3>6 DEF QuitSet, At, Goto, Places, Woken, Thread
    <3>7. CASE QuitWrite
      <4>1. pc'["main"] = "handle" /\ closed' = closed
        BY <1>1, <3>7 DEF QuitWrite, At, Goto, Places, Thread
      <4>2. closed \/ pipe' > 0
        BY <1>1, <3>7 DEF QuitWrite
      <4>3. QED
        BY <4>1, <4>2 DEF Woken
    <3>8. CASE JoinAlsa \/ JoinNoListener \/ LoopTeardown \/ JoinSync
      BY <1>1, <3>8 DEF JoinAlsa, JoinNoListener, LoopTeardown, JoinSync, Ranges, At, Goto, Places, Woken, Thread
    <3>9. QED
      BY <2>1, <3>1, <3>2, <3>3, <3>4, <3>5, <3>6, <3>7, <3>8 DEF Main
  <2>2. CASE Listener
    BY <1>1, <2>2
       DEF Listener, StatusLock, StatusRead, ListenerStarts, ListenerLocks, ListenerPolls, Classify,
           Serve, Served,
           At, Goto, Ranges, Places, Woken, Thread, MainPlace, Turn, Before
  <2>3. CASE Sync
    BY <1>1, <2>3
       DEF Sync, StatusLock, StatusRead, LastRead, SyncSelects,
           At, Goto, Ranges, Places, Woken, Thread, MainPlace, Turn, Before
  <2>4. CASE Handler
    BY <1>1, <2>4
       DEF Handler, HandlerLock, HandlerSet, HandlerWrite, HandlerClose,
           At, Goto, Ranges, Places, Woken, Thread, MainPlace, Turn, Before
  <2>5. CASE Outside \/ UNCHANGED vars
    BY <1>1, <2>5
       DEF Outside, vars, MainWakes, ListenerWakes, SyncWakes, QuitArrives, DeviceSends, DeviceGoes, Signal,
           At, Goto, Ranges, Places, Woken, Thread, MainPlace, Turn, Before
  <2>6. CASE Reader("main")
    <3>1. UNCHANGED <<flag, closed, hpc, pipe>>
      BY <2>6 DEF Reader, ReadLock, Read, ReadFails, Disable
    <3>2. pc["main"] # "quitwrite" /\ pc'["main"] \notin {"setfds", "poll"}
      BY <1>1, <2>6 DEF Reader, ReadLock, Read, ReadFails, Disable, At, Goto, Places, Thread
    <3>3. QED
      BY <1>1, <3>1, <3>2 DEF Woken
  <2>7. CASE Reader("listener")
    BY <1>1, <2>7
       DEF Reader, ReadLock, Read, ReadFails, Disable,
           At, Goto, Ranges, Places, Woken, Thread, MainPlace, Turn, Before
  <2>8. QED
    BY <2>1, <2>2, <2>3, <2>4, <2>5, <2>6, <2>7 DEF Next
<1>3. QED
  BY <1>2


\* Every step of main, the listener, the sync thread, the signal handler and the world
\* outside keeps the invariant.
LEMMA StepShutdown == ShutdownInv /\ [Next]_vars => ShutdownInv'
<1> SUFFICES ASSUME ShutdownInv, [Next]_vars PROVE ShutdownInv'
  OBVIOUS
<1>1. QED
  BY StepRanges, StepPlaces, StepGone, StepHeld, StepCounted, StepFilled, StepWoken DEF ShutdownInv

\* The invariant holds of every run, whoever the signals interrupt.
THEOREM ShutdownInvariant == Spec => []ShutdownInv
<1>1. QED
  BY InitShutdown, StepShutdown, PTL DEF Spec

\* A thread that sleeps or looks at its next descriptor has given its locks back, but for
\* the lock of the poll table, which raveloxmidi_alsa_poll keeps while it sleeps.
LEMMA IdleHolds ==
    ASSUME ShutdownInv, NEW t \in Thread,
           pc[t] \in {"status", "poll", "polling", "handle", "wait", "ended"}
    PROVE  Holding(t) = IF t = "listener" /\ pc[t] \in {"polling", "handle"}
                        THEN {"poll_descriptors"} ELSE {}
<1>1. Places /\ Held
  BY DEF ShutdownInv
<1>2. holder["shutdown"] # t
  BY <1>1 DEF Held, Thread
<1>3. holder["socket"] # t
  BY <1>1 DEF Held, Thread
<1>4. holder["poll_descriptors"] = t <=> t = "listener" /\ pc[t] \in {"polling", "handle"}
  BY <1>1 DEF Held, Places, MainPlace, Thread
<1>5. Lock = {"poll_descriptors", "socket", "shutdown"}
  BY DEF Lock
<1>6. QED
  BY <1>2, <1>3, <1>4, <1>5 DEF Holding

\* TypeOK, with the locks each thread may hold where it is, and the bytes in the pipe: one
\* for every signal, and one for QUIT.
THEOREM ShutdownTypeOK == Spec => []TypeOK
<1>1. ASSUME ShutdownInv PROVE TypeOK
  <2>1. Ranges /\ Places /\ Gone /\ Held /\ Counted
    BY <1>1 DEF ShutdownInv
  <2>2. pipe \in 0..MaxSignals + 1
    <3>1. Written <= signals
      BY <2>1 DEF Counted, Written
    <3>2. QED
      BY <2>1, <3>1, BoundAssumption DEF Counted
  <2>3. destroyed \subseteq Lock /\ misused \subseteq destroyed
    BY <2>1 DEF Gone, Lock
  <2>4. DOMAIN pc = Thread
    BY <2>1 DEF Places
  <2>5. \A t \in Thread : pc[t] \in {"status", "poll", "polling", "handle", "wait", "ended"} =>
            Holding(t) = IF t = "listener" /\ pc[t] \in {"polling", "handle"}
                         THEN {"poll_descriptors"} ELSE {}
    BY <1>1, IdleHolds
  <2>6. QED
    BY <2>1, <2>2, <2>3, <2>4, <2>5 DEF TypeOK, Ranges, Places, Held, Counted
<1>2. ShutdownInv => TypeOK
  BY <1>1
<1>3. QED
  BY ShutdownInvariant, <1>2, PTL

\* Whoever sleeps when the end has been asked for and written to the pipe is woken: main
\* reads the pipe empty only before it asks for the end itself, and does not come back to
\* its poll after.
THEOREM ShutdownWakesAll == Spec => []NobodySleepsOn
<1>1. ShutdownInv => NobodySleepsOn
  BY DEF ShutdownInv, Woken, NobodySleepsOn, PipeReady
<1>2. QED
  BY ShutdownInvariant, <1>1, PTL

\* The poll table and its lock are destroyed only after the listener has ended: main waits
\* for it, or never started it.
THEOREM ShutdownPollTableLive == Spec => []PollTableLive
<1>1. ShutdownInv => PollTableLive
  BY DEF ShutdownInv, Gone, PollTableLive
<1>2. QED
  BY ShutdownInvariant, <1>1, PTL


\* Signals that interrupt the queue thread alone leave the others running.
LEMMA QueueInterrupted ==
    Interrupted \subseteq {"queue"} => (Spec => [](hon = "queue"))
<1> SUFFICES ASSUME Interrupted \subseteq {"queue"} PROVE Spec => [](hon = "queue")
  OBVIOUS
<1>1. Init => hon = "queue"
  BY DEF Init
<1>2. hon = "queue" /\ [Next]_vars => (hon = "queue")'
  BY DEF Next, Main, Listener, Sync, Handler, Outside, Reader, vars, kernel, locks, table, signal,
         StatusLock, StatusRead, SetFds, MainPolls, Drain, QuitLock, QuitSet, QuitWrite, MainHandled,
         JoinAlsa, JoinNoListener, LoopTeardown, JoinSync, ListenerStarts, ListenerLocks, ListenerPolls,
         Classify, Serve, Served, LastRead, SyncSelects, HandlerLock, HandlerSet, HandlerWrite,
         HandlerClose, MainWakes, ListenerWakes, SyncWakes, QuitArrives, DeviceSends, DeviceGoes, Signal,
         ReadLock, Read, ReadFails, Disable
<1>3. QED
  BY <1>1, <1>2, PTL DEF Spec

\* Whoever holds the lock of the flag waits for nobody.
LEMMA ShutdownHolder ==
    ASSUME ShutdownInv, hon = "queue", NEW u, u = holder["shutdown"], u # "nobody"
    PROVE  WaitsFor(u) = {}
<1>1. Places /\ Held
  BY DEF ShutdownInv
<1>2. u \in {"main", "listener", "sync", "handler"}
  BY <1>1 DEF Held, Lock, Thread
<1>3. CASE u = "handler"
  <2>1. Wanted(u) = {} /\ Joined(u) = {}
    BY <1>1, <1>3 DEF Held, Wanted, Joined
  <2>2. QED
    BY <1>3, <2>1 DEF WaitsFor, Thread
<1>4. CASE u # "handler"
  <2>1. pc[u] \in {"statusread", "quitting", "lastread"}
    BY <1>1, <1>2, <1>4 DEF Held
  <2>2. Wanted(u) = {} /\ Joined(u) = {}
    BY <1>4, <2>1 DEF Wanted, Joined
  <2>3. QED
    BY <2>2 DEF WaitsFor, Thread
<1>5. QED
  BY <1>3, <1>4

\* Main, the holder of the lock of the socket or of the poll table, waits for nobody,
\* unless the device is gone and the listener has the other lock.
LEMMA MainReads ==
    ASSUME ShutdownInv, hon = "queue",
           pc["main"] = "disabling" \/ (pc["main"] = "reading" /\ device # "gone")
    PROVE  WaitsFor("main") = {}
<1>1. Wanted("main") = {} /\ Joined("main") = {}
  BY DEF Wanted, Joined
<1>2. QED
  BY <1>1 DEF WaitsFor, Thread

\* The listener asks for the lock of the socket while it has that of the poll table.  If
\* it has locked the socket too, it waits for nobody, but to disable a device.
LEMMA ListenerServes ==
    ASSUME ShutdownInv, hon = "queue", ~ServesUnplugged, holder["poll_descriptors"] = "listener",
           pc["listener"] = "reading" \/ device = "gone"
    PROVE  WaitsFor("listener") = {}
<1>1. Places /\ Held
  BY DEF ShutdownInv
<1>2. pc["listener"] \in {"polling", "handle", "reading"}
  BY <1>1 DEF Held
<1>3. CASE pc["listener"] = "reading"
  <2>1. Wanted("listener") = {} /\ Joined("listener") = {}
    BY <1>3 DEF Wanted, Joined, ServesUnplugged
  <2>2. QED
    BY <2>1 DEF WaitsFor, Thread
<1>4. CASE pc["listener"] = "polling"
  <2>1. Wanted("listener") = {} /\ Joined("listener") = {}
    BY <1>4 DEF Wanted, Joined
  <2>2. QED
    BY <2>1 DEF WaitsFor, Thread
<1>5. CASE pc["listener"] = "handle" /\ device = "gone"
  <2>1. "device" \notin todo["listener"] /\ "local" \notin todo["listener"]
    BY <1>1, <1>5 DEF ServesUnplugged, Places
  <2>2. Wanted("listener") = {} /\ Joined("listener") = {}
    BY <1>5, <2>1 DEF Wanted, Joined, Turn
  <2>3. QED
    BY <2>2 DEF WaitsFor, Thread
<1>6. QED
  BY <1>2, <1>3, <1>4, <1>5

\* Whom a thread waits for waits for nobody, so long as it is not joined.
LEMMA WaitsOnce ==
    ASSUME ShutdownInv, hon = "queue", ~ServesUnplugged,
           NEW t \in Thread, NEW u \in {holder[l] : l \in Wanted(t)} \ {"nobody"}
    PROVE  u # t /\ WaitsFor(u) = {}
<1>1. Places /\ Held
  BY DEF ShutdownInv
<1>2. PICK l \in Wanted(t) : u = holder[l]
  OBVIOUS
<1>3. t # "handler" /\ t \in {"main", "listener", "sync"}
  BY DEF Thread
<1>4. \/ l = "shutdown" /\ pc[t] \in {"status", "last", "handle"}
      \/ l = "socket" /\ pc[t] = "handle" /\ Turn(t, "device")
      \/ l = "poll_descriptors" /\ pc[t] = "reading" /\ device = "gone"
      \/ l = "poll_descriptors" /\ pc[t] \in {"start", "serve", "classify"}
      \/ l = "poll_descriptors" /\ pc[t] = "poll" /\ t = "listener"
  BY <1>2, <1>3 DEF Wanted
<1>5. CASE l = "shutdown" /\ pc[t] \in {"status", "last", "handle"}
  BY <1>1, <1>2, <1>3, <1>5, ShutdownHolder DEF Held
<1>6. CASE l = "socket" /\ pc[t] = "handle" /\ Turn(t, "device")
  <2>1. u \in {"main", "listener"}
    BY <1>1, <1>2, <1>6 DEF Held
  <2>2. CASE u = "main"
    <3>1. pc["main"] \in {"reading", "disabling"} /\ t = "listener"
      BY <1>1, <1>2, <1>3, <1>6, <2>2 DEF Held, Places, SyncPlace
    <3>2. holder["poll_descriptors"] = "listener" /\ "device" \in todo["listener"]
      BY <1>1, <1>6, <3>1 DEF Held, Turn
    <3>3. device # "gone"
      BY <1>6, <3>1, <3>2 DEF ServesUnplugged
    <3>4. QED
      BY <2>2, <3>1, <3>3, MainReads
  <2>3. CASE u = "listener"
    BY <1>1, <1>2, <1>6, <2>3, ListenerServes DEF Held
  <2>4. QED
    BY <2>1, <2>2, <2>3
<1>7. CASE l = "poll_descriptors" /\ pc[t] = "reading" /\ device = "gone"
  <2>1. t = "main"
    BY <1>1, <1>3, <1>7 DEF Held, Places, SyncPlace, ServesUnplugged
  <2>2. u = "listener"
    BY <1>1, <1>2, <1>7, <2>1 DEF Held
  <2>3. QED
    BY <1>2, <1>7, <2>1, <2>2, ListenerServes
<1>8. CASE l = "poll_descriptors" /\ pc[t] \in {"start", "serve", "classify", "poll"} /\ t # "main"
  <2>1. t = "listener"
    BY <1>1, <1>3, <1>8 DEF Places, SyncPlace
  <2>2. u = "main"
    BY <1>1, <1>2, <1>8, <2>1 DEF Held
  <2>3. pc["main"] = "disabling"
    BY <1>1, <1>2, <1>8, <2>2 DEF Held
  <2>4. WaitsFor("main") = {}
    BY <2>3, MainReads
  <2>5. QED
    BY <2>1, <2>2, <2>4
<1>9. t = "main" => pc[t] \notin {"start", "serve", "classify"}
  BY <1>1 DEF Places, MainPlace
<1>10. QED
  BY <1>4, <1>5, <1>6, <1>7, <1>8, <1>9

\* Main joins the listener and the sync thread when it holds no lock.
LEMMA JoinedHoldsNothing ==
    ASSUME ShutdownInv, NEW t \in Thread, Joined(t) # {}
    PROVE  /\ t = "main" /\ Joined(t) \subseteq {"listener", "sync"} /\ Wanted(t) = {}
           /\ \A l \in Lock : holder[l] # t
<1>1. Places /\ Held
  BY DEF ShutdownInv
<1>2. t = "main" /\ pc["main"] \in {"join", "joinsync"} /\ Joined(t) \subseteq {"listener", "sync"}
  BY DEF Joined
<1>3. Wanted("main") = {}
  BY <1>2 DEF Wanted
<1>4. \A l \in Lock : holder[l] # "main"
  BY <1>1, <1>2 DEF Held, Lock
<1>5. QED
  BY <1>2, <1>3, <1>4

\* No thread waits for itself by way of others, as long as signals are delivered to the
\* queue thread and the device is not unplugged while the listener serves it.
THEOREM ShutdownNoCircularWait ==
    Interrupted \subseteq {"queue"} => (Spec => []NoCircularWait)
<1> SUFFICES ASSUME Interrupted \subseteq {"queue"} PROVE Spec => []NoCircularWait
  OBVIOUS
<1>1. ASSUME ShutdownInv, hon = "queue" PROVE NoCircularWait
  <2> SUFFICES ASSUME ~ServesUnplugged, NEW t \in Thread
               PROVE  /\ t \notin WaitsFor(t)
                      /\ \A u \in WaitsFor(t) : t \notin WaitsFor(u)
                      /\ \A u \in WaitsFor(t) : \A v \in WaitsFor(u) : t \notin WaitsFor(v)
    BY DEF NoCircularWait
  <2>1. \A s \in Thread : WaitsFor(s) = Joined(s) \cup ({holder[l] : l \in Wanted(s)} \ {"nobody"})
    BY <1>1 DEF WaitsFor, Thread
  <2>2. CASE Joined(t) = {}
    <3>1. \A u \in WaitsFor(t) : u # t /\ WaitsFor(u) = {}
      BY <1>1, <2>1, <2>2, WaitsOnce
    <3>2. QED
      BY <3>1
  <2>3. CASE Joined(t) # {}
    <3>1. /\ t = "main" /\ Joined(t) \subseteq {"listener", "sync"} /\ Wanted(t) = {}
          /\ \A l \in Lock : holder[l] # t
      BY <1>1, <2>3, JoinedHoldsNothing
    <3>2. ASSUME NEW u \in WaitsFor(t)
          PROVE  u # t /\ t \notin WaitsFor(u) /\ \A v \in WaitsFor(u) : WaitsFor(v) = {}
      <4>1. u \in Joined(t) /\ u \in Thread /\ u # t /\ u # "main"
        BY <2>1, <3>1, <3>2 DEF Thread
      <4>2. Joined(u) = {}
        BY <4>1 DEF Joined
      <4>3. \A v \in WaitsFor(u) : WaitsFor(v) = {}
        BY <1>1, <2>1, <4>1, <4>2, WaitsOnce
      <4>4. Wanted(u) \subseteq Lock
        BY <4>1 DEF Wanted, Lock, Thread
      <4>5. t \notin WaitsFor(u)
        BY <2>1, <3>1, <4>1, <4>2, <4>4
      <4>6. QED
        BY <4>1, <4>3, <4>5
    <3>3. QED
      BY <3>2
  <2>4. QED
    BY <2>2, <2>3
<1>2. ShutdownInv /\ hon = "queue" => NoCircularWait
  BY <1>1
<1>3. QED
  BY ShutdownInvariant, QueueInterrupted, <1>2, PTL
=============================================================================
