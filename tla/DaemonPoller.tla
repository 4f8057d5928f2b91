---------------------------- MODULE DaemonPoller ----------------------------
(***************************************************************************)
(* Block notifications of the daemon client: MoneroDaemonPoller, its       *)
(* polling runnables, and MoneroDaemonRpc.getNextBlockHeader.              *)
(*                                                                         *)
(* The threads are the application threads that call addListener and       *)
(* removeListener, those that are inside getNextBlockHeader (Waiters), and *)
(* the polling threads (Pollers).  They share the monitor of the listener  *)
(* list; each getNextBlockHeader call also has the monitor of its own      *)
(* syncObject.  addListener and removeListener hold the list's monitor     *)
(* from beginning to end and call nothing that blocks, so each is one      *)
(* step; a polling thread keeps the monitor over several steps while it    *)
(* notifies the listeners one by one.                                      *)
(*                                                                         *)
(* A block header is the number of the change of the chain's tip that made *)
(* it the last header: the poller only compares hashes, so heights and     *)
(* reorganizations add nothing that it could tell apart.                   *)
(***************************************************************************)
EXTENDS Naturals, Sequences, SequencesExt

CONSTANTS
    AppListeners,      \* listeners that the application registers itself
    OneShot,           \* those whose onBlockHeader unregisters the listener
    Throwing,          \* those whose onBlockHeader throws
    Waiters,           \* calls of getNextBlockHeader, and their own listeners
    Pollers,           \* polling runnables that can be created
    Null,              \* Java's null
    RpcFailures,       \* getLastBlockHeader may throw
    Interrupts,        \* threads may be interrupted
    SpuriousWakeups,   \* Object.wait() may return without a notification
    MaxTip,            \* bound: changes of the chain's tip
    MaxRegistrations   \* bound: entries of the listener list

ASSUME ConstantsAssumption ==
    /\ OneShot \subseteq AppListeners
    /\ Throwing \subseteq AppListeners \ OneShot
    /\ AppListeners \cap Waiters = {}
    /\ Null \notin Pollers
    /\ {RpcFailures, Interrupts, SpuriousWakeups} \subseteq BOOLEAN
    /\ MaxTip \in Nat \ {0}
    /\ MaxRegistrations \in Nat

VARIABLES
    tip,            \* the daemon's last block header
    listeners,      \* MoneroDaemonPoller.listeners, an ArrayList
    runnable,       \* MoneroDaemonPoller.runnable
    lock,           \* the polling thread that holds the list's monitor
    isTerminated,   \* MoneroDaemonPollerRunnable.isTerminated
    pc,             \* where each polling thread is in run()
    last,           \* run()'s local lastHeader
    cursor,         \* entries visited by run()'s iteration over the list
    modified,       \* the list changed under that iteration
    seen,           \* MoneroDaemonListener.lastHeader of each listener
    wpc,            \* where each call is in getNextBlockHeader
    sync,           \* the calls that hold their syncObject's monitor
    result          \* what each call returned

pollerVars == <<runnable, isTerminated, pc>>
iteration  == <<lock, cursor, modified>>
callVars   == <<wpc, sync, result>>
vars == <<tip, listeners, pollerVars, iteration, last, seen, callVars>>

Listeners == AppListeners \cup Waiters
NoHeader  == 0              \* a header that is null
Tips      == 1..MaxTip

PollerState == {"new", "baseline", "check", "sleep", "locking", "iterate",
                "callback", "dead"}
CallState   == {"idle", "adding", "registered", "waiting", "notified",
                "removing", "returned", "threw"}

IsRegistered(l) == \E i \in 1..Len(listeners) : listeners[i] = l

Init ==
    /\ tip = 1
    /\ listeners = <<>>
    /\ runnable = Null
    /\ lock = Null
    /\ isTerminated = [p \in Pollers |-> FALSE]
    /\ pc = [p \in Pollers |-> "new"]
    /\ last = [p \in Pollers |-> NoHeader]
    /\ cursor = 0
    /\ modified = FALSE
    /\ seen = [l \in Listeners |-> NoHeader]
    /\ wpc = [w \in Waiters |-> "idle"]
    /\ sync = {}
    /\ result = [w \in Waiters |-> NoHeader]

(* The daemon adopts a new last block. *)
NewTip ==
    /\ tip < MaxTip
    /\ tip' = tip + 1
    /\ UNCHANGED <<listeners, pollerVars, iteration, last, seen, callVars>>

-----------------------------------------------------------------------------
(* The bodies of MoneroDaemonPoller.addListener and removeListener, run by *)
(* a thread that holds the list's monitor.                                 *)

Register(l) ==
    /\ Len(listeners) < MaxRegistrations
    /\ listeners' = Append(listeners, l)
    /\ \/ /\ runnable # Null
          /\ UNCHANGED pollerVars
       \/ /\ runnable = Null
          /\ \E p \in Pollers :
                /\ pc[p] = "new"
                /\ runnable' = p
                /\ pc' = [pc EXCEPT ![p] = "baseline"]
          /\ UNCHANGED isTerminated

(* mutation: the poller's reference to a terminated runnable is kept *)
UnregisterKeepsRunnable(l) ==
    \E i \in 1..Len(listeners) :
        /\ listeners[i] = l
        /\ listeners' = RemoveAt(listeners, i)
        /\ IF listeners' = <<>>
           THEN isTerminated' = [isTerminated EXCEPT ![runnable] = TRUE]
           ELSE UNCHANGED isTerminated
        /\ UNCHANGED runnable

(* mutation: the runnable is dropped without being told to terminate *)
UnregisterForgetsTerminate(l) ==
    \E i \in 1..Len(listeners) :
        /\ listeners[i] = l
        /\ listeners' = RemoveAt(listeners, i)
        /\ runnable' = IF listeners' = <<>> THEN Null ELSE runnable
        /\ UNCHANGED isTerminated

Unregister(l) ==
    /\ \E i \in 1..Len(listeners) :
          /\ listeners[i] = l
          /\ \A j \in 1..(i - 1) : listeners[j] # l
          /\ listeners' = RemoveAt(listeners, i)
    /\ IF listeners' = <<>>
       THEN /\ isTerminated' = [isTerminated EXCEPT ![runnable] = TRUE]
            /\ runnable' = Null
       ELSE UNCHANGED <<isTerminated, runnable>>

(* The application calls addListener, removeListener.  Removing a listener *)
(* that is not registered throws and changes nothing.                      *)
AddListener(l) ==
    /\ lock = Null
    /\ Register(l)
    /\ UNCHANGED <<tip, iteration, last, seen, callVars>>

RemoveListener(l) ==
    /\ lock = Null
    /\ Unregister(l)
    /\ UNCHANGED <<tip, pc, iteration, last, seen, callVars>>

-----------------------------------------------------------------------------
(* getNextBlockHeader: under its syncObject's monitor the call registers a *)
(* listener of its own, waits for one notification, and unregisters it.    *)

(* mutation: the listener is registered outside the syncObject's monitor *)
CallUnguarded(w) ==
    /\ wpc[w] = "idle"
    /\ wpc' = [wpc EXCEPT ![w] = "adding"]
    /\ UNCHANGED <<tip, listeners, pollerVars, iteration, last, seen, sync, result>>

Call(w) ==
    /\ wpc[w] = "idle"
    /\ wpc' = [wpc EXCEPT ![w] = "adding"]
    /\ sync' = sync \cup {w}
    /\ UNCHANGED <<tip, listeners, pollerVars, iteration, last, seen, result>>

CallRegisters(w) ==
    /\ wpc[w] = "adding"
    /\ lock = Null
    /\ Register(w)
    /\ wpc' = [wpc EXCEPT ![w] = "registered"]
    /\ UNCHANGED <<tip, iteration, last, seen, sync, result>>

(* wait() gives the monitor back and joins the wait set. *)
CallWaits(w) ==
    /\ wpc[w] = "registered"
    /\ wpc' = [wpc EXCEPT ![w] = "waiting"]
    /\ sync' = sync \ {w}
    /\ UNCHANGED <<tip, listeners, pollerVars, iteration, last, seen, result>>

SpuriousWakeup(w) ==
    /\ SpuriousWakeups
    /\ wpc[w] = "waiting"
    /\ wpc' = [wpc EXCEPT ![w] = "notified"]
    /\ UNCHANGED <<tip, listeners, pollerVars, iteration, last, seen, sync, result>>

(* wait() throws InterruptedException: the handler throws a MoneroError and *)
(* the call's listener stays in the list.                                   *)
CallInterrupted(w) ==
    /\ Interrupts
    /\ wpc[w] = "waiting"
    /\ wpc' = [wpc EXCEPT ![w] = "threw"]
    /\ UNCHANGED <<tip, listeners, pollerVars, iteration, last, seen, sync, result>>

(* The woken thread takes its syncObject's monitor again. *)
CallResumes(w) ==
    /\ wpc[w] = "notified"
    /\ w \notin sync
    /\ wpc' = [wpc EXCEPT ![w] = "removing"]
    /\ sync' = sync \cup {w}
    /\ UNCHANGED <<tip, listeners, pollerVars, iteration, last, seen, result>>

(* mutation: the call returns without unregistering its listener *)
CallReturnsRegistered(w) ==
    /\ wpc[w] = "removing"
    /\ wpc' = [wpc EXCEPT ![w] = "returned"]
    /\ sync' = sync \ {w}
    /\ result' = [result EXCEPT ![w] = seen[w]]
    /\ UNCHANGED <<tip, listeners, pollerVars, iteration, last, seen>>

CallReturns(w) ==
    /\ wpc[w] = "removing"
    /\ lock = Null
    /\ Unregister(w)
    /\ wpc' = [wpc EXCEPT ![w] = "returned"]
    /\ sync' = sync \ {w}
    /\ result' = [result EXCEPT ![w] = seen[w]]
    /\ UNCHANGED <<tip, pc, iteration, last, seen>>

-----------------------------------------------------------------------------
(* MoneroDaemonPollerRunnable.run. *)

(* An exception leaves run(): the thread is gone, the monitor it may hold  *)
(* is released, and runnable still refers to it.                           *)
Dies(p) ==
    /\ pc' = [pc EXCEPT ![p] = "dead"]
    /\ lock' = IF lock = p THEN Null ELSE lock
    /\ UNCHANGED <<tip, listeners, runnable, isTerminated, cursor, modified, last, callVars>>

(* mutation: an exception is swallowed and leaves a null header to compare with *)
BaselineNull(p) ==
    /\ pc[p] = "baseline"
    /\ last' = [last EXCEPT ![p] = Null]
    /\ pc' = [pc EXCEPT ![p] = "check"]
    /\ UNCHANGED <<tip, listeners, runnable, isTerminated, iteration, seen, callVars>>

Baseline(p) ==
    /\ pc[p] = "baseline"
    /\ last' = [last EXCEPT ![p] = tip]
    /\ pc' = [pc EXCEPT ![p] = "check"]
    /\ UNCHANGED <<tip, listeners, runnable, isTerminated, iteration, seen, callVars>>

RpcFails(p) ==
    /\ RpcFailures
    /\ pc[p] \in {"baseline", "sleep"}
    /\ Dies(p)
    /\ UNCHANGED seen

(* The while condition.  isTerminated is neither volatile nor read under   *)
(* the monitor terminate() is called under, so a set flag may be missed.   *)
Continue(p) ==
    /\ pc[p] = "check"
    /\ pc' = [pc EXCEPT ![p] = "sleep"]
    /\ UNCHANGED <<tip, listeners, runnable, isTerminated, iteration, last, seen, callVars>>

(* mutation: the loop does not look at the flag *)
NeverExits(p) == FALSE

Exit(p) ==
    /\ pc[p] = "check"
    /\ isTerminated[p]
    /\ pc' = [pc EXCEPT ![p] = "dead"]
    /\ UNCHANGED <<tip, listeners, runnable, isTerminated, iteration, last, seen, callVars>>

(* sleep throws InterruptedException: the runnable terminates itself, but  *)
(* completes this round.                                                   *)
SleepInterrupted(p) ==
    /\ Interrupts
    /\ pc[p] = "sleep"
    /\ isTerminated' = [isTerminated EXCEPT ![p] = TRUE]
    /\ UNCHANGED <<tip, listeners, runnable, pc, iteration, last, seen, callVars>>

(* After the interval the last header is fetched and compared. *)
Fetch(p) ==
    /\ pc[p] = "sleep"
    /\ IF tip # last[p]
       THEN /\ last' = [last EXCEPT ![p] = tip]
            /\ pc' = [pc EXCEPT ![p] = "locking"]
       ELSE /\ pc' = [pc EXCEPT ![p] = "check"]
            /\ UNCHANGED last
    /\ UNCHANGED <<tip, listeners, runnable, isTerminated, iteration, seen, callVars>>

(* mutation: the list is iterated without its monitor *)
EnterUnlocked(p) ==
    /\ pc[p] = "locking"
    /\ lock' = p
    /\ cursor' = 0
    /\ modified' = FALSE
    /\ pc' = [pc EXCEPT ![p] = "iterate"]
    /\ UNCHANGED <<tip, listeners, runnable, isTerminated, last, seen, callVars>>

(* mutation: the iteration goes on where the previous one ended *)
EnterKeepsCursor(p) ==
    /\ pc[p] = "locking"
    /\ lock = Null
    /\ lock' = p
    /\ modified' = FALSE
    /\ pc' = [pc EXCEPT ![p] = "iterate"]
    /\ UNCHANGED <<tip, listeners, runnable, isTerminated, cursor, last, seen, callVars>>

Enter(p) ==
    /\ pc[p] = "locking"
    /\ lock = Null
    /\ lock' = p
    /\ cursor' = 0
    /\ modified' = FALSE
    /\ pc' = [pc EXCEPT ![p] = "iterate"]
    /\ UNCHANGED <<tip, listeners, runnable, isTerminated, last, seen, callVars>>

(* ArrayList's iterator: hasNext() compares the cursor with the size, and  *)
(* next() throws ConcurrentModificationException if the list has changed.  *)
HasNext == cursor # Len(listeners)
Current == listeners[cursor + 1]

Leave(p) ==
    /\ pc[p] = "iterate"
    /\ ~HasNext
    /\ lock' = Null
    /\ pc' = [pc EXCEPT ![p] = "check"]
    /\ UNCHANGED <<tip, listeners, runnable, isTerminated, cursor, modified, last, seen, callVars>>

ConcurrentModification(p) ==
    /\ pc[p] = "iterate"
    /\ HasNext
    /\ modified
    /\ Dies(p)
    /\ UNCHANGED seen

Notifies(p, l) ==
    /\ pc[p] = "iterate"
    /\ HasNext
    /\ ~modified
    /\ l = Current
    /\ seen' = [seen EXCEPT ![l] = last[p]]

NotifyPlain(p, l) ==
    /\ Notifies(p, l)
    /\ l \in AppListeners \ (OneShot \cup Throwing)
    /\ cursor' = cursor + 1
    /\ UNCHANGED <<tip, listeners, pollerVars, lock, modified, last, callVars>>

(* The callback unregisters its listener: the thread already owns the      *)
(* monitor, so removeListener runs inside the iteration.                   *)
NotifyOneShot(p, l) ==
    /\ Notifies(p, l)
    /\ l \in OneShot
    /\ Unregister(l)
    /\ cursor' = cursor + 1
    /\ modified' = TRUE
    /\ UNCHANGED <<tip, pc, lock, last, callVars>>

NotifyThrowing(p, l) ==
    /\ Notifies(p, l)
    /\ l \in Throwing
    /\ Dies(p)

(* The listener of a getNextBlockHeader call stores the header first and   *)
(* takes the call's syncObject afterwards.                                 *)
NotifyCall(p, w) ==
    /\ Notifies(p, w)
    /\ w \in Waiters
    /\ pc' = [pc EXCEPT ![p] = "callback"]
    /\ UNCHANGED <<tip, listeners, runnable, isTerminated, iteration, last, callVars>>

(* mutation: the callback does not wake the waiting thread *)
NotifyNobody(p, w) ==
    /\ pc[p] = "callback"
    /\ w = Current
    /\ w \notin sync
    /\ cursor' = cursor + 1
    /\ pc' = [pc EXCEPT ![p] = "iterate"]
    /\ UNCHANGED <<tip, listeners, runnable, isTerminated, lock, modified, last, seen, callVars>>

NotifyAll(p, w) ==
    /\ pc[p] = "callback"
    /\ w = Current
    /\ w \notin sync
    /\ wpc' = [wpc EXCEPT ![w] = IF @ = "waiting" THEN "notified" ELSE @]
    /\ cursor' = cursor + 1
    /\ pc' = [pc EXCEPT ![p] = "iterate"]
    /\ UNCHANGED <<tip, listeners, runnable, isTerminated, lock, modified, last, seen, sync, result>>

-----------------------------------------------------------------------------
PollerStep(p) ==
    \/ Baseline(p) \/ RpcFails(p)
    \/ Continue(p) \/ Exit(p) \/ SleepInterrupted(p) \/ Fetch(p)
    \/ Enter(p) \/ Leave(p) \/ ConcurrentModification(p)
    \/ \E l \in Listeners :
          NotifyPlain(p, l) \/ NotifyOneShot(p, l) \/ NotifyThrowing(p, l)
    \/ \E w \in Waiters : NotifyCall(p, w) \/ NotifyAll(p, w)

CallStep(w) ==
    \/ Call(w) \/ CallRegisters(w) \/ CallWaits(w)
    \/ SpuriousWakeup(w) \/ CallInterrupted(w)
    \/ CallResumes(w) \/ CallReturns(w)

Next ==
    \/ NewTip
    \/ \E l \in AppListeners : AddListener(l) \/ RemoveListener(l)
    \/ \E w \in Waiters : CallStep(w)
    \/ \E p \in Pollers : PollerStep(p)

Spec == Init /\ [][Next]_vars

(***************************************************************************)
(* A running thread keeps running: each polling thread takes its next      *)
(* step, and a call that has begun takes its next step.  Nothing obliges   *)
(* the chain to grow, the application to call, or an RPC to fail.  A       *)
(* termination flag that was set is not missed for ever: sleep and the RPC *)
(* are opaque to the JIT, which therefore reloads the flag each round.     *)
(* A monitor that becomes free again and again could starve a thread in    *)
(* principle; here it is taken only finitely often once the tip stops.     *)
(***************************************************************************)
Fairness ==
    /\ \A p \in Pollers :
          /\ WF_vars(Baseline(p) \/ Continue(p) \/ Fetch(p) \/ Enter(p) \/ Leave(p)
                     \/ ConcurrentModification(p)
                     \/ (\E l \in Listeners : NotifyPlain(p, l) \/ NotifyOneShot(p, l)
                                              \/ NotifyThrowing(p, l))
                     \/ (\E w \in Waiters : NotifyCall(p, w) \/ NotifyAll(p, w)))
          /\ SF_vars(Exit(p))
    /\ \A w \in Waiters :
          WF_vars(CallRegisters(w) \/ CallWaits(w) \/ CallResumes(w) \/ CallReturns(w))

FairSpec == Spec /\ Fairness

-----------------------------------------------------------------------------
(* Every variable has its type. *)
TypeOK ==
    /\ tip \in Tips
    /\ listeners \in Seq(Listeners)
    /\ runnable \in Pollers \cup {Null}
    /\ lock \in Pollers \cup {Null}
    /\ isTerminated \in [Pollers -> BOOLEAN]
    /\ pc \in [Pollers -> PollerState]
    /\ last \in [Pollers -> Tips \cup {NoHeader}]
    /\ cursor \in Nat
    /\ modified \in BOOLEAN
    /\ seen \in [Listeners -> Tips \cup {NoHeader}]
    /\ wpc \in [Waiters -> CallState]
    /\ sync \subseteq Waiters
    /\ result \in [Waiters -> Tips \cup {NoHeader}]

Notifying(p) == pc[p] \in {"iterate", "callback"}

(* Listeners are never called by two polling threads at once, although a   *)
(* terminated runnable and its successor may both be running.              *)
OneNotifier == \A p, q \in Pollers : Notifying(p) /\ Notifying(q) => p = q

(* There is a runnable to terminate exactly while somebody listens, also   *)
(* when listeners unregister themselves while they are notified.           *)
PollingIffListening == runnable = Null <=> listeners = <<>>

(* A polling thread that was not told to terminate is the one removeListener *)
(* would terminate: no thread polls for ever with nobody able to stop it.   *)
NoOrphanRunnable ==
    \A p \in Pollers : pc[p] # "new" /\ ~isTerminated[p] => runnable = p

(* A getNextBlockHeader call that waits has not been notified already: a   *)
(* notification can be under way, but none was sent before the call waits. *)
NoLostNotification ==
    \A w \in Waiters :
        wpc[w] \in {"registered", "waiting"} /\ seen[w] # NoHeader =>
            \E p \in Pollers : pc[p] = "callback" /\ Current = w

(* A getNextBlockHeader call that has returned left no listener behind,    *)
(* which would keep the daemon polled for ever.                            *)
ReturnedUnregistered == \A w \in Waiters : wpc[w] = "returned" => ~IsRegistered(w)

(* As long as nothing changed the list under the iteration, every listener *)
(* before the cursor has been given the header of the round.               *)
RoundReachesAll ==
    \A p \in Pollers : Notifying(p) /\ ~modified =>
        /\ cursor <= Len(listeners)
        /\ \A i \in 1..cursor : seen[listeners[i]] = last[p]

-----------------------------------------------------------------------------
(* The inductive invariant behind the safety properties. *)

(* The list's monitor is held by the thread that iterates over the list. *)
MonitorInv == \A p \in Pollers : Notifying(p) <=> lock = p

(* A thread blocked in the callback of a call is in the middle of an       *)
(* iteration nothing interferes with.                                      *)
CallbackInv ==
    \A p \in Pollers : pc[p] = "callback" =>
        /\ ~modified
        /\ cursor < Len(listeners)
        /\ Current \in Waiters
        /\ seen[Current] = last[p]

(* Each call holds its monitor, and has its listener in the list, during   *)
(* the right part of getNextBlockHeader.                                   *)
CallInv ==
    \A w \in Waiters :
        /\ w \in sync <=> wpc[w] \in {"adding", "registered", "removing"}
        /\ wpc[w] \in {"idle", "adding"} => ~IsRegistered(w) /\ seen[w] = NoHeader

(* A call's listener is in the list at most once. *)
OnceInv ==
    \A i, j \in 1..Len(listeners) :
        listeners[i] \in Waiters /\ listeners[i] = listeners[j] => i = j

InductiveInv ==
    /\ TypeOK
    /\ MonitorInv
    /\ PollingIffListening
    /\ NoOrphanRunnable
    /\ RoundReachesAll
    /\ CallbackInv
    /\ CallInv
    /\ OnceInv
    /\ NoLostNotification
    /\ ReturnedUnregistered

-----------------------------------------------------------------------------
(* Liveness. *)

(* The deadlock of getNextBlockHeader: a call that was notified holds its   *)
(* syncObject and needs the list's monitor, the polling thread that holds  *)
(* the monitor notifies the call again and needs its syncObject.  What     *)
(* follows says that nothing but this keeps anybody waiting.               *)
Deadlocked ==
    \E p \in Pollers, w \in Waiters :
        pc[p] = "callback" /\ Current = w /\ wpc[w] = "removing"

(* A polling thread that was told to terminate ends, wherever it was when   *)
(* its flag was set.                                                       *)
TerminatedExits ==
    \A p \in Pollers : isTerminated[p] ~> (pc[p] = "dead" \/ Deadlocked)

Polls(p) == runnable = p /\ pc[p] \in PollerState \ {"new", "baseline"}

(* MoneroDaemon.addListener: "Register a listener to be notified when      *)
(* blocks are added to the chain."  Once the poller has its first header,  *)
(* a registered listener is told of a later tip (or of a newer one), or it *)
(* is unregistered.                                                        *)
ListenersHear ==
    \A l \in AppListeners, t \in Tips :
        (IsRegistered(l) /\ tip = t /\ \E p \in Pollers : Polls(p) /\ last[p] < t)
            ~> (seen[l] >= t \/ ~IsRegistered(l) \/ Deadlocked)

(* A getNextBlockHeader call returns after the first block that its poller *)
(* can notice.                                                             *)
CallReturnsOnNewBlock ==
    \A w \in Waiters :
        (wpc[w] = "waiting" /\ \E p \in Pollers : Polls(p) /\ last[p] < tip)
            ~> (wpc[w] = "returned" \/ Deadlocked)

-----------------------------------------------------------------------------
(* What the documentation says, and the code does not do. *)

(* MoneroDaemon.getNextBlockHeader: "Get the header of the next block added *)
(* to the chain": a call that was notified of it returns.                   *)
NotifiedCallReturns ==
    \A w \in Waiters : wpc[w] = "notified" ~> wpc[w] = "returned"

=============================================================================
