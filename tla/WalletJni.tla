----------------------------- MODULE WalletJni -----------------------------
(***************************************************************************)
(* Listeners and life of a native wallet: MoneroWalletJni (Java) and       *)
(* monero_wallet_jni_bridge.cpp.                                           *)
(*                                                                         *)
(* The Java wallet keeps the application's listeners and the handle of the *)
(* one native listener that the bridge registers with the C++ wallet while *)
(* there are any.  The C++ wallet notifies from the thread inside sync()   *)
(* and from a background thread; a notification holds _listenerMutex, as   *)
(* does the destructor of a native listener, and nothing else is           *)
(* synchronized.                                                           *)
(*                                                                         *)
(* A caller is an application thread, or Callback: the code of a listener, *)
(* which calls the wallet on the thread that notifies it, while that       *)
(* thread holds the mutex.  Each caller runs one method at a time, step by *)
(* step.  The five kinds of notifications differ only in what they carry.  *)
(***************************************************************************)
EXTENDS Naturals, FiniteSets

CONSTANTS
    Apps,          \* application threads that use the wallet
    Callback,      \* the listener code that calls the wallet
    Background,    \* the C++ wallet's synchronizing thread
    Listeners,     \* the application's listeners
    Reentrant,     \* those that call the wallet when they are notified
    Throwing,      \* those that throw when they are notified
    None,          \* no listener, a null handle
    Natives,       \* addresses for native listeners; bounds those alive at once
    AppMethods,    \* the methods that applications call
    CallbackMethods \* the methods that reentrant listeners call

Methods == {"addListener", "removeListener", "sync", "startSyncing",
            "stopSyncing", "close", "asserted", "unasserted"}

ASSUME ConstantsAssumption ==
    /\ Callback \notin Apps
    /\ Background \notin Apps
    /\ Reentrant \subseteq Listeners
    /\ Throwing \subseteq Listeners \ Reentrant
    /\ None \notin Listeners \cup Natives \cup Apps \cup {Background}
    /\ AppMethods \subseteq Methods
    /\ CallbackMethods \subseteq Methods \ {"sync"}

VARIABLES
    isClosed,      \* MoneroWalletJni.isClosed
    listeners,     \* MoneroWalletJni.listeners
    handle,        \* MoneroWalletJni.jniListenerHandle
    walletAlive,   \* the C++ wallet has not been deleted
    syncing,       \* the C++ wallet synchronizes in the background
    registered,    \* the C++ wallet's listeners
    alive,         \* the native listeners that have not been deleted
    mutex,         \* the notifying thread that holds _listenerMutex
    method, arg,   \* the method each caller runs, or ran last
    pc,            \* where it is in it
    old, new,      \* setListenerJni's old_listener and listener
    synced,        \* what syncJni did: "pending", "ok" or "threw"
    outcome,       \* how each caller's last method ended
    phase,         \* where each notifying thread is
    target,        \* the native listener it notifies
    todo,          \* the listeners it has yet to tell
    dirty          \* the listeners changed while it copied them

javaVars   == <<isClosed, listeners, handle>>
nativeVars == <<walletAlive, syncing, registered, alive>>
callVars   == <<method, arg, pc, old, new, synced, outcome>>
noteVars   == <<mutex, phase, target, todo, dirty>>
vars == <<javaVars, nativeVars, callVars, noteVars>>

Callers   == Apps \cup {Callback}
Notifiers == Apps \cup {Background}
Args      == Listeners \cup {None}

Labels == {"idle", "body", "removed", "listen", "unregister", "delete", "make",
           "store", "syncing", "finally", "destroy", "undefined"}
Phases == {"quiet", "calling", "entered", "copying", "telling", "inside"}

Init ==
    /\ isClosed = FALSE
    /\ listeners = {}
    /\ handle = None
    /\ walletAlive = TRUE
    /\ syncing = FALSE
    /\ registered = {}
    /\ alive = {}
    /\ mutex = None
    /\ method = [c \in Callers |-> "asserted"]
    /\ arg = [c \in Callers |-> None]
    /\ pc = [c \in Callers |-> "idle"]
    /\ old = [c \in Callers |-> None]
    /\ new = [c \in Callers |-> None]
    /\ synced = [c \in Callers |-> "ok"]
    /\ outcome = [c \in Callers |-> "ok"]
    /\ phase = [n \in Notifiers |-> "quiet"]
    /\ target = [n \in Notifiers |-> None]
    /\ todo = [n \in Notifiers |-> {}]
    /\ dirty = {}

-----------------------------------------------------------------------------
(* Steps of a caller inside a method. *)

Goto(c, label) ==
    /\ pc' = [pc EXCEPT ![c] = label]
    /\ UNCHANGED outcome

Return(c, result) ==
    /\ pc' = [pc EXCEPT ![c] = "idle"]
    /\ outcome' = [outcome EXCEPT ![c] = result]

(* A native method is called; on a deleted C++ wallet that is undefined,   *)
(* and the model follows the caller no further.                            *)
NativeCall(c) == pc[c] = "body" /\ walletAlive
Undefined(c)  == Goto(c, "undefined")

(* listeners is replaced; a thread that is copying the set may notice. *)
SetListeners(S) ==
    /\ listeners' = S
    /\ dirty' = IF S = listeners THEN dirty
                ELSE dirty \cup {n \in Notifiers : phase[n] = "copying"}

(* Methods that do not assert that the wallet is not closed. *)
Unasserted == {"close", "unasserted"}

(* mutation: close does not mark the wallet as closed *)
BeginStaysOpen(c, m, l) ==
    /\ pc[c] = "idle"
    /\ method' = [method EXCEPT ![c] = m]
    /\ arg' = [arg EXCEPT ![c] = l]
    /\ synced' = [synced EXCEPT ![c] = IF m = "sync" THEN "pending" ELSE "ok"]
    /\ Goto(c, IF m = "close" THEN "listen" ELSE "body")
    /\ UNCHANGED <<old, new, isClosed>>

(* The method is called: assertNotClosed, and close's first two lines. *)
Begin(c, m, l) ==
    /\ pc[c] = "idle"
    /\ method' = [method EXCEPT ![c] = m]
    /\ arg' = [arg EXCEPT ![c] = l]
    /\ synced' = [synced EXCEPT ![c] = IF m = "sync" THEN "pending" ELSE "ok"]
    /\ \/ /\ isClosed
          /\ m \notin Unasserted
          /\ Return(c, "threw")
          /\ UNCHANGED isClosed
       \/ /\ isClosed
          /\ m = "close"
          /\ Return(c, "ok")
          /\ UNCHANGED isClosed
       \/ /\ ~isClosed
          /\ m = "close"
          /\ isClosed' = TRUE
          /\ Goto(c, "listen")
       \/ /\ m = "unasserted" \/ (~isClosed /\ m # "close")
          /\ Goto(c, "body")
          /\ UNCHANGED isClosed
    /\ UNCHANGED <<old, new>>

(* The listener that a method takes, which only sync's may be null. *)
TakesListener(m, l) ==
    /\ m \in {"addListener", "removeListener"} => l \in Listeners
    /\ m \notin {"addListener", "removeListener", "sync"} => l = None

CallMethod(c, m, l) ==
    /\ c \in Apps
    /\ m \in AppMethods
    /\ TakesListener(m, l)
    /\ Begin(c, m, l)
    /\ UNCHANGED <<listeners, handle, nativeVars, noteVars>>

-----------------------------------------------------------------------------
(* The bodies of the methods. *)

inMethod == <<method, arg>>   \* what a running method leaves alone

AddListener(c) ==
    /\ pc[c] = "body"
    /\ method[c] = "addListener"
    /\ SetListeners(listeners \cup {arg[c]})
    /\ Goto(c, "listen")
    /\ UNCHANGED <<isClosed, handle, nativeVars, inMethod, old, new, synced,
                   mutex, phase, target, todo>>

(* removeListener, called by the application or by sync's finally. *)
RemoveListener(c) ==
    /\ \/ pc[c] = "body" /\ method[c] = "removeListener"
       \/ pc[c] = "finally"
    /\ \/ /\ (pc[c] = "finally" /\ isClosed) \/ arg[c] \notin listeners
          /\ Return(c, "threw")
          /\ UNCHANGED <<listeners, dirty>>
       \/ /\ ~(pc[c] = "finally" /\ isClosed)
          /\ arg[c] \in listeners
          /\ SetListeners(listeners \ {arg[c]})
          /\ Goto(c, "removed")
    /\ UNCHANGED <<isClosed, handle, nativeVars, inMethod, old, new, synced,
                   mutex, phase, target, todo>>

(* mutation: listening goes on when the last listener was removed *)
KeepListening(c) ==
    /\ pc[c] = "removed"
    /\ Return(c, synced[c])
    /\ UNCHANGED <<javaVars, nativeVars, inMethod, old, new, synced, noteVars>>

StopListeningIfEmpty(c) ==
    /\ pc[c] = "removed"
    /\ IF listeners = {} THEN Goto(c, "listen") ELSE Return(c, synced[c])
    /\ UNCHANGED <<javaVars, nativeVars, inMethod, old, new, synced, noteVars>>

(* sync asks the C++ wallet where to start and registers its listener with *)
(* addListener, which asserts once more.                                   *)
Sync(c) ==
    /\ NativeCall(c)
    /\ method[c] = "sync"
    /\ \/ arg[c] = None /\ Goto(c, "syncing") /\ UNCHANGED <<listeners, dirty>>
       \/ /\ arg[c] # None /\ isClosed
          /\ Return(c, "threw")
          /\ UNCHANGED <<listeners, dirty>>
       \/ /\ arg[c] # None /\ ~isClosed
          /\ SetListeners(listeners \cup {arg[c]})
          /\ Goto(c, "listen")
    /\ UNCHANGED <<isClosed, handle, nativeVars, inMethod, old, new, synced,
                   mutex, phase, target, todo>>

(* syncJni returns or throws, and the finally block begins. *)
SyncEnds(c, result) ==
    /\ pc[c] = "syncing"
    /\ walletAlive
    /\ phase[c] = "quiet"
    /\ synced' = [synced EXCEPT ![c] = result]
    /\ IF arg[c] = None THEN Return(c, result) ELSE Goto(c, "finally")
    /\ UNCHANGED <<javaVars, nativeVars, inMethod, old, new, noteVars>>

StartSyncing(c) ==
    /\ NativeCall(c)
    /\ method[c] = "startSyncing"
    /\ syncing' = TRUE
    /\ Return(c, "ok")
    /\ UNCHANGED <<javaVars, walletAlive, registered, alive, inMethod, old, new,
                   synced, noteVars>>

StopSyncing(c) ==
    /\ NativeCall(c)
    /\ method[c] = "stopSyncing"
    /\ syncing' = FALSE
    /\ Return(c, "ok")
    /\ UNCHANGED <<javaVars, walletAlive, registered, alive, inMethod, old, new,
                   synced, noteVars>>

(* Every other method only calls the C++ wallet and may throw. *)
OtherMethod(c, result) ==
    /\ NativeCall(c)
    /\ method[c] \in {"asserted", "unasserted"}
    /\ Return(c, result)
    /\ UNCHANGED <<javaVars, nativeVars, inMethod, old, new, synced, noteVars>>

(* closeJni deletes the C++ wallet, which waits for its background thread. *)
Destroy(c) ==
    /\ pc[c] = "destroy"
    /\ walletAlive
    /\ phase[Background] = "quiet"
    /\ walletAlive' = FALSE
    /\ syncing' = FALSE
    /\ registered' = {}
    /\ Return(c, "ok")
    /\ UNCHANGED <<javaVars, alive, inMethod, old, new, synced, noteVars>>

(* The listener to be enabled: addListener's, and sync's before it syncs. *)
IsEnabled(c) == method[c] = "addListener" \/ (method[c] = "sync" /\ synced[c] = "pending")

(* A native method uses the wallet's handle, which closeJni left behind. *)
CallDeletedWallet(c) ==
    /\ ~walletAlive
    /\ \/ pc[c] \in {"unregister", "syncing", "destroy"}
       \/ pc[c] = "make" /\ IsEnabled(c)
       \/ pc[c] = "body" /\ method[c] \notin {"addListener", "removeListener"}
    /\ Undefined(c)
    /\ UNCHANGED <<javaVars, nativeVars, inMethod, old, new, synced, noteVars>>

-----------------------------------------------------------------------------
(* setIsListening and setListenerJni. *)

GetOldListener(c) ==
    /\ pc[c] = "listen"
    /\ old' = [old EXCEPT ![c] = handle]
    /\ Goto(c, IF handle = None THEN "make" ELSE "unregister")
    /\ UNCHANGED <<javaVars, nativeVars, inMethod, new, synced, noteVars>>

(* mutation: the old listener is deleted but stays registered *)
KeepOldListener(c) ==
    /\ pc[c] = "unregister"
    /\ walletAlive
    /\ Goto(c, "delete")
    /\ UNCHANGED <<javaVars, nativeVars, inMethod, old, new, synced, noteVars>>

RemoveOldListener(c) ==
    /\ pc[c] = "unregister"
    /\ walletAlive
    /\ registered' = registered \ {old[c]}
    /\ Goto(c, "delete")
    /\ UNCHANGED <<javaVars, walletAlive, syncing, alive, inMethod, old, new,
                   synced, noteVars>>

(* mutation: the destructor does not take the mutex *)
DeleteUnlocked(c) ==
    /\ pc[c] = "delete"
    /\ alive' = alive \ {old[c]}
    /\ old' = [old EXCEPT ![c] = None]
    /\ Goto(c, "make")
    /\ UNCHANGED <<javaVars, walletAlive, syncing, registered, inMethod, new,
                   synced, noteVars>>

(* The destructor takes the mutex, which a thread that notifies never gives *)
(* to the callback it runs.  A listener that another thread deleted before  *)
(* is deleted once more: either nothing more happens, or the process ends. *)
DeleteOldListener(c) ==
    /\ pc[c] = "delete"
    /\ mutex = None
    /\ alive' = alive \ {old[c]}
    /\ old' = [old EXCEPT ![c] = None]
    /\ Goto(c, "make")
    /\ UNCHANGED <<javaVars, walletAlive, syncing, registered, inMethod, new,
                   synced, noteVars>>

MakeListener(c) ==
    /\ pc[c] = "make"
    /\ \/ /\ ~IsEnabled(c)
          /\ new' = [new EXCEPT ![c] = None]
          /\ UNCHANGED <<registered, alive>>
       \/ /\ IsEnabled(c)
          /\ walletAlive
          /\ \E n \in Natives \ alive :
                /\ new' = [new EXCEPT ![c] = n]
                /\ alive' = alive \cup {n}
                /\ registered' = registered \cup {n}
    /\ Goto(c, "store")
    /\ UNCHANGED <<javaVars, walletAlive, syncing, inMethod, old, synced, noteVars>>

(* What a method does after setIsListening. *)
ContinueMethod(c) ==
    \/ method[c] = "close" /\ Goto(c, "destroy")
    \/ method[c] = "sync" /\ synced[c] = "pending" /\ Goto(c, "syncing")
    \/ /\ method[c] # "close" /\ ~(method[c] = "sync" /\ synced[c] = "pending")
       /\ Return(c, synced[c])

(* mutation: the handle is assigned the Java listener *)
StoreJavaListener(c) ==
    /\ pc[c] = "store"
    /\ handle' = arg[c]
    /\ new' = [new EXCEPT ![c] = None]
    /\ ContinueMethod(c)
    /\ UNCHANGED <<isClosed, listeners, nativeVars, inMethod, old, synced, noteVars>>

(* jniListenerHandle is assigned and setIsListening returns to its caller. *)
StoreHandle(c) ==
    /\ pc[c] = "store"
    /\ handle' = new[c]
    /\ new' = [new EXCEPT ![c] = None]
    /\ ContinueMethod(c)
    /\ UNCHANGED <<isClosed, listeners, nativeVars, inMethod, old, synced, noteVars>>

CallerStep(c) ==
    \/ AddListener(c) \/ RemoveListener(c) \/ StopListeningIfEmpty(c)
    \/ Sync(c) \/ StartSyncing(c) \/ StopSyncing(c)
    \/ \E r \in {"ok", "threw"} : SyncEnds(c, r) \/ OtherMethod(c, r)
    \/ Destroy(c) \/ CallDeletedWallet(c)
    \/ GetOldListener(c) \/ RemoveOldListener(c) \/ DeleteOldListener(c)
    \/ MakeListener(c) \/ StoreHandle(c)

-----------------------------------------------------------------------------
(* Notifications. *)

Delivering(n) == phase[n] \in {"entered", "copying", "telling", "inside"}

Synchronizes(n) == (n = Background /\ syncing) \/ (n \in Apps /\ pc[n] = "syncing")

(* The C++ wallet calls one of its listeners. *)
Notify(n) ==
    /\ walletAlive
    /\ Synchronizes(n)
    /\ phase[n] = "quiet"
    /\ \E x \in registered : target' = [target EXCEPT ![n] = x]
    /\ phase' = [phase EXCEPT ![n] = "calling"]
    /\ UNCHANGED <<javaVars, nativeVars, callVars, mutex, todo, dirty>>

(* mutation: a deleted listener is waited for *)
EnterAlive(n) ==
    /\ phase[n] = "calling"
    /\ mutex = None
    /\ target[n] \in alive
    /\ mutex' = n
    /\ phase' = [phase EXCEPT ![n] = "entered"]
    /\ UNCHANGED <<javaVars, nativeVars, callVars, target, todo, dirty>>

(* The native listener takes the mutex.  One that was deleted meanwhile    *)
(* finds its jlistener null and returns, or is a new listener, made at its *)
(* address; that the freed memory holds anything else ends the process.    *)
EnterListener(n) ==
    /\ phase[n] = "calling"
    /\ mutex = None
    /\ IF target[n] \in alive
       THEN /\ mutex' = n
            /\ phase' = [phase EXCEPT ![n] = "entered"]
            /\ UNCHANGED target
       ELSE /\ phase' = [phase EXCEPT ![n] = "quiet"]
            /\ target' = [target EXCEPT ![n] = None]
            /\ UNCHANGED mutex
    /\ UNCHANGED <<javaVars, nativeVars, callVars, todo, dirty>>

(* mutation: the mutex stays locked *)
ReleaseNothing(n) ==
    /\ phase' = [phase EXCEPT ![n] = "quiet"]
    /\ target' = [target EXCEPT ![n] = None]
    /\ todo' = [todo EXCEPT ![n] = {}]
    /\ dirty' = dirty \ {n}
    /\ UNCHANGED mutex

(* The notification ends: the mutex is released. *)
Release(n) ==
    /\ mutex' = None
    /\ phase' = [phase EXCEPT ![n] = "quiet"]
    /\ target' = [target EXCEPT ![n] = None]
    /\ todo' = [todo EXCEPT ![n] = {}]
    /\ dirty' = dirty \ {n}

(* A Java exception becomes a C++ exception, which ends the native sync of *)
(* the thread; the background thread goes on.                              *)
FailNotification(n) ==
    /\ Release(n)
    /\ IF n \in Apps /\ pc[n] = "syncing"
       THEN /\ synced' = [synced EXCEPT ![n] = "threw"]
            /\ IF arg[n] = None THEN Return(n, "threw") ELSE Goto(n, "finally")
       ELSE UNCHANGED <<pc, outcome, synced>>
    /\ UNCHANGED <<javaVars, nativeVars, inMethod, old, new>>

(* getListeners: asserts that the wallet is not closed, copies the set.    *)
BeginCopy(n) ==
    /\ phase[n] = "entered"
    /\ \/ isClosed /\ FailNotification(n)
       \/ /\ ~isClosed
          /\ phase' = [phase EXCEPT ![n] = "copying"]
          /\ UNCHANGED <<javaVars, nativeVars, callVars, mutex, target, todo, dirty>>

(* The set is not synchronized: a change that the copying iterator notices *)
(* is a ConcurrentModificationException.                                   *)
EndCopy(n) ==
    /\ phase[n] = "copying"
    /\ phase' = [phase EXCEPT ![n] = "telling"]
    /\ todo' = [todo EXCEPT ![n] = listeners]
    /\ dirty' = dirty \ {n}
    /\ UNCHANGED <<javaVars, nativeVars, callVars, mutex, target>>

ConcurrentModification(n) ==
    /\ phase[n] = "copying"
    /\ n \in dirty
    /\ FailNotification(n)

(* A listener returns without calling the wallet, as a reentrant one may. *)
Tell(n, l) ==
    /\ phase[n] = "telling"
    /\ l \in todo[n] \ Throwing
    /\ todo' = [todo EXCEPT ![n] = @ \ {l}]
    /\ UNCHANGED <<javaVars, nativeVars, callVars, mutex, phase, target, dirty>>

TellThrowing(n, l) ==
    /\ phase[n] = "telling"
    /\ l \in todo[n] \cap Throwing
    /\ FailNotification(n)

(* The listener calls a method of the wallet. *)
TellReentrant(n, l, m, x) ==
    /\ phase[n] = "telling"
    /\ l \in todo[n] \cap Reentrant
    /\ m \in CallbackMethods
    /\ TakesListener(m, x)
    /\ Begin(Callback, m, x)
    /\ todo' = [todo EXCEPT ![n] = @ \ {l}]
    /\ phase' = [phase EXCEPT ![n] = "inside"]
    /\ UNCHANGED <<listeners, handle, nativeVars, mutex, target, dirty>>

(* The method has returned to the listener, the listener to the wallet; an *)
(* exception of the method is the listener's.                              *)
ListenerReturns(n) ==
    /\ phase[n] = "inside"
    /\ pc[Callback] = "idle"
    /\ IF outcome[Callback] = "threw"
       THEN FailNotification(n)
       ELSE /\ phase' = [phase EXCEPT ![n] = "telling"]
            /\ UNCHANGED <<javaVars, nativeVars, callVars, mutex, target, todo, dirty>>

EndNotification(n) ==
    /\ phase[n] = "telling"
    /\ todo[n] = {}
    /\ Release(n)
    /\ UNCHANGED <<javaVars, nativeVars, callVars>>

DeliveryStep(n) ==
    \/ EnterListener(n) \/ BeginCopy(n) \/ EndCopy(n) \/ ConcurrentModification(n)
    \/ \E l \in Listeners : Tell(n, l) \/ TellThrowing(n, l)
    \/ \E l, x \in Args, m \in Methods : TellReentrant(n, l, m, x)
    \/ ListenerReturns(n) \/ EndNotification(n)

-----------------------------------------------------------------------------
Next ==
    \/ \E c \in Apps, m \in Methods, l \in Args : CallMethod(c, m, l)
    \/ \E c \in Callers : CallerStep(c)
    \/ \E n \in Notifiers : Notify(n) \/ DeliveryStep(n)

Spec == Init /\ [][Next]_vars

(***************************************************************************)
(* Threads run, and a native sync does not last for ever: it notifies      *)
(* finitely often before it ends.  A thread that notifies gets the mutex   *)
(* although the other one takes it again and again, because each            *)
(* synchronizes blocks between two notifications.  Nothing obliges the     *)
(* application to call, or the C++ wallet to notify.                       *)
(***************************************************************************)
Fairness ==
    /\ \A c \in Callers :
          /\ WF_vars(CallerStep(c))
          /\ SF_vars(\E r \in {"ok", "threw"} : SyncEnds(c, r))
    /\ \A n \in Notifiers : WF_vars(DeliveryStep(n)) /\ SF_vars(EnterListener(n))

FairSpec == Spec /\ Fairness

-----------------------------------------------------------------------------
(* Every variable has its type. *)
TypeOK ==
    /\ {isClosed, walletAlive, syncing} \subseteq BOOLEAN
    /\ listeners \subseteq Listeners
    /\ handle \in Natives \cup {None}
    /\ registered \subseteq Natives
    /\ alive \subseteq Natives
    /\ mutex \in Notifiers \cup {None}
    /\ method \in [Callers -> Methods]
    /\ arg \in [Callers -> Args]
    /\ \A c \in Callers : TakesListener(method[c], arg[c])
    /\ pc \in [Callers -> Labels]
    /\ old \in [Callers -> Natives \cup {None}]
    /\ new \in [Callers -> Natives \cup {None}]
    /\ {synced, outcome} \subseteq [Callers -> {"pending", "ok", "threw"}]
    /\ phase \in [Notifiers -> Phases]
    /\ target \in [Notifiers -> Natives \cup {None}]
    /\ todo \in [Notifiers -> SUBSET Listeners]
    /\ dirty \subseteq Notifiers

(* A native listener is not deleted while it delivers a notification,      *)
(* whatever the threads and the listeners call, and native listeners       *)
(* deliver one at a time.                                                  *)
DeliveryExclusive ==
    \A n \in Notifiers : Delivering(n) =>
        /\ target[n] \in alive
        /\ \A k \in Notifiers : Delivering(k) => k = n

(* The rest is about an application that uses the wallet from one thread,  *)
(* next to the background thread, with listeners that do not change the    *)
(* wallet's listeners.                                                     *)
Settled == \A c \in Callers : pc[c] = "idle"

(* Bridge, setListenerJni: "Only one listener needs to subscribe over JNI, *)
(* so this removes the previously registered listener and registers the    *)
(* new listener": no two native listeners exist, or are registered.        *)
OneNativeListener == \A x, y \in alive \cup registered : x = y

(* Between two methods the C++ wallet has a listener, the one the handle   *)
(* refers to, exactly while the application has listeners.                 *)
ListensForListeners ==
    Settled => /\ alive = {handle} \ {None}
               /\ walletAlive => registered = alive
               /\ handle # None <=> (listeners # {} /\ ~isClosed)

(* When removeListener has removed the last listener, or close has closed  *)
(* the wallet, and the method has returned, no notification is being       *)
(* delivered: what was under way has ended.                                *)
SilentWithoutListeners ==
    Settled /\ (isClosed \/ listeners = {}) => \A n \in Notifiers : ~Delivering(n)

(* An open wallet's methods are not run on a deleted C++ wallet. *)
DeletedAfterClose ==
    /\ ~walletAlive => isClosed
    /\ \A c \in Callers : pc[c] = "undefined" => method[c] = "unasserted"

(* The inductive invariants behind these properties. *)

(* A notification holds the mutex, and the listener it goes through exists. *)
MutexInv ==
    \A n \in Notifiers : Delivering(n) => mutex = n /\ target[n] \in alive

SharedInv == TypeOK /\ MutexInv

(* What follows is about one application thread, a. *)

(* A listener is inside a method only while it is notified.                *)
CallbackInv ==
    /\ pc[Callback] \in {"idle", "body"}
    /\ pc[Callback] = "body" =>
          /\ method[Callback] \in CallbackMethods
          /\ \E n \in Notifiers : phase[n] = "inside"

(* The application's thread is notified inside sync, and nobody is without *)
(* a C++ wallet.                                                           *)
NotifierInv(a) ==
    /\ phase[a] # "quiet" => pc[a] = "syncing"
    /\ ~walletAlive => \A n \in Notifiers : phase[n] = "quiet"

Listening == {"listen", "unregister", "delete", "make", "store"}

(* Where each method can be. *)
LabelsOf(m) ==
    CASE m = "addListener"    -> {"idle", "body"} \cup Listening
      [] m = "removeListener" -> {"idle", "body", "removed"} \cup Listening
      [] m = "sync"           -> {"idle", "body", "syncing", "finally", "removed"}
                                    \cup Listening
      [] m = "close"          -> {"idle", "destroy"} \cup Listening
      [] m = "unasserted"     -> {"idle", "body", "undefined"}
      [] OTHER                -> {"idle", "body"}

LabelInv(a) ==
    /\ pc[a] \in LabelsOf(method[a])
    /\ method[a] = "sync" =>
          /\ pc[a] \in {"body", "syncing"} => synced[a] = "pending"
          /\ pc[a] \in {"removed", "finally"} => synced[a] # "pending"

(* The wallet is closed by the methods that say so, and only they (and the *)
(* unasserted ones) run while it is.                                       *)
ClosedInv(a) ==
    /\ method[a] = "close" /\ pc[a] # "idle" => isClosed
    /\ pc[a] # "idle" /\ method[a] \notin Unasserted => ~isClosed
    /\ ~walletAlive => isClosed /\ (pc[a] = "idle" \/ method[a] = "unasserted")
    /\ pc[a] = "undefined" => ~walletAlive

(* The native listener, at each step of setListenerJni. *)
HandleInv(a) ==
    /\ pc[a] \in Labels \ {"delete", "make", "store"} =>
          /\ alive = {handle} \ {None}
          /\ walletAlive => registered = alive
    /\ ~walletAlive => registered = {}
    /\ pc[a] \in {"unregister", "delete"} =>
          old[a] = handle /\ handle # None /\ alive = {handle}
    /\ pc[a] \in {"delete", "make"} => registered = {}
    /\ pc[a] = "make" => alive = {}
    /\ pc[a] = "store" =>
          /\ alive = {new[a]} \ {None}
          /\ registered = alive
          /\ new[a] # None <=> IsEnabled(a)

(* Whether there is one. *)
ListenInv(a) ==
    /\ pc[a] \in {"idle", "body", "syncing", "finally", "undefined"} =>
          (handle # None <=> (listeners # {} /\ ~isClosed))
    /\ pc[a] = "removed" => handle # None
    /\ pc[a] = "destroy" => handle = None
    /\ pc[a] \in Listening => (IsEnabled(a) <=> (listeners # {} /\ ~isClosed))

SingleInv(a) ==
    /\ CallbackInv
    /\ NotifierInv(a)
    /\ LabelInv(a)
    /\ ClosedInv(a)
    /\ HandleInv(a)
    /\ ListenInv(a)

InductiveInv == SharedInv /\ \A a \in Apps : SingleInv(a)

-----------------------------------------------------------------------------
(* Liveness. *)

(* Every method returns, also while the background thread notifies, unless  *)
(* it is one of those that use a C++ wallet that close has deleted.        *)
MethodsReturn ==
    \A c \in Apps :
        pc[c] # "idle"
            ~> (pc[c] = "idle" \/ (pc[c] = "undefined" /\ method[c] = "unasserted"))

(* Every notification ends. *)
NotificationsEnd == \A n \in Notifiers : phase[n] # "quiet" ~> phase[n] = "quiet"

=============================================================================
