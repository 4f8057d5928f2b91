--------------------------- MODULE WalletJniProofs ---------------------------
(***************************************************************************)
(* What WalletJni guarantees for any number of listeners and native        *)
(* listeners.  Deliveries exclude each other, and deletions, for any       *)
(* number of application threads and whatever the listeners call; the rest *)
(* is proved for one application thread whose listeners do not change the  *)
(* wallet's listeners while they are notified.                             *)
(***************************************************************************)
EXTENDS WalletJni, TLAPS

-----------------------------------------------------------------------------
(* Type correctness. *)

LEMMA TypeInit == Init => TypeOK
<1> SUFFICES ASSUME Init PROVE TypeOK
  OBVIOUS
<1> USE DEF Init, Callers, Notifiers, Args, Labels, Phases, Methods
<1>1. /\ {isClosed, walletAlive, syncing} \subseteq BOOLEAN
      /\ listeners \subseteq Listeners
      /\ handle \in Natives \cup {None}
      /\ registered \subseteq Natives
      /\ alive \subseteq Natives
      /\ mutex \in Notifiers \cup {None}
      /\ dirty \subseteq Notifiers
  OBVIOUS
<1>2. /\ method \in [Callers -> Methods]
      /\ arg \in [Callers -> Args]
      /\ \A c \in Callers : TakesListener(method[c], arg[c])
  BY DEF TakesListener
<1>3. /\ pc \in [Callers -> Labels]
      /\ old \in [Callers -> Natives \cup {None}]
      /\ new \in [Callers -> Natives \cup {None}]
      /\ {synced, outcome} \subseteq [Callers -> {"pending", "ok", "threw"}]
  OBVIOUS
<1>4. /\ phase \in [Notifiers -> Phases]
      /\ target \in [Notifiers -> Natives \cup {None}]
      /\ todo \in [Notifiers -> SUBSET Listeners]
  OBVIOUS
<1> QED BY <1>1, <1>2, <1>3, <1>4 DEF TypeOK

LEMMA TypeCaller ==
  ASSUME TypeOK, NEW c \in Callers, CallerStep(c)
  PROVE  TypeOK'
<1> USE DEF TypeOK, Goto, Return, SetListeners, NativeCall, Undefined, Labels, Args,
            javaVars, nativeVars, callVars, noteVars, inMethod
<1>1. CASE AddListener(c)
  BY <1>1 DEF AddListener, TakesListener
<1>2. CASE RemoveListener(c)
  BY <1>2 DEF RemoveListener
<1>3. CASE StopListeningIfEmpty(c)
  BY <1>3 DEF StopListeningIfEmpty
<1>4. CASE Sync(c)
  BY <1>4 DEF Sync
<1>5. CASE \E r \in {"ok", "threw"} : SyncEnds(c, r)
  BY <1>5 DEF SyncEnds
<1>6. CASE StartSyncing(c)
  BY <1>6 DEF StartSyncing
<1>7. CASE StopSyncing(c)
  BY <1>7 DEF StopSyncing
<1>8. CASE \E r \in {"ok", "threw"} : OtherMethod(c, r)
  BY <1>8 DEF OtherMethod
<1>9. CASE Destroy(c)
  BY <1>9 DEF Destroy
<1>10. CASE CallDeletedWallet(c)
  BY <1>10 DEF CallDeletedWallet
<1>11. CASE GetOldListener(c)
  BY <1>11 DEF GetOldListener
<1>12. CASE RemoveOldListener(c)
  BY <1>12 DEF RemoveOldListener
<1>13. CASE DeleteOldListener(c)
  BY <1>13 DEF DeleteOldListener
<1>14. CASE MakeListener(c)
  BY <1>14 DEF MakeListener
<1>15. CASE StoreHandle(c)
  BY <1>15 DEF StoreHandle, ContinueMethod
<1> QED BY <1>1, <1>2, <1>3, <1>4, <1>5, <1>6, <1>7, <1>8, <1>9, <1>10, <1>11, <1>12, <1>13, <1>14, <1>15 DEF CallerStep

LEMMA BeginTypes ==
  ASSUME TypeOK, NEW c \in Callers, NEW m \in Methods, NEW l \in Args,
         TakesListener(m, l), Begin(c, m, l)
  PROVE  /\ isClosed' \in BOOLEAN
         /\ method' \in [Callers -> Methods]
         /\ arg' \in [Callers -> Args]
         /\ \A d \in Callers : TakesListener(method'[d], arg'[d])
         /\ pc' \in [Callers -> Labels]
         /\ old' = old /\ new' = new
         /\ {synced', outcome'} \subseteq [Callers -> {"pending", "ok", "threw"}]
<1>1. /\ method' \in [Callers -> Methods]
      /\ arg' \in [Callers -> Args]
      /\ \A d \in Callers : TakesListener(method'[d], arg'[d])
      /\ synced' \in [Callers -> {"pending", "ok", "threw"}]
  BY DEF TypeOK, Begin
<1>2. /\ isClosed' \in BOOLEAN
      /\ pc' \in [Callers -> Labels]
      /\ outcome' \in [Callers -> {"pending", "ok", "threw"}]
  BY DEF TypeOK, Begin, Goto, Return, Labels
<1> QED BY <1>1, <1>2 DEF Begin


LEMMA TypeNote ==
  ASSUME TypeOK, NEW n \in Notifiers, Notify(n) \/ DeliveryStep(n)
  PROVE  TypeOK'
<1> USE DEF TypeOK, Goto, Return, Labels, Phases, Args, Callers, Notifiers,
            Release, FailNotification, javaVars, nativeVars, callVars, noteVars, inMethod
<1>0. CASE Notify(n)
  BY <1>0 DEF Notify
<1>1. CASE EnterListener(n)
  BY <1>1 DEF EnterListener
<1>2. CASE BeginCopy(n)
  BY <1>2 DEF BeginCopy
<1>3. CASE EndCopy(n)
  BY <1>3 DEF EndCopy
<1>4. CASE ConcurrentModification(n)
  BY <1>4 DEF ConcurrentModification
<1>5. CASE \E l \in Listeners : Tell(n, l)
  BY <1>5 DEF Tell
<1>6. CASE \E l \in Listeners : TellThrowing(n, l)
  BY <1>6 DEF TellThrowing
<1>7. CASE \E l, x \in Args, m \in Methods : TellReentrant(n, l, m, x)
  BY <1>7, BeginTypes, ConstantsAssumption DEF TellReentrant
<1>8. CASE ListenerReturns(n)
  BY <1>8 DEF ListenerReturns
<1>9. CASE EndNotification(n)
  BY <1>9 DEF EndNotification
<1> QED BY <1>0, <1>1, <1>2, <1>3, <1>4, <1>5, <1>6, <1>7, <1>8, <1>9 DEF DeliveryStep

LEMMA TypeCall ==
  ASSUME TypeOK, NEW c \in Apps, NEW m \in Methods, NEW l \in Args, CallMethod(c, m, l)
  PROVE  TypeOK'
BY BeginTypes DEF TypeOK, CallMethod, Callers, nativeVars, noteVars

LEMMA TypeNext == TypeOK /\ [Next]_vars => TypeOK'
<1> SUFFICES ASSUME TypeOK, [Next]_vars PROVE TypeOK'
  OBVIOUS
<1>1. CASE UNCHANGED vars
  BY <1>1 DEF vars, javaVars, nativeVars, callVars, noteVars, TypeOK
<1> QED BY <1>1, TypeCall, TypeCaller, TypeNote DEF Next

(* Every variable of WalletJni keeps its type. *)
THEOREM TypeCorrect == Spec => []TypeOK
BY TypeInit, TypeNext, PTL DEF Spec

-----------------------------------------------------------------------------
(* Deliveries. *)

LEMMA MutexNext ==
  ASSUME TypeOK, MutexInv, [Next]_vars
  PROVE  MutexInv'
<1> USE DEF MutexInv, Delivering
<1>1. CASE UNCHANGED vars
  BY <1>1 DEF vars, nativeVars, noteVars
<1>2. ASSUME NEW c \in Apps, NEW m \in Methods, NEW l \in Args, CallMethod(c, m, l)
      PROVE  MutexInv'
  BY <1>2 DEF CallMethod, nativeVars, noteVars
<1>3. ASSUME NEW c \in Callers, CallerStep(c)
      PROVE  MutexInv'
  <2>1. phase' = phase /\ target' = target /\ mutex' = mutex
    BY <1>3 DEF CallerStep, noteVars, AddListener, RemoveListener, StopListeningIfEmpty,
        Sync, SyncEnds, StartSyncing, StopSyncing, OtherMethod, Destroy, CallDeletedWallet,
        GetOldListener, RemoveOldListener, DeleteOldListener, MakeListener,
        StoreHandle
  <2>2. CASE DeleteOldListener(c)
    BY <2>1, <2>2, ConstantsAssumption
       DEF ConstantsAssumption, DeleteOldListener, Notifiers, TypeOK
  <2>3. CASE ~DeleteOldListener(c)
    <3>1. alive \subseteq alive'
      BY <1>3, <2>3 DEF CallerStep, nativeVars, AddListener, RemoveListener,
         StopListeningIfEmpty, Sync, SyncEnds, StartSyncing, StopSyncing, OtherMethod,
         Destroy, CallDeletedWallet, GetOldListener, RemoveOldListener,
         MakeListener, StoreHandle
    <3> QED BY <2>1, <3>1
  <2> QED BY <2>2, <2>3
<1>4. ASSUME NEW n \in Notifiers, Notify(n) \/ DeliveryStep(n)
      PROVE  MutexInv'
  <2>0. n # None
    BY ConstantsAssumption DEF ConstantsAssumption, Notifiers
  <2> USE <2>0 DEF TypeOK, Phases, Release, FailNotification, javaVars, nativeVars, noteVars
  <2>1. CASE Notify(n)
    BY <2>1 DEF Notify
  <2>2. CASE EnterListener(n)
    BY <2>2, ConstantsAssumption DEF ConstantsAssumption, EnterListener, Notifiers
  <2>3. CASE BeginCopy(n)
    BY <2>3 DEF BeginCopy
  <2>4. CASE EndCopy(n)
    BY <2>4 DEF EndCopy
  <2>5. CASE ConcurrentModification(n)
    BY <2>5 DEF ConcurrentModification
  <2>6. CASE \E l \in Listeners : Tell(n, l) \/ TellThrowing(n, l)
    BY <2>6 DEF Tell, TellThrowing
  <2>7. CASE \E l, x \in Args, m \in Methods : TellReentrant(n, l, m, x)
    BY <2>7 DEF TellReentrant
  <2>8. CASE ListenerReturns(n)
    BY <2>8 DEF ListenerReturns
  <2>9. CASE EndNotification(n)
    BY <2>9 DEF EndNotification
  <2> QED BY <1>4, <2>1, <2>2, <2>3, <2>4, <2>5, <2>6, <2>7, <2>8, <2>9 DEF DeliveryStep
<1> QED BY <1>1, <1>2, <1>3, <1>4 DEF Next

LEMMA SharedInvariant == Spec => []SharedInv
<1>1. Init => MutexInv
  BY DEF Init, MutexInv, Delivering
<1>2. SharedInv /\ [Next]_vars => SharedInv'
  BY TypeNext, MutexNext DEF SharedInv
<1>3. Init => SharedInv
  BY <1>1, TypeInit DEF SharedInv
<1> QED BY <1>2, <1>3, PTL DEF Spec

(* A native listener is not deleted while it delivers a notification, and  *)
(* native listeners deliver one at a time: the bridge's _listenerMutex does *)
(* its work for any number of threads, and whatever the listeners call.    *)
THEOREM DeliveriesExclude == Spec => []DeliveryExclusive
<1>1. SharedInv => DeliveryExclusive
  BY DEF SharedInv, MutexInv, DeliveryExclusive
<1> QED BY <1>1, SharedInvariant, PTL

-----------------------------------------------------------------------------
(* One application thread, whose listeners leave the listeners alone. *)

SingleCaller(a) ==
    /\ Apps = {a}
    /\ CallbackMethods \cap {"addListener", "removeListener", "sync", "close"} = {}

LEMMA SingleInit ==
  ASSUME NEW a, SingleCaller(a), Init
  PROVE  SingleInv(a)
<1> USE DEF Init, Callers, Notifiers, SingleCaller
<1>1. CallbackInv /\ NotifierInv(a)
  BY DEF CallbackInv, NotifierInv
<1>2. LabelInv(a) /\ ClosedInv(a)
  BY DEF LabelInv, LabelsOf, ClosedInv
<1>3. HandleInv(a) /\ ListenInv(a)
  BY DEF HandleInv, ListenInv, Listening
<1> QED BY <1>1, <1>2, <1>3 DEF SingleInv

(* The application thread calls a method. *)
LEMMA SingleCall ==
  ASSUME NEW a, SingleCaller(a), SharedInv, SingleInv(a),
         NEW m \in Methods, NEW l \in Args, CallMethod(a, m, l)
  PROVE  SingleInv(a)'
<1> USE DEF SharedInv, SingleInv, TypeOK, SingleCaller, Callers, Notifiers, CallMethod, Begin,
            nativeVars, noteVars
<1>0. a \in Callers /\ a # Callback /\ pc[a] = "idle"
  BY ConstantsAssumption DEF ConstantsAssumption
<1> USE <1>0
<1>1. /\ method'[a] = m
      /\ synced'[a] = IF m = "sync" THEN "pending" ELSE "ok"
      /\ pc'[Callback] = pc[Callback] /\ method'[Callback] = method[Callback]
  BY DEF Goto, Return
<1>2. \/ /\ pc'[a] = "idle" /\ isClosed /\ isClosed'
      \/ /\ pc'[a] = "listen" /\ m = "close" /\ ~isClosed /\ isClosed'
      \/ /\ pc'[a] = "body" /\ m # "close" /\ isClosed' = isClosed
         /\ m = "unasserted" \/ ~isClosed
  BY DEF Goto, Return
<1>3. CallbackInv' /\ NotifierInv(a)'
  BY <1>1, <1>2 DEF CallbackInv, NotifierInv
<1>4. LabelInv(a)' /\ ClosedInv(a)'
  BY <1>1, <1>2 DEF LabelInv, ClosedInv, LabelsOf, Listening, Unasserted, Methods
<1>5. HandleInv(a)'
  BY <1>1, <1>2 DEF HandleInv, Labels
<1>6. ListenInv(a)'
  BY <1>1, <1>2 DEF ListenInv, Listening, IsEnabled
<1> QED BY <1>3, <1>4, <1>5, <1>6

(* The application thread takes a step inside a method. *)
LEMMA SingleStep ==
  ASSUME NEW a, SingleCaller(a), SharedInv, SingleInv(a), CallerStep(a)
  PROVE  SingleInv(a)'
<1> USE DEF SharedInv, SingleInv, TypeOK, SingleCaller, Callers, Notifiers, Goto, Return,
            SetListeners, NativeCall, Undefined, javaVars, nativeVars, noteVars, inMethod
<1>0. a \in Callers /\ a # Callback
  BY ConstantsAssumption DEF ConstantsAssumption
<1> USE <1>0
<1>1. CASE AddListener(a)
  <2> USE <1>1 DEF AddListener
  <2>1. CallbackInv' /\ NotifierInv(a)'
    BY DEF CallbackInv, NotifierInv, LabelInv, LabelsOf, Listening
  <2>2. LabelInv(a)'
    BY DEF LabelInv, LabelsOf, Listening, IsEnabled, ClosedInv
  <2>3. ClosedInv(a)'
    BY DEF ClosedInv, LabelInv, LabelsOf, Listening, Unasserted
  <2>4. HandleInv(a)'
    BY DEF HandleInv, LabelInv, LabelsOf, Listening, IsEnabled, Labels
  <2>5. ListenInv(a)'
    BY DEF ListenInv, LabelInv, ClosedInv, HandleInv, LabelsOf, Listening, IsEnabled, Unasserted, Labels
  <2> QED BY <2>1, <2>2, <2>3, <2>4, <2>5
<1>2. CASE RemoveListener(a)
  <2> USE <1>2 DEF RemoveListener
  <2>1. CallbackInv' /\ NotifierInv(a)'
    BY DEF CallbackInv, NotifierInv, LabelInv, LabelsOf, Listening
  <2>2. LabelInv(a)'
    BY DEF LabelInv, LabelsOf, Listening, IsEnabled, ClosedInv
  <2>3. ClosedInv(a)'
    BY DEF ClosedInv, LabelInv, LabelsOf, Listening, Unasserted
  <2>4. HandleInv(a)'
    BY DEF HandleInv, LabelInv, LabelsOf, Listening, IsEnabled, Labels
  <2>5. ListenInv(a)'
    BY DEF ListenInv, LabelInv, ClosedInv, HandleInv, LabelsOf, Listening, IsEnabled, Unasserted, Labels
  <2> QED BY <2>1, <2>2, <2>3, <2>4, <2>5
<1>3. CASE StopListeningIfEmpty(a)
  <2> USE <1>3 DEF StopListeningIfEmpty
  <2>1. CallbackInv' /\ NotifierInv(a)'
    BY DEF CallbackInv, NotifierInv, LabelInv, LabelsOf, Listening
  <2>2. LabelInv(a)'
    BY DEF LabelInv, LabelsOf, Listening, IsEnabled, ClosedInv
  <2>3. ClosedInv(a)'
    BY DEF ClosedInv, LabelInv, LabelsOf, Listening, Unasserted
  <2>4. HandleInv(a)'
    BY DEF HandleInv, LabelInv, LabelsOf, Listening, IsEnabled, Labels
  <2>5. ListenInv(a)'
    BY DEF ListenInv, LabelInv, ClosedInv, HandleInv, LabelsOf, Listening, IsEnabled, Unasserted, Labels
  <2> QED BY <2>1, <2>2, <2>3, <2>4, <2>5
<1>4. CASE Sync(a)
  <2> USE <1>4 DEF Sync
  <2>1. CallbackInv' /\ NotifierInv(a)'
    BY DEF CallbackInv, NotifierInv, LabelInv, LabelsOf, Listening
  <2>2. LabelInv(a)'
    BY DEF LabelInv, LabelsOf, Listening, IsEnabled, ClosedInv
  <2>3. ClosedInv(a)'
    BY DEF ClosedInv, LabelInv, LabelsOf, Listening, Unasserted
  <2>4. HandleInv(a)'
    BY DEF HandleInv, LabelInv, LabelsOf, Listening, IsEnabled, Labels
  <2>5. ListenInv(a)'
    BY DEF ListenInv, LabelInv, ClosedInv, HandleInv, LabelsOf, Listening, IsEnabled, Unasserted, Labels
  <2> QED BY <2>1, <2>2, <2>3, <2>4, <2>5
<1>5. CASE \E r \in {"ok", "threw"} : SyncEnds(a, r)
  <2> USE <1>5 DEF SyncEnds
  <2>1. CallbackInv' /\ NotifierInv(a)'
    BY DEF CallbackInv, NotifierInv, LabelInv, LabelsOf, Listening
  <2>2. LabelInv(a)'
    BY DEF LabelInv, LabelsOf, Listening, IsEnabled, ClosedInv
  <2>3. ClosedInv(a)'
    BY DEF ClosedInv, LabelInv, LabelsOf, Listening, Unasserted
  <2>4. HandleInv(a)'
    BY DEF HandleInv, LabelInv, LabelsOf, Listening, IsEnabled, Labels
  <2>5. ListenInv(a)'
    BY DEF ListenInv, LabelInv, ClosedInv, HandleInv, LabelsOf, Listening, IsEnabled, Unasserted, Labels
  <2> QED BY <2>1, <2>2, <2>3, <2>4, <2>5
<1>6. CASE StartSyncing(a)
  <2> USE <1>6 DEF StartSyncing
  <2>1. CallbackInv' /\ NotifierInv(a)'
    BY DEF CallbackInv, NotifierInv, LabelInv, LabelsOf, Listening
  <2>2. LabelInv(a)'
    BY DEF LabelInv, LabelsOf, Listening, IsEnabled, ClosedInv
  <2>3. ClosedInv(a)'
    BY DEF ClosedInv, LabelInv, LabelsOf, Listening, Unasserted
  <2>4. HandleInv(a)'
    BY DEF HandleInv, LabelInv, LabelsOf, Listening, IsEnabled, Labels
  <2>5. ListenInv(a)'
    BY DEF ListenInv, LabelInv, ClosedInv, HandleInv, LabelsOf, Listening, IsEnabled, Unasserted, Labels
  <2> QED BY <2>1, <2>2, <2>3, <2>4, <2>5
<1>7. CASE StopSyncing(a)
  <2> USE <1>7 DEF StopSyncing
  <2>1. CallbackInv' /\ NotifierInv(a)'
    BY DEF CallbackInv, NotifierInv, LabelInv, LabelsOf, Listening
  <2>2. LabelInv(a)'
    BY DEF LabelInv, LabelsOf, Listening, IsEnabled, ClosedInv
  <2>3. ClosedInv(a)'
    BY DEF ClosedInv, LabelInv, LabelsOf, Listening, Unasserted
  <2>4. HandleInv(a)'
    BY DEF HandleInv, LabelInv, LabelsOf, Listening, IsEnabled, Labels
  <2>5. ListenInv(a)'
    BY DEF ListenInv, LabelInv, ClosedInv, HandleInv, LabelsOf, Listening, IsEnabled, Unasserted, Labels
  <2> QED BY <2>1, <2>2, <2>3, <2>4, <2>5
<1>8. CASE \E r \in {"ok", "threw"} : OtherMethod(a, r)
  <2> USE <1>8 DEF OtherMethod
  <2>1. CallbackInv' /\ NotifierInv(a)'
    BY DEF CallbackInv, NotifierInv, LabelInv, LabelsOf, Listening
  <2>2. LabelInv(a)'
    BY DEF LabelInv, LabelsOf, Listening, IsEnabled, ClosedInv
  <2>3. ClosedInv(a)'
    BY DEF ClosedInv, LabelInv, LabelsOf, Listening, Unasserted
  <2>4. HandleInv(a)'
    BY DEF HandleInv, LabelInv, LabelsOf, Listening, IsEnabled, Labels
  <2>5. ListenInv(a)'
    BY DEF ListenInv, LabelInv, ClosedInv, HandleInv, LabelsOf, Listening, IsEnabled, Unasserted, Labels
  <2> QED BY <2>1, <2>2, <2>3, <2>4, <2>5
<1>9. CASE Destroy(a)
  <2> USE <1>9 DEF Destroy
  <2>1. CallbackInv' /\ NotifierInv(a)'
    BY DEF CallbackInv, NotifierInv, LabelInv, LabelsOf, Listening
  <2>2. LabelInv(a)'
    BY DEF LabelInv, LabelsOf, Listening, IsEnabled, ClosedInv
  <2>3. ClosedInv(a)'
    BY DEF ClosedInv, LabelInv, LabelsOf, Listening, Unasserted
  <2>4. HandleInv(a)'
    BY DEF HandleInv, LabelInv, LabelsOf, Listening, IsEnabled, Labels
  <2>5. ListenInv(a)'
    BY DEF ListenInv, LabelInv, ClosedInv, HandleInv, LabelsOf, Listening, IsEnabled, Unasserted, Labels
  <2> QED BY <2>1, <2>2, <2>3, <2>4, <2>5
<1>10. CASE CallDeletedWallet(a)
  <2> USE <1>10 DEF CallDeletedWallet
  <2>0. pc[a] = "body" /\ method[a] = "unasserted"
    BY DEF ClosedInv, LabelInv, LabelsOf, Listening
  <2> USE <2>0
  <2>1. CallbackInv' /\ NotifierInv(a)'
    BY DEF CallbackInv, NotifierInv
  <2>2. LabelInv(a)' /\ ClosedInv(a)'
    BY DEF LabelInv, LabelsOf, ClosedInv, Unasserted
  <2>3. HandleInv(a)' /\ ListenInv(a)'
    BY DEF HandleInv, ListenInv, Listening, Labels
  <2> QED BY <2>1, <2>2, <2>3
<1>11. CASE GetOldListener(a)
  <2> USE <1>11 DEF GetOldListener
  <2>1. CallbackInv' /\ NotifierInv(a)'
    BY DEF CallbackInv, NotifierInv, LabelInv, LabelsOf, Listening
  <2>2. LabelInv(a)'
    BY DEF LabelInv, LabelsOf, Listening, IsEnabled, ClosedInv
  <2>3. ClosedInv(a)'
    BY DEF ClosedInv, LabelInv, LabelsOf, Listening, Unasserted
  <2>4. HandleInv(a)'
    BY DEF HandleInv, LabelInv, LabelsOf, Listening, IsEnabled, Labels
  <2>5. ListenInv(a)'
    BY DEF ListenInv, LabelInv, ClosedInv, HandleInv, LabelsOf, Listening, IsEnabled, Unasserted, Labels
  <2> QED BY <2>1, <2>2, <2>3, <2>4, <2>5
<1>12. CASE RemoveOldListener(a)
  <2> USE <1>12 DEF RemoveOldListener
  <2>1. CallbackInv' /\ NotifierInv(a)'
    BY DEF CallbackInv, NotifierInv, LabelInv, LabelsOf, Listening
  <2>2. LabelInv(a)'
    BY DEF LabelInv, LabelsOf, Listening, IsEnabled, ClosedInv
  <2>3. ClosedInv(a)'
    BY DEF ClosedInv, LabelInv, LabelsOf, Listening, Unasserted
  <2>4. HandleInv(a)'
    BY DEF HandleInv, LabelInv, LabelsOf, Listening, IsEnabled, Labels
  <2>5. ListenInv(a)'
    BY DEF ListenInv, LabelInv, ClosedInv, HandleInv, LabelsOf, Listening, IsEnabled, Unasserted, Labels
  <2> QED BY <2>1, <2>2, <2>3, <2>4, <2>5
<1>13. CASE DeleteOldListener(a)
  <2> USE <1>13 DEF DeleteOldListener
  <2>1. CallbackInv' /\ NotifierInv(a)'
    BY DEF CallbackInv, NotifierInv, LabelInv, LabelsOf, Listening
  <2>2. LabelInv(a)'
    BY DEF LabelInv, LabelsOf, Listening, IsEnabled, ClosedInv
  <2>3. ClosedInv(a)'
    BY DEF ClosedInv, LabelInv, LabelsOf, Listening, Unasserted
  <2>4. HandleInv(a)'
    BY DEF HandleInv, LabelInv, LabelsOf, Listening, IsEnabled, Labels
  <2>5. ListenInv(a)'
    BY DEF ListenInv, LabelInv, ClosedInv, HandleInv, LabelsOf, Listening, IsEnabled, Unasserted, Labels
  <2> QED BY <2>1, <2>2, <2>3, <2>4, <2>5
<1>14. CASE MakeListener(a)
  <2> USE <1>14 DEF MakeListener
  <2>1. CallbackInv' /\ NotifierInv(a)'
    BY DEF CallbackInv, NotifierInv, LabelInv, LabelsOf, Listening
  <2>2. LabelInv(a)'
    BY DEF LabelInv, LabelsOf, Listening, IsEnabled, ClosedInv
  <2>3. ClosedInv(a)'
    BY DEF ClosedInv, LabelInv, LabelsOf, Listening, Unasserted
  <2>4. HandleInv(a)'
    <3>1. pc'[a] = "store" /\ handle' = handle /\ walletAlive' = walletAlive
          /\ (IsEnabled(a)' <=> IsEnabled(a))
      BY DEF IsEnabled
    <3>2. registered = {} /\ alive = {}
      BY DEF HandleInv
    <3>3. CASE IsEnabled(a)
      <4>1. PICK n \in Natives \ alive : new' = [new EXCEPT ![a] = n] /\ alive' = alive \cup {n}
                                         /\ registered' = registered \cup {n}
        BY <3>3
      <4>2. new'[a] = n /\ n # None /\ alive' = {n} /\ registered' = {n} /\ walletAlive
        BY <3>2, <3>3, <4>1, ConstantsAssumption DEF ConstantsAssumption
      <4> QED BY <3>1, <3>3, <4>2 DEF HandleInv
    <3>4. CASE ~IsEnabled(a)
      BY <3>1, <3>2, <3>4 DEF HandleInv, Labels
    <3> QED BY <3>3, <3>4
  <2>5. ListenInv(a)'
    BY DEF ListenInv, LabelInv, ClosedInv, HandleInv, LabelsOf, Listening, IsEnabled, Unasserted, Labels
  <2> QED BY <2>1, <2>2, <2>3, <2>4, <2>5
<1>15. CASE StoreHandle(a)
  <2> USE <1>15 DEF StoreHandle, ContinueMethod
  <2>1. CallbackInv' /\ NotifierInv(a)'
    BY DEF CallbackInv, NotifierInv, LabelInv, LabelsOf, Listening
  <2>2. LabelInv(a)'
    BY DEF LabelInv, LabelsOf, Listening, IsEnabled, ClosedInv
  <2>3. ClosedInv(a)'
    BY DEF ClosedInv, LabelInv, LabelsOf, Listening, Unasserted
  <2>4. HandleInv(a)'
    BY DEF HandleInv, LabelInv, LabelsOf, Listening, IsEnabled, Labels
  <2>5. ListenInv(a)'
    BY DEF ListenInv, LabelInv, ClosedInv, HandleInv, LabelsOf, Listening, IsEnabled, Unasserted, Labels
  <2> QED BY <2>1, <2>2, <2>3, <2>4, <2>5
<1> QED BY <1>1, <1>2, <1>3, <1>4, <1>5, <1>6, <1>7, <1>8, <1>9, <1>10, <1>11, <1>12, <1>13, <1>14, <1>15 DEF CallerStep

(* A listener that is notified takes a step inside the method it called. *)
LEMMA CallbackStep ==
  ASSUME NEW a, SingleCaller(a), SharedInv, SingleInv(a), CallerStep(Callback)
  PROVE  SingleInv(a)'
<1>0. /\ a \in Callers /\ Callback \in Callers /\ a # Callback
      /\ pc[Callback] = "body"
      /\ method[Callback] \in CallbackMethods
      /\ method[Callback] \notin {"addListener", "removeListener", "sync", "close"}
      /\ walletAlive
  <2>1. a \in Callers /\ Callback \in Callers /\ a # Callback
    BY ConstantsAssumption DEF ConstantsAssumption, SingleCaller, Callers
  <2>2. pc[Callback] # "idle"
    BY DEF CallerStep, AddListener, RemoveListener, StopListeningIfEmpty, Sync, SyncEnds,
       StartSyncing, StopSyncing, OtherMethod, Destroy, CallDeletedWallet, NativeCall,
       GetOldListener, RemoveOldListener, DeleteOldListener, MakeListener,
       StoreHandle
  <2> QED BY <2>1, <2>2 DEF SingleInv, CallbackInv, NotifierInv, SingleCaller
<1>1. \/ StartSyncing(Callback) \/ StopSyncing(Callback)
      \/ \E r \in {"ok", "threw"} : OtherMethod(Callback, r)
  BY <1>0 DEF CallerStep, AddListener, RemoveListener, StopListeningIfEmpty, Sync, SyncEnds,
     Destroy, CallDeletedWallet, GetOldListener, RemoveOldListener, DeleteOldListener,
     MakeListener, StoreHandle
<1>2. /\ UNCHANGED <<javaVars, walletAlive, registered, alive, method, old, new, synced, noteVars>>
      /\ pc' = [pc EXCEPT ![Callback] = "idle"]
  BY <1>1 DEF StartSyncing, StopSyncing, OtherMethod, Return, nativeVars, inMethod
<1>3. pc'[a] = pc[a] /\ pc'[Callback] = "idle"
  BY <1>0, <1>2 DEF SharedInv, TypeOK
<1> USE <1>2, <1>3 DEF SingleInv, javaVars, noteVars
<1>4. CallbackInv' /\ NotifierInv(a)'
  BY DEF CallbackInv, NotifierInv
<1>5. LabelInv(a)' /\ ClosedInv(a)'
  BY DEF LabelInv, ClosedInv
<1>6. HandleInv(a)' /\ ListenInv(a)'
  BY DEF HandleInv, ListenInv, IsEnabled
<1> QED BY <1>4, <1>5, <1>6

(* What a notification leaves alone: everything but its own progress, and   *)
(* the sync that an exception ends.                                        *)
LEMMA NoteEffect ==
  ASSUME NEW a, SingleCaller(a), SharedInv, SingleInv(a),
         NEW n \in Notifiers, Notify(n) \/ DeliveryStep(n)
  PROVE  /\ UNCHANGED <<javaVars, nativeVars, old, new>>
         /\ walletAlive
         /\ method'[a] = method[a]
         /\ \/ pc'[a] = pc[a] /\ synced'[a] = synced[a]
            \/ /\ n = a /\ pc[a] = "syncing" /\ synced'[a] = "threw"
               /\ pc'[a] \in {"idle", "finally"}
               /\ phase'[a] = "quiet"
<1> USE DEF SharedInv, SingleInv, TypeOK, SingleCaller, Callers, Notifiers,
            javaVars, nativeVars, callVars, noteVars, inMethod
<1>0. a \in Callers /\ a # Callback /\ a # Background
  BY ConstantsAssumption DEF ConstantsAssumption
<1>1. walletAlive
  BY DEF NotifierInv, Notify, DeliveryStep, EnterListener, BeginCopy, EndCopy,
     ConcurrentModification, Tell, TellThrowing, TellReentrant, ListenerReturns, EndNotification
<1>2. ASSUME FailNotification(n)
      PROVE  /\ UNCHANGED <<javaVars, nativeVars, old, new, method>>
             /\ \/ pc'[a] = pc[a] /\ synced'[a] = synced[a]
                \/ /\ n = a /\ pc[a] = "syncing" /\ synced'[a] = "threw"
                   /\ pc'[a] \in {"idle", "finally"}
                   /\ phase'[a] = "quiet"
  <2>1. CASE n = a /\ pc[a] = "syncing"
    BY <1>0, <1>2, <2>1 DEF FailNotification, Release, Goto, Return
  <2>2. CASE ~(n = a /\ pc[a] = "syncing")
    BY <1>0, <1>2, <2>2 DEF FailNotification
  <2> QED BY <2>1, <2>2
<1>3. CASE Notify(n)
  BY <1>1, <1>3 DEF Notify
<1>4. CASE EnterListener(n)
  BY <1>1, <1>4 DEF EnterListener
<1>5. CASE BeginCopy(n)
  BY <1>1, <1>2, <1>5 DEF BeginCopy
<1>6. CASE EndCopy(n) \/ EndNotification(n)
  BY <1>1, <1>6 DEF EndCopy, EndNotification
<1>7. CASE ConcurrentModification(n)
  BY <1>1, <1>2, <1>7 DEF ConcurrentModification
<1>8. CASE \E l \in Listeners : Tell(n, l) \/ TellThrowing(n, l)
  BY <1>1, <1>2, <1>8 DEF Tell, TellThrowing
<1>9. ASSUME NEW l \in Args, NEW x \in Args, NEW m \in Methods, TellReentrant(n, l, m, x)
      PROVE  /\ UNCHANGED <<javaVars, nativeVars, old, new>>
             /\ method'[a] = method[a] /\ pc'[a] = pc[a] /\ synced'[a] = synced[a]
  <2>1. m # "close"
    BY <1>9 DEF TellReentrant
  <2> QED BY <1>0, <1>9, <2>1 DEF TellReentrant, Begin, Goto, Return
<1>10. CASE ListenerReturns(n)
  BY <1>1, <1>2, <1>10 DEF ListenerReturns
<1> QED BY <1>1, <1>3, <1>4, <1>5, <1>6, <1>7, <1>8, <1>9, <1>10 DEF DeliveryStep

(* A listener is inside a method while it is notified, and only then. *)
LEMMA NoteCallback ==
  ASSUME NEW a, SingleCaller(a), SharedInv, SingleInv(a),
         NEW n \in Notifiers, Notify(n) \/ DeliveryStep(n)
  PROVE  CallbackInv'
<1> USE DEF SharedInv, SingleInv, TypeOK, SingleCaller, Callers, Notifiers, CallbackInv,
            javaVars, nativeVars, callVars, noteVars, inMethod
<1>0. a \in Callers /\ Callback \in Callers /\ Callback \notin Apps
  BY ConstantsAssumption DEF ConstantsAssumption
<1>1. CASE \E l, x \in Args, m \in Methods : TellReentrant(n, l, m, x)
  BY <1>0, <1>1 DEF TellReentrant, Begin, Goto, Return
<1>2. ASSUME pc[Callback] = "body", phase[n] = "inside"
      PROVE  FALSE
  BY <1>2 DEF Notify, DeliveryStep, EnterListener, BeginCopy, EndCopy,
     ConcurrentModification, Tell, TellThrowing, TellReentrant, ListenerReturns, EndNotification
<1>3. ASSUME ~\E l, x \in Args, m \in Methods : TellReentrant(n, l, m, x)
      PROVE  /\ pc'[Callback] = pc[Callback] /\ method' = method
             /\ \A k \in Notifiers \ {n} : phase'[k] = phase[k]
  BY <1>0, <1>3 DEF Notify, DeliveryStep, EnterListener, BeginCopy, EndCopy,
     ConcurrentModification, Tell, TellThrowing, ListenerReturns, EndNotification,
     FailNotification, Release, Goto, Return
<1>4. CASE ~\E l, x \in Args, m \in Methods : TellReentrant(n, l, m, x)
  BY <1>2, <1>3, <1>4
<1> QED BY <1>1, <1>4

(* The application's thread stays in sync while it is notified. *)
LEMMA NoteNotifier ==
  ASSUME NEW a, SingleCaller(a), SharedInv, SingleInv(a),
         NEW n \in Notifiers, Notify(n) \/ DeliveryStep(n)
  PROVE  NotifierInv(a)'
<1> USE NoteEffect DEF SharedInv, SingleInv, TypeOK, SingleCaller, Notifiers, NotifierInv,
            nativeVars
<1>0. a # Background
  BY ConstantsAssumption DEF ConstantsAssumption
<1>1. CASE n # a
  <2>1. phase'[a] = phase[a]
    BY <1>0, <1>1 DEF Notify, DeliveryStep, EnterListener, BeginCopy, EndCopy,
       ConcurrentModification, Tell, TellThrowing, TellReentrant, ListenerReturns,
       EndNotification, FailNotification, Release, noteVars
  <2> QED BY <1>1, <2>1
<1>2. CASE n = a
  <2>1. pc[a] = "syncing"
    BY <1>0, <1>2 DEF Notify, Synchronizes, DeliveryStep, EnterListener, BeginCopy, EndCopy,
       ConcurrentModification, Tell, TellThrowing, TellReentrant, ListenerReturns,
       EndNotification
  <2> QED BY <1>2, <2>1
<1> QED BY <1>1, <1>2

LEMMA NoteStep ==
  ASSUME NEW a, SingleCaller(a), SharedInv, SingleInv(a),
         NEW n \in Notifiers, Notify(n) \/ DeliveryStep(n)
  PROVE  SingleInv(a)'
<1>1. LabelInv(a)'
  BY NoteEffect DEF SingleInv, LabelInv, LabelsOf, Listening
<1>2. ClosedInv(a)'
  BY NoteEffect DEF SingleInv, LabelInv, LabelsOf, Listening, ClosedInv, javaVars, nativeVars, Unasserted
<1>3. HandleInv(a)'
  BY NoteEffect DEF SingleInv, HandleInv, IsEnabled, Labels, javaVars, nativeVars
<1>4. ListenInv(a)'
  BY NoteEffect DEF SingleInv, ListenInv, Listening, IsEnabled, javaVars
<1> QED BY <1>1, <1>2, <1>3, <1>4, NoteCallback, NoteNotifier DEF SingleInv

LEMMA SingleNext ==
  ASSUME NEW a, SingleCaller(a), SharedInv, SingleInv(a), [Next]_vars
  PROVE  SingleInv(a)'
<1>1. CASE UNCHANGED vars
  BY <1>1 DEF vars, javaVars, nativeVars, callVars, noteVars, SingleInv, CallbackInv,
     NotifierInv, LabelInv, ClosedInv, HandleInv, ListenInv, IsEnabled
<1>2. CASE Next
  BY <1>2, SingleCall, SingleStep, CallbackStep, NoteStep DEF Next, SingleCaller, Callers
<1> QED BY <1>1, <1>2

LEMMA SingleInvariant ==
  ASSUME NEW a, SingleCaller(a)
  PROVE  Spec => [](SharedInv /\ SingleInv(a))
<1>1. Init => SingleInv(a)
  BY SingleInit
<1>2. SharedInv /\ SingleInv(a) /\ [Next]_vars => SingleInv(a)'
  BY SingleNext
<1> QED BY <1>1, <1>2, SharedInvariant, PTL DEF Spec

(* The conjunction that the theorems below rest on is an invariant. *)
THEOREM InductiveInvHolds ==
  ASSUME NEW a, SingleCaller(a)
  PROVE  Spec => []InductiveInv
<1>1. SharedInv /\ SingleInv(a) => InductiveInv
  BY DEF InductiveInv, SingleCaller
<1> QED BY <1>1, SingleInvariant, PTL

(* There is never more than one native listener, as setListenerJni's       *)
(* comment says, while one thread uses the wallet.                         *)
THEOREM NativeListenerIsUnique ==
  ASSUME NEW a, SingleCaller(a)
  PROVE  Spec => []OneNativeListener
<1>1. SharedInv /\ SingleInv(a) => OneNativeListener
  BY DEF SharedInv, TypeOK, SingleInv, SingleCaller, Callers, HandleInv, Labels, OneNativeListener
<1> QED BY <1>1, SingleInvariant, PTL

(* Between two methods the C++ wallet listens exactly while the application *)
(* has listeners and has not closed the wallet.                            *)
THEOREM ListeningFollowsListeners ==
  ASSUME NEW a, SingleCaller(a)
  PROVE  Spec => []ListensForListeners
<1>1. SharedInv /\ SingleInv(a) => ListensForListeners
  BY DEF SingleInv, SingleCaller, Callers, HandleInv, ListenInv, Labels, Settled,
     ListensForListeners
<1> QED BY <1>1, SingleInvariant, PTL

(* Once removeListener removed the last listener, or close returned, no    *)
(* notification is being delivered.                                        *)
THEOREM SilenceWithoutListeners ==
  ASSUME NEW a, SingleCaller(a)
  PROVE  Spec => []SilentWithoutListeners
<1>1. SharedInv /\ SingleInv(a) => SilentWithoutListeners
  <2> SUFFICES ASSUME SharedInv, SingleInv(a), Settled, isClosed \/ listeners = {}
               PROVE  \A n \in Notifiers : ~Delivering(n)
    BY DEF SilentWithoutListeners
  <2>1. pc[a] = "idle"
    BY DEF Settled, SingleCaller, Callers
  <2>2. alive = {}
    BY <2>1 DEF SingleInv, HandleInv, ListenInv, Labels
  <2> QED BY <2>2 DEF SharedInv, MutexInv
<1> QED BY <1>1, SingleInvariant, PTL

(* The C++ wallet is deleted only by close, and no method that asserts that *)
(* the wallet is open runs on a deleted one.                               *)
THEOREM DeletionFollowsClose ==
  ASSUME NEW a, SingleCaller(a)
  PROVE  Spec => []DeletedAfterClose
<1>1. SharedInv /\ SingleInv(a) => DeletedAfterClose
  BY DEF SingleInv, SingleCaller, Callers, CallbackInv, ClosedInv, DeletedAfterClose
<1> QED BY <1>1, SingleInvariant, PTL

=============================================================================
