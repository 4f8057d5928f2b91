------------------------- MODULE DaemonPollerProofs -------------------------
(***************************************************************************)
(* What DaemonPoller guarantees for any number of listeners, calls and     *)
(* polling threads.  The type invariant and the safety invariants follow   *)
(* from InductiveInv, which every step preserves.                          *)
(***************************************************************************)
EXTENDS DaemonPoller, TLAPS, SequenceTheorems

-----------------------------------------------------------------------------
(* Lemmas about the listener list. *)

(* ArrayList.remove(Object) shortens the list by one entry and shifts the  *)
(* entries behind it.                                                      *)
LEMMA RemoveAtProperties ==
  ASSUME NEW S, NEW s \in Seq(S), NEW i \in 1..Len(s)
  PROVE  /\ RemoveAt(s, i) \in Seq(S)
         /\ Len(RemoveAt(s, i)) = Len(s) - 1
         /\ \A j \in 1..(Len(s) - 1) :
               RemoveAt(s, i)[j] = IF j < i THEN s[j] ELSE s[j + 1]
<1> DEFINE front == SubSeq(s, 1, i - 1)
           back  == SubSeq(s, i + 1, Len(s))
<1>1. /\ front \in Seq(S)
      /\ Len(front) = i - 1
      /\ \A j \in 1..(i - 1) : front[j] = s[j]
  BY SubSeqProperties
<1>2. /\ back \in Seq(S)
      /\ Len(back) = Len(s) - i
      /\ \A j \in 1..(Len(s) - i) : back[j] = s[i + j]
  <2>1. CASE i = Len(s)
    BY <2>1, SubSeqProperties
  <2>2. CASE i < Len(s)
    BY <2>2, SubSeqProperties
  <2> QED BY <2>1, <2>2
<1>3. /\ front \o back \in Seq(S)
      /\ Len(front \o back) = Len(front) + Len(back)
      /\ \A j \in 1..(Len(front) + Len(back)) :
            (front \o back)[j] = IF j <= Len(front) THEN front[j] ELSE back[j - Len(front)]
  BY <1>1, <1>2, ConcatProperties
<1> HIDE DEF front, back
<1>4. RemoveAt(s, i) = front \o back
  BY DEF RemoveAt, front, back
<1>5. ASSUME NEW j \in 1..(Len(s) - 1)
      PROVE  (front \o back)[j] = IF j < i THEN s[j] ELSE s[j + 1]
  <2>1. CASE j < i
    BY <1>1, <1>2, <1>3, <2>1
  <2>2. CASE ~(j < i)
    <3>1. j - Len(front) \in 1..(Len(s) - i)
      BY <1>1, <2>2
    <3>2. (front \o back)[j] = back[j - Len(front)]
      BY <1>1, <1>2, <1>3, <2>2
    <3> QED BY <1>1, <1>2, <2>2, <3>1, <3>2
  <2> QED BY <2>1, <2>2
<1> QED BY <1>1, <1>2, <1>3, <1>4, <1>5

(* What registering and unregistering do to the list and its runnable. *)
LEMMA RegisterEffect ==
  ASSUME TypeOK, NEW l \in Listeners, Register(l)
  PROVE  /\ listeners' \in Seq(Listeners)
         /\ listeners' # <<>>
         /\ Len(listeners') = Len(listeners) + 1
         /\ \A i \in 1..Len(listeners) : listeners'[i] = listeners[i]
         /\ listeners'[Len(listeners) + 1] = l
         /\ runnable' \in Pollers \cup {Null}
         /\ runnable' # Null
         /\ isTerminated' = isTerminated
         /\ pc' \in [Pollers -> PollerState]
         /\ \A p \in Pollers : pc'[p] # pc[p] =>
               pc[p] = "new" /\ pc'[p] = "baseline" /\ runnable' = p
         /\ runnable # Null => runnable' = runnable /\ pc' = pc
<1>1. listeners' = Append(listeners, l)
  BY DEF Register
<1>2. /\ listeners' \in Seq(Listeners)
      /\ listeners' # <<>>
      /\ Len(listeners') = Len(listeners) + 1
      /\ \A i \in 1..Len(listeners) : listeners'[i] = listeners[i]
      /\ listeners'[Len(listeners) + 1] = l
  BY <1>1, AppendProperties DEF TypeOK
<1>3. isTerminated' = isTerminated
  BY DEF Register, pollerVars
<1>4. CASE runnable # Null
  BY <1>2, <1>3, <1>4 DEF Register, pollerVars, TypeOK
<1>5. CASE runnable = Null
  BY <1>2, <1>3, <1>5, ConstantsAssumption DEF Register, TypeOK, PollerState
<1> QED BY <1>4, <1>5

LEMMA UnregisterEffect ==
  ASSUME TypeOK, NEW l \in Listeners, Unregister(l)
  PROVE  /\ listeners # <<>>
         /\ listeners' \in Seq(Listeners)
         /\ runnable' \in Pollers \cup {Null}
         /\ isTerminated' \in [Pollers -> BOOLEAN]
         /\ listeners' = <<>> => /\ runnable' = Null
                                 /\ isTerminated' = [isTerminated EXCEPT ![runnable] = TRUE]
         /\ listeners' # <<>> => runnable' = runnable /\ isTerminated' = isTerminated
         /\ Len(listeners') = Len(listeners) - 1
         /\ \E i \in 1..Len(listeners) :
               /\ listeners[i] = l
               /\ \A j \in 1..Len(listeners') :
                     listeners'[j] = IF j < i THEN listeners[j] ELSE listeners[j + 1]
<1>1. PICK i \in 1..Len(listeners) :
         listeners[i] = l /\ listeners' = RemoveAt(listeners, i)
  BY DEF Unregister
<1>2. /\ listeners' \in Seq(Listeners)
      /\ Len(listeners') = Len(listeners) - 1
      /\ \A j \in 1..(Len(listeners) - 1) :
            listeners'[j] = IF j < i THEN listeners[j] ELSE listeners[j + 1]
  BY <1>1, RemoveAtProperties DEF TypeOK
<1>3. listeners # <<>>
  BY <1>1, EmptySeq DEF TypeOK
<1>4. /\ runnable' \in Pollers \cup {Null}
      /\ isTerminated' \in [Pollers -> BOOLEAN]
      /\ listeners' = <<>> => /\ runnable' = Null
                              /\ isTerminated' = [isTerminated EXCEPT ![runnable] = TRUE]
      /\ listeners' # <<>> => runnable' = runnable /\ isTerminated' = isTerminated
  BY DEF Unregister, TypeOK
<1> QED BY <1>1, <1>2, <1>3, <1>4

-----------------------------------------------------------------------------
(* Type correctness. *)

LEMMA TypeInit == Init => TypeOK
<1> SUFFICES ASSUME Init PROVE TypeOK
  OBVIOUS
<1>1. tip \in Tips
  BY ConstantsAssumption DEF ConstantsAssumption, Init, Tips
<1>2. listeners \in Seq(Listeners)
  BY EmptySeq DEF Init
<1> QED BY <1>1, <1>2 DEF Init, TypeOK, NoHeader, PollerState, CallState

LEMMA TypeCalls ==
  ASSUME TypeOK, NEW w \in Waiters, CallStep(w)
  PROVE  TypeOK'
<1> USE DEF TypeOK, CallState, pollerVars, iteration, callVars
<1>1. w \in Listeners
  BY DEF Listeners
<1>2. CASE Call(w)
  BY <1>2 DEF Call
<1>3. CASE CallRegisters(w)
  BY <1>1, <1>3, RegisterEffect DEF CallRegisters
<1>4. CASE CallWaits(w)
  BY <1>4 DEF CallWaits
<1>5. CASE SpuriousWakeup(w)
  BY <1>5 DEF SpuriousWakeup
<1>6. CASE CallInterrupted(w)
  BY <1>6 DEF CallInterrupted
<1>7. CASE CallResumes(w)
  BY <1>7 DEF CallResumes
<1>8. CASE CallReturns(w)
  BY <1>1, <1>8, UnregisterEffect DEF CallReturns
<1> QED BY <1>2, <1>3, <1>4, <1>5, <1>6, <1>7, <1>8 DEF CallStep

LEMMA TypePollers ==
  ASSUME TypeOK, NEW p \in Pollers, PollerStep(p)
  PROVE  TypeOK'
<1> USE DEF TypeOK, PollerState, pollerVars, iteration, callVars
<1>1. CASE Baseline(p)
  BY <1>1 DEF Baseline
<1>2. CASE RpcFails(p)
  BY <1>2 DEF RpcFails, Dies
<1>3. CASE Continue(p)
  BY <1>3 DEF Continue
<1>4. CASE Exit(p)
  BY <1>4 DEF Exit
<1>5. CASE SleepInterrupted(p)
  BY <1>5 DEF SleepInterrupted
<1>6. CASE Fetch(p)
  BY <1>6 DEF Fetch
<1>7. CASE Enter(p)
  BY <1>7 DEF Enter
<1>8. CASE Leave(p)
  BY <1>8 DEF Leave
<1>9. CASE ConcurrentModification(p)
  BY <1>9 DEF ConcurrentModification, Dies
<1>10. ASSUME NEW l \in Listeners, NotifyPlain(p, l)
       PROVE  TypeOK'
  BY <1>10 DEF NotifyPlain, Notifies
<1>11. ASSUME NEW l \in Listeners, NotifyOneShot(p, l)
       PROVE  TypeOK'
  BY <1>11, UnregisterEffect DEF NotifyOneShot, Notifies
<1>12. ASSUME NEW l \in Listeners, NotifyThrowing(p, l)
       PROVE  TypeOK'
  BY <1>12 DEF NotifyThrowing, Notifies, Dies
<1>13. ASSUME NEW w \in Waiters, NotifyCall(p, w)
       PROVE  TypeOK'
  BY <1>13 DEF NotifyCall, Notifies
<1>14. ASSUME NEW w \in Waiters, NotifyAll(p, w)
       PROVE  TypeOK'
  BY <1>14 DEF NotifyAll, CallState
<1> QED BY <1>1, <1>2, <1>3, <1>4, <1>5, <1>6, <1>7, <1>8, <1>9, <1>10, <1>11,
           <1>12, <1>13, <1>14 DEF PollerStep

LEMMA TypeStep == TypeOK /\ [Next]_vars => TypeOK'
<1> SUFFICES ASSUME TypeOK, [Next]_vars PROVE TypeOK'
  OBVIOUS
<1> USE DEF pollerVars, iteration, callVars
<1>1. CASE NewTip
  BY <1>1, ConstantsAssumption DEF NewTip, TypeOK, Tips
<1>2. ASSUME NEW l \in AppListeners, AddListener(l)
      PROVE  TypeOK'
  BY <1>2, RegisterEffect DEF AddListener, TypeOK, Listeners
<1>3. ASSUME NEW l \in AppListeners, RemoveListener(l)
      PROVE  TypeOK'
  BY <1>3, UnregisterEffect DEF RemoveListener, TypeOK, Listeners
<1>4. CASE UNCHANGED vars
  BY <1>4 DEF vars, TypeOK
<1> QED BY <1>1, <1>2, <1>3, <1>4, TypeCalls, TypePollers DEF Next

(* Every variable of the poller keeps its type. *)
THEOREM TypeCorrect == Spec => []TypeOK
  BY TypeInit, TypeStep, PTL DEF Spec

-----------------------------------------------------------------------------
(* The monitor of the list, and the one runnable. *)

RunnableInv == MonitorInv /\ PollingIffListening /\ NoOrphanRunnable

LEMMA RunnableInit == Init => RunnableInv
<1> SUFFICES ASSUME Init PROVE RunnableInv
  OBVIOUS
<1>1. MonitorInv
  BY ConstantsAssumption DEF ConstantsAssumption, Init, MonitorInv, Notifying
<1>2. PollingIffListening
  BY DEF Init, PollingIffListening
<1>3. NoOrphanRunnable
  BY DEF Init, NoOrphanRunnable
<1> QED BY <1>1, <1>2, <1>3 DEF RunnableInv

(* Registering and unregistering preserve it, whoever holds the monitor. *)
LEMMA RunnableRegister ==
  ASSUME TypeOK, RunnableInv, NEW l \in Listeners, Register(l), lock' = lock
  PROVE  RunnableInv'
<1> USE RegisterEffect
<1>1. MonitorInv'
  BY DEF RunnableInv, MonitorInv, Notifying
<1>2. PollingIffListening'
  BY DEF PollingIffListening
<1>3. NoOrphanRunnable'
  BY ConstantsAssumption DEF ConstantsAssumption, RunnableInv, NoOrphanRunnable, TypeOK
<1> QED BY <1>1, <1>2, <1>3 DEF RunnableInv

LEMMA RunnableUnregister ==
  ASSUME TypeOK, RunnableInv, NEW l \in Listeners, Unregister(l), lock' = lock, pc' = pc
  PROVE  RunnableInv'
<1>1. MonitorInv'
  BY DEF RunnableInv, MonitorInv, Notifying
<1>2. PollingIffListening'
  BY UnregisterEffect DEF RunnableInv, PollingIffListening
<1>3. NoOrphanRunnable'
  BY UnregisterEffect DEF RunnableInv, NoOrphanRunnable, TypeOK
<1> QED BY <1>1, <1>2, <1>3 DEF RunnableInv

LEMMA RunnablePollers ==
  ASSUME TypeOK, RunnableInv, NEW p \in Pollers, PollerStep(p)
  PROVE  RunnableInv'
<1> USE ConstantsAssumption
    DEF ConstantsAssumption, RunnableInv, MonitorInv, Notifying, PollingIffListening, NoOrphanRunnable,
        TypeOK, pollerVars, iteration
<1>1. CASE Baseline(p)
  BY <1>1 DEF Baseline
<1>2. CASE RpcFails(p)
  BY <1>2 DEF RpcFails, Dies
<1>3. CASE Continue(p)
  BY <1>3 DEF Continue
<1>4. CASE Exit(p)
  BY <1>4 DEF Exit
<1>5. CASE SleepInterrupted(p)
  BY <1>5 DEF SleepInterrupted
<1>6. CASE Fetch(p)
  BY <1>6 DEF Fetch
<1>7. CASE Enter(p)
  BY <1>7 DEF Enter
<1>8. CASE Leave(p)
  BY <1>8 DEF Leave
<1>9. CASE ConcurrentModification(p)
  BY <1>9 DEF ConcurrentModification, Dies
<1>10. ASSUME NEW l \in Listeners, NotifyPlain(p, l)
       PROVE  RunnableInv'
  BY <1>10 DEF NotifyPlain
<1>11. ASSUME NEW l \in Listeners, NotifyOneShot(p, l)
       PROVE  RunnableInv'
  <2> HIDE DEF RunnableInv, TypeOK
  <2> QED BY <1>11, RunnableUnregister DEF NotifyOneShot
<1>12. ASSUME NEW l \in Listeners, NotifyThrowing(p, l)
       PROVE  RunnableInv'
  BY <1>12 DEF NotifyThrowing, Notifies, Dies
<1>13. ASSUME NEW w \in Waiters, NotifyCall(p, w)
       PROVE  RunnableInv'
  BY <1>13 DEF NotifyCall, Notifies
<1>14. ASSUME NEW w \in Waiters, NotifyAll(p, w)
       PROVE  RunnableInv'
  BY <1>14 DEF NotifyAll
<1> HIDE DEF RunnableInv
<1> QED BY <1>1, <1>2, <1>3, <1>4, <1>5, <1>6, <1>7, <1>8, <1>9, <1>10, <1>11,
           <1>12, <1>13, <1>14 DEF PollerStep

LEMMA RunnableStep == TypeOK /\ RunnableInv /\ [Next]_vars => RunnableInv'
<1> SUFFICES ASSUME TypeOK, RunnableInv, [Next]_vars PROVE RunnableInv'
  OBVIOUS
<1> DEFINE Same == UNCHANGED <<listeners, runnable, lock, isTerminated, pc>>
<1>1. Same => RunnableInv'
  BY DEF RunnableInv, MonitorInv, Notifying, PollingIffListening, NoOrphanRunnable
<1>2. CASE NewTip
  BY <1>1, <1>2 DEF NewTip, pollerVars, iteration
<1>3. ASSUME NEW l \in AppListeners, AddListener(l)
      PROVE  RunnableInv'
  BY <1>3, RunnableRegister DEF AddListener, Listeners, iteration
<1>4. ASSUME NEW l \in AppListeners, RemoveListener(l)
      PROVE  RunnableInv'
  BY <1>4, RunnableUnregister DEF RemoveListener, Listeners, iteration
<1>5. ASSUME NEW w \in Waiters, CallStep(w)
      PROVE  RunnableInv'
  <2>1. CASE CallRegisters(w)
    BY <2>1, RunnableRegister DEF CallRegisters, Listeners, iteration
  <2>2. CASE CallReturns(w)
    BY <2>2, RunnableUnregister DEF CallReturns, Listeners, iteration
  <2>3. CASE Call(w) \/ CallWaits(w) \/ SpuriousWakeup(w) \/ CallInterrupted(w) \/ CallResumes(w)
    BY <1>1, <2>3
    DEF Call, CallWaits, SpuriousWakeup, CallInterrupted, CallResumes, pollerVars, iteration
  <2> QED BY <1>5, <2>1, <2>2, <2>3 DEF CallStep
<1>6. CASE UNCHANGED vars
  BY <1>1, <1>6 DEF vars, pollerVars, iteration
<1> QED BY <1>2, <1>3, <1>4, <1>5, <1>6, RunnablePollers DEF Next

LEMMA RunnableCorrect == Spec => [](TypeOK /\ RunnableInv)
  BY TypeInit, TypeStep, RunnableInit, RunnableStep, PTL DEF Spec

(* However many polling threads run at the same time, listeners are called *)
(* by one of them at a time.                                               *)
THEOREM NotifiersExclude == Spec => []OneNotifier
<1>1. TypeOK /\ RunnableInv => OneNotifier
  BY DEF RunnableInv, MonitorInv, OneNotifier
<1> QED BY <1>1, RunnableCorrect, PTL

(* The poller has a runnable exactly while listeners are registered. *)
THEOREM PollerFollowsListeners == Spec => []PollingIffListening
<1>1. RunnableInv => PollingIffListening
  BY DEF RunnableInv
<1> QED BY <1>1, RunnableCorrect, PTL

(* Every polling thread that has not been told to terminate can still be. *)
THEOREM RunnablesAreOwned == Spec => []NoOrphanRunnable
<1>1. RunnableInv => NoOrphanRunnable
  BY DEF RunnableInv
<1> QED BY <1>1, RunnableCorrect, PTL

-----------------------------------------------------------------------------
(* The calls of getNextBlockHeader. *)

CallsInv ==
    CallbackInv /\ CallInv /\ OnceInv /\ NoLostNotification /\ ReturnedUnregistered

LEMMA CallsInit == Init => CallsInv
<1> SUFFICES ASSUME Init PROVE CallsInv
  OBVIOUS
<1>1. Len(listeners) = 0
  BY EmptySeq DEF Init
<1>2. CallbackInv
  BY DEF Init, CallbackInv
<1>3. CallInv
  BY <1>1 DEF Init, CallInv, IsRegistered, Listeners
<1>4. OnceInv
  BY <1>1 DEF OnceInv
<1>5. NoLostNotification /\ ReturnedUnregistered
  BY DEF Init, NoLostNotification, ReturnedUnregistered
<1> QED BY <1>2, <1>3, <1>4, <1>5 DEF CallsInv

(* Membership in the list, before and after it changes. *)
LEMMA RegisterMembers ==
  ASSUME TypeOK, NEW l \in Listeners, Register(l)
  PROVE  \A x : IsRegistered(x)' <=> IsRegistered(x) \/ x = l
<1>1. /\ Len(listeners) \in Nat
      /\ Len(listeners') = Len(listeners) + 1
      /\ \A i \in 1..Len(listeners) : listeners'[i] = listeners[i]
      /\ listeners'[Len(listeners) + 1] = l
  BY RegisterEffect, LenProperties DEF TypeOK
<1> QED BY <1>1 DEF IsRegistered

LEMMA UnregisterMembers ==
  ASSUME TypeOK, OnceInv, NEW l \in Listeners, Unregister(l)
  PROVE  /\ \A x : IsRegistered(x)' => IsRegistered(x)
         /\ OnceInv'
         /\ l \in Waiters => ~IsRegistered(l)'
<1>1. /\ Len(listeners) \in Nat
      /\ Len(listeners') = Len(listeners) - 1
  BY UnregisterEffect, LenProperties DEF TypeOK
<1>2. PICK i \in 1..Len(listeners) :
         /\ listeners[i] = l
         /\ \A j \in 1..Len(listeners') :
               listeners'[j] = IF j < i THEN listeners[j] ELSE listeners[j + 1]
  BY UnregisterEffect
<1> DEFINE from(j) == IF j < i THEN j ELSE j + 1
<1>3. \A j \in 1..Len(listeners') :
         /\ from(j) \in 1..Len(listeners) \ {i}
         /\ listeners'[j] = listeners[from(j)]
  BY <1>1, <1>2
<1>4. \A j, k \in 1..Len(listeners') : from(j) = from(k) => j = k
  BY <1>1, <1>2
<1> HIDE DEF from
<1>5. \A x : IsRegistered(x)' => IsRegistered(x)
  BY <1>3 DEF IsRegistered
<1>6. OnceInv'
  BY <1>3, <1>4 DEF OnceInv
<1>7. l \in Waiters => ~IsRegistered(l)'
  BY <1>2, <1>3 DEF OnceInv, IsRegistered
<1> QED BY <1>5, <1>6, <1>7

(* While no polling thread is in a callback, nothing is under way. *)
LEMMA Quiet ==
  ASSUME RunnableInv, lock = Null \/ \E p \in Pollers : pc[p] = "iterate"
  PROVE  \A p \in Pollers : pc[p] # "callback"
<1>1. \A p \in Pollers : Notifying(p) <=> lock = p
  BY DEF RunnableInv, MonitorInv
<1>2. Null \notin Pollers
  BY ConstantsAssumption DEF ConstantsAssumption
<1> QED BY <1>1, <1>2 DEF Notifying

(* A step that leaves the calls alone preserves the invariant if the list  *)
(* only loses entries, or gains listeners of the application, and no       *)
(* callback is under way before or after it.                               *)
LEMMA QuietStep ==
  ASSUME CallsInv,
         UNCHANGED <<wpc, sync>>,
         \A p \in Pollers : pc[p] # "callback",
         \A p \in Pollers : pc'[p] # "callback",
         \A w \in Waiters : seen'[w] = seen[w],
         \A w \in Waiters : IsRegistered(w)' => IsRegistered(w),
         OnceInv'
  PROVE  CallsInv'
<1>1. CallbackInv'
  BY DEF CallbackInv
<1>2. CallInv'
  BY DEF CallsInv, CallInv
<1>3. NoLostNotification'
  BY DEF CallsInv, NoLostNotification
<1>4. ReturnedUnregistered'
  BY DEF CallsInv, ReturnedUnregistered
<1> QED BY <1>1, <1>2, <1>3, <1>4 DEF CallsInv

(* So does a step of a polling thread outside the notifications. *)
LEMMA OutsideStep ==
  ASSUME CallsInv, TypeOK,
         UNCHANGED <<listeners, cursor, modified, seen, wpc, sync>>,
         NEW p \in Pollers, pc[p] # "callback", pc'[p] # "callback",
         \A q \in Pollers \ {p} : pc'[q] = pc[q] /\ last'[q] = last[q]
  PROVE  CallsInv'
<1>1. CallbackInv'
  BY DEF CallsInv, CallbackInv, Current
<1>2. CallInv' /\ OnceInv' /\ ReturnedUnregistered'
  BY DEF CallsInv, CallInv, OnceInv, ReturnedUnregistered, IsRegistered
<1>3. NoLostNotification'
  BY DEF CallsInv, NoLostNotification, Current
<1> QED BY <1>1, <1>2, <1>3 DEF CallsInv

LEMMA CallsApp ==
  ASSUME TypeOK, RunnableInv, CallsInv, NEW l \in AppListeners,
         AddListener(l) \/ RemoveListener(l)
  PROVE  CallsInv'
<1>1. l \in Listeners /\ l \notin Waiters
  BY ConstantsAssumption DEF ConstantsAssumption, Listeners
<1>2. lock = Null /\ UNCHANGED <<seen, wpc, sync>>
  BY DEF AddListener, RemoveListener, callVars
<1>3. \A p \in Pollers : pc[p] # "callback"
  BY <1>2, Quiet
<1>4. CASE AddListener(l)
  <2>1. Register(l)
    BY <1>4 DEF AddListener
  <2>2. \A p \in Pollers : pc'[p] # "callback"
    BY <1>1, <1>3, <2>1, RegisterEffect
  <2>3. \A w \in Waiters : IsRegistered(w)' => IsRegistered(w)
    BY <1>1, <2>1, RegisterMembers
  <2>4. OnceInv'
    <3>1. /\ Len(listeners) \in Nat
          /\ Len(listeners') = Len(listeners) + 1
          /\ \A i \in 1..Len(listeners) : listeners'[i] = listeners[i]
          /\ listeners'[Len(listeners) + 1] = l
      BY <1>1, <2>1, RegisterEffect, LenProperties DEF TypeOK
    <3> QED BY <1>1, <3>1 DEF CallsInv, OnceInv
  <2> QED BY <1>2, <1>3, <2>2, <2>3, <2>4, QuietStep
<1>5. CASE RemoveListener(l)
  <2>1. Unregister(l) /\ pc' = pc
    BY <1>5 DEF RemoveListener
  <2>2. (\A w \in Waiters : IsRegistered(w)' => IsRegistered(w)) /\ OnceInv'
    BY <1>1, <2>1, UnregisterMembers DEF CallsInv
  <2> QED BY <1>2, <1>3, <2>1, <2>2, QuietStep
<1> QED BY <1>4, <1>5

LEMMA CallsCalls ==
  ASSUME TypeOK, RunnableInv, CallsInv, NEW w \in Waiters, CallStep(w)
  PROVE  CallsInv'
<1> USE DEF pollerVars, iteration
<1>1. w \in Listeners
  BY DEF Listeners
<1>2. ASSUME Call(w) \/ CallWaits(w) \/ SpuriousWakeup(w) \/ CallInterrupted(w) \/ CallResumes(w)
      PROVE  CallsInv'
  <2>0. /\ UNCHANGED <<listeners, pc, cursor, modified, seen, last>>
        /\ wpc' = [wpc EXCEPT ![w] = wpc'[w]]
        /\ \A v \in Waiters \ {w} : v \in sync' <=> v \in sync
    BY <1>2 DEF Call, CallWaits, SpuriousWakeup, CallInterrupted, CallResumes, TypeOK
  <2>1. CallbackInv' /\ OnceInv'
    BY <2>0 DEF CallsInv, CallbackInv, OnceInv, Current
  <2>2. CallInv'
    BY <1>2, <2>0
    DEF CallsInv, CallInv, IsRegistered, TypeOK,
        Call, CallWaits, SpuriousWakeup, CallInterrupted, CallResumes
  <2>3. NoLostNotification'
    BY <1>2, <2>0
    DEF CallsInv, NoLostNotification, Current, TypeOK,
        Call, CallWaits, SpuriousWakeup, CallInterrupted, CallResumes
  <2>4. ReturnedUnregistered'
    BY <1>2, <2>0
    DEF CallsInv, ReturnedUnregistered, IsRegistered, TypeOK,
        Call, CallWaits, SpuriousWakeup, CallInterrupted, CallResumes
  <2> QED BY <2>1, <2>2, <2>3, <2>4 DEF CallsInv
<1>3. ASSUME CallRegisters(w)
      PROVE  CallsInv'
  <2>0. /\ Register(w) /\ wpc[w] = "adding" /\ lock = Null
        /\ wpc' = [wpc EXCEPT ![w] = "registered"]
        /\ UNCHANGED <<seen, sync>>
    BY <1>3 DEF CallRegisters
  <2>1. \A p \in Pollers : pc[p] # "callback"
    BY <2>0, Quiet
  <2>2. \A p \in Pollers : pc'[p] # "callback"
    BY <1>1, <2>0, <2>1, RegisterEffect
  <2>3. \A x : IsRegistered(x)' <=> IsRegistered(x) \/ x = w
    BY <1>1, <2>0, RegisterMembers
  <2>4. ~IsRegistered(w) /\ seen[w] = NoHeader
    BY <2>0 DEF CallsInv, CallInv
  <2>5. CallbackInv'
    BY <2>2 DEF CallbackInv
  <2>6. CallInv'
    BY <2>0, <2>3 DEF CallsInv, CallInv, TypeOK
  <2>7. OnceInv'
    <3>1. /\ Len(listeners) \in Nat
          /\ Len(listeners') = Len(listeners) + 1
          /\ \A i \in 1..Len(listeners) : listeners'[i] = listeners[i]
          /\ listeners'[Len(listeners) + 1] = w
      BY <1>1, <2>0, RegisterEffect, LenProperties DEF TypeOK
    <3> QED BY <2>4, <3>1 DEF CallsInv, OnceInv, IsRegistered
  <2>8. NoLostNotification'
    BY <2>0, <2>1, <2>4 DEF CallsInv, NoLostNotification, TypeOK
  <2>9. ReturnedUnregistered'
    BY <2>0, <2>3 DEF CallsInv, ReturnedUnregistered, TypeOK
  <2> QED BY <2>5, <2>6, <2>7, <2>8, <2>9 DEF CallsInv
<1>4. ASSUME CallReturns(w)
      PROVE  CallsInv'
  <2>0. /\ Unregister(w) /\ wpc[w] = "removing" /\ lock = Null
        /\ wpc' = [wpc EXCEPT ![w] = "returned"]
        /\ sync' = sync \ {w}
        /\ UNCHANGED <<seen, pc>>
    BY <1>4 DEF CallReturns
  <2>1. \A p \in Pollers : pc[p] # "callback"
    BY <2>0, Quiet
  <2>2. /\ \A x : IsRegistered(x)' => IsRegistered(x)
        /\ OnceInv'
        /\ ~IsRegistered(w)'
    BY <1>1, <2>0, UnregisterMembers DEF CallsInv
  <2>3. CallbackInv'
    BY <2>0, <2>1 DEF CallbackInv
  <2>4. CallInv'
    BY <2>0, <2>2 DEF CallsInv, CallInv, TypeOK
  <2>5. NoLostNotification'
    BY <2>0, <2>1 DEF CallsInv, NoLostNotification, TypeOK
  <2>6. ReturnedUnregistered'
    BY <2>0, <2>2 DEF CallsInv, ReturnedUnregistered, TypeOK
  <2> QED BY <2>2, <2>3, <2>4, <2>5, <2>6 DEF CallsInv
<1> QED BY <1>2, <1>3, <1>4 DEF CallStep

LEMMA CallsPollers ==
  ASSUME TypeOK, RunnableInv, RoundReachesAll, CallsInv, NEW p \in Pollers, PollerStep(p)
  PROVE  CallsInv'
<1> USE DEF pollerVars, iteration, callVars
<1>0. ASSUME pc[p] = "iterate"
      PROVE  \A q \in Pollers : pc[q] # "callback"
  BY <1>0, Quiet
<1>1. CASE Baseline(p)
  BY <1>1, OutsideStep DEF Baseline, TypeOK
<1>2. CASE RpcFails(p)
  BY <1>2, OutsideStep DEF RpcFails, Dies, TypeOK
<1>3. CASE Continue(p)
  BY <1>3, OutsideStep DEF Continue, TypeOK
<1>4. CASE Exit(p)
  BY <1>4, OutsideStep DEF Exit, TypeOK
<1>5. CASE SleepInterrupted(p)
  BY <1>5, OutsideStep DEF SleepInterrupted, TypeOK
<1>6. CASE Fetch(p)
  BY <1>6, OutsideStep DEF Fetch, TypeOK
<1>7. CASE Enter(p)
  <2>1. \A q \in Pollers : pc[q] # "callback"
    BY <1>7, Quiet DEF Enter
  <2>2. \A q \in Pollers : pc'[q] # "callback"
    BY <1>7, <2>1 DEF Enter, TypeOK
  <2>3. OnceInv' /\ \A w \in Waiters : IsRegistered(w)' => IsRegistered(w)
    BY <1>7 DEF Enter, CallsInv, OnceInv, IsRegistered
  <2>4. UNCHANGED <<wpc, sync, seen>>
    BY <1>7 DEF Enter
  <2> QED BY <2>1, <2>2, <2>3, <2>4, QuietStep
<1>8. CASE Leave(p)
  BY <1>8, OutsideStep DEF Leave, TypeOK
<1>9. CASE ConcurrentModification(p)
  BY <1>9, OutsideStep DEF ConcurrentModification, Dies, TypeOK
<1>10. ASSUME NEW l \in Listeners,
              NotifyPlain(p, l) \/ NotifyOneShot(p, l) \/ NotifyThrowing(p, l)
       PROVE  CallsInv'
  <2>1. /\ l \notin Waiters
        /\ pc[p] = "iterate"
        /\ seen' = [seen EXCEPT ![l] = last[p]]
        /\ UNCHANGED <<wpc, sync>>
    BY <1>10, ConstantsAssumption
    DEF ConstantsAssumption, NotifyPlain, NotifyOneShot, NotifyThrowing, Notifies, Dies
  <2>2. \A q \in Pollers : pc[q] # "callback"
    BY <1>0, <2>1
  <2>3. \A q \in Pollers : pc'[q] # "callback"
    BY <1>10, <2>2 DEF NotifyPlain, NotifyOneShot, NotifyThrowing, Dies, TypeOK
  <2>4. \A w \in Waiters : seen'[w] = seen[w]
    BY <2>1 DEF TypeOK, Listeners
  <2>5. OnceInv' /\ \A w \in Waiters : IsRegistered(w)' => IsRegistered(w)
    <3>1. CASE NotifyOneShot(p, l)
      BY <3>1, UnregisterMembers DEF NotifyOneShot, CallsInv
    <3>2. CASE NotifyPlain(p, l) \/ NotifyThrowing(p, l)
      BY <3>2 DEF NotifyPlain, NotifyThrowing, Dies, CallsInv, OnceInv, IsRegistered
    <3> QED BY <1>10, <3>1, <3>2
  <2> QED BY <2>1, <2>2, <2>3, <2>4, <2>5, QuietStep
<1>11. ASSUME NEW w \in Waiters, NotifyCall(p, w)
       PROVE  CallsInv'
  <2>1. /\ pc[p] = "iterate" /\ HasNext /\ ~modified /\ w = Current
        /\ seen' = [seen EXCEPT ![w] = last[p]]
        /\ pc' = [pc EXCEPT ![p] = "callback"]
        /\ UNCHANGED <<listeners, cursor, modified, last, wpc, sync>>
    BY <1>11 DEF NotifyCall, Notifies
  <2>2. \A q \in Pollers : pc[q] # "callback"
    BY <1>0, <2>1
  <2>3. cursor < Len(listeners)
    <3>1. cursor \in Nat /\ Len(listeners) \in Nat /\ cursor <= Len(listeners)
      BY <2>1, LenProperties DEF RoundReachesAll, Notifying, TypeOK
    <3> QED BY <2>1, <3>1 DEF HasNext
  <2>4. IsRegistered(w)
    BY <2>1, <2>3, LenProperties DEF IsRegistered, Current, TypeOK
  <2>5. CallbackInv'
    BY <2>1, <2>2, <2>3 DEF CallbackInv, Current, TypeOK, Listeners
  <2>6. CallInv'
    BY <2>1, <2>4 DEF CallsInv, CallInv, IsRegistered, TypeOK, Listeners
  <2>7. OnceInv' /\ ReturnedUnregistered'
    BY <2>1 DEF CallsInv, OnceInv, ReturnedUnregistered, IsRegistered
  <2>8. NoLostNotification'
    BY <2>1, <2>2 DEF CallsInv, NoLostNotification, Current, TypeOK, Listeners
  <2> QED BY <2>5, <2>6, <2>7, <2>8 DEF CallsInv
<1>12. ASSUME NEW w \in Waiters, NotifyAll(p, w)
       PROVE  CallsInv'
  <2>1. /\ pc[p] = "callback" /\ w = Current /\ w \notin sync
        /\ wpc' = [wpc EXCEPT ![w] = IF @ = "waiting" THEN "notified" ELSE @]
        /\ pc' = [pc EXCEPT ![p] = "iterate"]
        /\ UNCHANGED <<listeners, seen, sync>>
    BY <1>12 DEF NotifyAll
  <2>2. \A q \in Pollers : pc[q] = "callback" => q = p
    BY <2>1 DEF RunnableInv, MonitorInv, Notifying
  <2>3. CallbackInv'
    BY <2>1, <2>2 DEF CallbackInv, TypeOK
  <2>4. CallInv'
    BY <2>1 DEF CallsInv, CallInv, IsRegistered, TypeOK
  <2>5. OnceInv'
    BY <2>1 DEF CallsInv, OnceInv
  <2>6. NoLostNotification'
    BY <2>1, <2>2 DEF CallsInv, CallInv, NoLostNotification, TypeOK
  <2>7. ReturnedUnregistered'
    BY <2>1 DEF CallsInv, ReturnedUnregistered, IsRegistered, TypeOK
  <2> QED BY <2>3, <2>4, <2>5, <2>6, <2>7 DEF CallsInv
<1> QED BY <1>1, <1>2, <1>3, <1>4, <1>5, <1>6, <1>7, <1>8, <1>9, <1>10, <1>11, <1>12
    DEF PollerStep

LEMMA CallsStep ==
  TypeOK /\ RunnableInv /\ RoundReachesAll /\ CallsInv /\ [Next]_vars => CallsInv'
<1> SUFFICES ASSUME TypeOK, RunnableInv, RoundReachesAll, CallsInv, [Next]_vars
             PROVE  CallsInv'
  OBVIOUS
<1>1. CASE NewTip \/ UNCHANGED vars
  <2>1. UNCHANGED <<listeners, pc, cursor, modified, seen, last, wpc, sync>>
    BY <1>1 DEF NewTip, vars, pollerVars, iteration, callVars
  <2> QED
    BY <2>1 DEF CallsInv, CallbackInv, CallInv, OnceInv, NoLostNotification,
                ReturnedUnregistered, IsRegistered, Current
<1> QED BY <1>1, CallsApp, CallsCalls, CallsPollers DEF Next

-----------------------------------------------------------------------------
(* The rounds of notifications. *)

(* Outside a round the list may change: nobody iterates over it. *)
LEMMA RoundApp ==
  ASSUME TypeOK, RunnableInv, lock = Null, NEW l \in Listeners,
         Register(l) \/ (Unregister(l) /\ pc' = pc)
  PROVE  RoundReachesAll'
<1>1. \A p \in Pollers : ~Notifying(p)
  BY ConstantsAssumption DEF ConstantsAssumption, RunnableInv, MonitorInv
<1>2. \A p \in Pollers : pc'[p] = pc[p] \/ pc'[p] = "baseline"
  BY RegisterEffect
<1> QED BY <1>1, <1>2 DEF RoundReachesAll, Notifying

LEMMA RoundPollers ==
  ASSUME TypeOK, RunnableInv, RoundReachesAll, CallsInv, NEW p \in Pollers, PollerStep(p)
  PROVE  RoundReachesAll'
<1> USE DEF pollerVars, iteration, callVars
<1>0. \A q \in Pollers : Notifying(p) /\ Notifying(q) => q = p
  BY DEF RunnableInv, MonitorInv
<1>1. CASE \/ Baseline(p) \/ RpcFails(p) \/ Continue(p) \/ Exit(p) \/ SleepInterrupted(p)
           \/ Fetch(p) \/ Leave(p) \/ ConcurrentModification(p)
  <2>1. /\ UNCHANGED <<listeners, cursor, modified, seen>>
        /\ ~Notifying(p)'
        /\ \A q \in Pollers \ {p} : pc'[q] = pc[q] /\ last'[q] = last[q]
    BY <1>1 DEF Baseline, RpcFails, Continue, Exit, SleepInterrupted, Fetch, Leave,
                ConcurrentModification, Dies, Notifying, TypeOK
  <2> QED BY <2>1 DEF RoundReachesAll, Notifying
<1>2. CASE Enter(p)
  <2>1. lock = Null /\ cursor' = 0 /\ pc' = [pc EXCEPT ![p] = "iterate"]
        /\ listeners' = listeners
    BY <1>2 DEF Enter
  <2>2. \A q \in Pollers : ~Notifying(q)
    BY <2>1, ConstantsAssumption DEF ConstantsAssumption, RunnableInv, MonitorInv
  <2>3. \A q \in Pollers : Notifying(q)' => q = p
    BY <2>1, <2>2 DEF Notifying, TypeOK
  <2> QED BY <2>1, <2>3, LenProperties DEF RoundReachesAll, TypeOK
<1>3. ASSUME NEW l \in Listeners, NotifyPlain(p, l)
      PROVE  RoundReachesAll'
  <2>1. /\ Notifying(p) /\ ~modified /\ HasNext /\ l = Current
        /\ seen' = [seen EXCEPT ![l] = last[p]]
        /\ cursor' = cursor + 1
        /\ UNCHANGED <<listeners, last, pc>>
    BY <1>3 DEF NotifyPlain, Notifies, Notifying
  <2>2. /\ cursor \in Nat /\ Len(listeners) \in Nat /\ cursor < Len(listeners)
        /\ \A i \in 1..cursor : seen[listeners[i]] = last[p]
    BY <2>1, LenProperties DEF RoundReachesAll, HasNext, TypeOK
  <2>3. \A i \in 1..(cursor + 1) : listeners[i] \in Listeners
    BY <2>2, LenProperties DEF TypeOK
  <2>4. \A i \in 1..(cursor + 1) : seen'[listeners[i]] = last[p]
    BY <2>1, <2>2, <2>3 DEF Current, TypeOK
  <2> QED BY <1>0, <2>1, <2>2, <2>4 DEF RoundReachesAll, Notifying
<1>4. ASSUME NEW l \in Listeners, NotifyOneShot(p, l)
      PROVE  RoundReachesAll'
  BY <1>4 DEF NotifyOneShot, RoundReachesAll
<1>5. ASSUME NEW l \in Listeners, NotifyThrowing(p, l)
      PROVE  RoundReachesAll'
  <2>1. Notifying(p) /\ pc' = [pc EXCEPT ![p] = "dead"]
    BY <1>5 DEF NotifyThrowing, Notifies, Notifying, Dies
  <2> QED BY <1>0, <2>1 DEF RoundReachesAll, Notifying, TypeOK
<1>6. ASSUME NEW w \in Waiters, NotifyCall(p, w)
      PROVE  RoundReachesAll'
  <2>1. /\ Notifying(p)
        /\ seen' = [seen EXCEPT ![w] = last[p]]
        /\ pc' = [pc EXCEPT ![p] = "callback"]
        /\ UNCHANGED <<listeners, last, cursor, modified>>
    BY <1>6 DEF NotifyCall, Notifies, Notifying
  <2>2. \A i \in 1..cursor : ~modified => seen'[listeners[i]] = last[p]
    <3>1. ~modified => /\ cursor \in Nat /\ Len(listeners) \in Nat /\ cursor <= Len(listeners)
                       /\ \A i \in 1..cursor : seen[listeners[i]] = last[p]
      BY <2>1, LenProperties DEF RoundReachesAll, TypeOK
    <3>2. ~modified => \A i \in 1..cursor : listeners[i] \in Listeners
      BY <3>1, LenProperties DEF TypeOK
    <3> QED BY <2>1, <3>1, <3>2 DEF TypeOK
  <2>3. \A q \in Pollers : Notifying(q)' => q = p
    BY <1>0, <2>1 DEF Notifying, TypeOK
  <2> QED BY <2>1, <2>2, <2>3 DEF RoundReachesAll
<1>7. ASSUME NEW w \in Waiters, NotifyAll(p, w)
      PROVE  RoundReachesAll'
  <2>1. /\ pc[p] = "callback" /\ Notifying(p)
        /\ cursor' = cursor + 1
        /\ pc' = [pc EXCEPT ![p] = "iterate"]
        /\ UNCHANGED <<listeners, last, modified, seen>>
    BY <1>7 DEF NotifyAll, Notifying
  <2>2. ~modified /\ cursor < Len(listeners) /\ seen[listeners[cursor + 1]] = last[p]
    BY <2>1 DEF CallsInv, CallbackInv, Current
  <2>3. /\ cursor \in Nat /\ Len(listeners) \in Nat
        /\ \A i \in 1..cursor : seen[listeners[i]] = last[p]
    BY <2>1, <2>2, LenProperties DEF RoundReachesAll, TypeOK
  <2>4. \A i \in 1..(cursor + 1) : seen[listeners[i]] = last[p]
    BY <2>2, <2>3
  <2>5. \A q \in Pollers : Notifying(q)' => q = p
    BY <1>0, <2>1 DEF Notifying, TypeOK
  <2> QED BY <2>1, <2>2, <2>3, <2>4, <2>5 DEF RoundReachesAll
<1> QED BY <1>1, <1>2, <1>3, <1>4, <1>5, <1>6, <1>7 DEF PollerStep

LEMMA RoundStep ==
  TypeOK /\ RunnableInv /\ RoundReachesAll /\ CallsInv /\ [Next]_vars => RoundReachesAll'
<1> SUFFICES ASSUME TypeOK, RunnableInv, RoundReachesAll, CallsInv, [Next]_vars
             PROVE  RoundReachesAll'
  OBVIOUS
<1>1. ASSUME UNCHANGED <<listeners, pc, cursor, modified, seen, last>>
      PROVE  RoundReachesAll'
  BY <1>1 DEF RoundReachesAll, Notifying
<1>2. CASE NewTip \/ UNCHANGED vars
  BY <1>1, <1>2 DEF NewTip, vars, pollerVars, iteration
<1>3. ASSUME NEW l \in AppListeners, AddListener(l) \/ RemoveListener(l)
      PROVE  RoundReachesAll'
  BY <1>3, RoundApp DEF AddListener, RemoveListener, Listeners
<1>4. ASSUME NEW w \in Waiters, CallStep(w)
      PROVE  RoundReachesAll'
  <2>1. CASE CallRegisters(w) \/ CallReturns(w)
    BY <2>1, RoundApp DEF CallRegisters, CallReturns, Listeners
  <2>2. CASE Call(w) \/ CallWaits(w) \/ SpuriousWakeup(w) \/ CallInterrupted(w) \/ CallResumes(w)
    BY <1>1, <2>2
    DEF Call, CallWaits, SpuriousWakeup, CallInterrupted, CallResumes, pollerVars, iteration
  <2> QED BY <1>4, <2>1, <2>2 DEF CallStep
<1> QED BY <1>2, <1>3, <1>4, RoundPollers DEF Next

LEMMA RoundInit == Init => RoundReachesAll
  BY DEF Init, RoundReachesAll, Notifying

LEMMA CallsCorrect == Spec => [](TypeOK /\ RunnableInv /\ RoundReachesAll /\ CallsInv)
  BY RunnableCorrect, CallsInit, CallsStep, RoundInit, RoundStep, PTL DEF Spec

(* The invariant is inductive, and holds. *)
THEOREM InductiveInvHolds == Spec => []InductiveInv
<1>1. TypeOK /\ RunnableInv /\ RoundReachesAll /\ CallsInv => InductiveInv
  BY DEF RunnableInv, CallsInv, InductiveInv
<1> QED BY <1>1, CallsCorrect, PTL

(* getNextBlockHeader cannot sleep through the notification it waits for:  *)
(* its listener is registered under the monitor that its callback takes.   *)
THEOREM NotificationsAreNotLost == Spec => []NoLostNotification
<1>1. CallsInv => NoLostNotification
  BY DEF CallsInv
<1> QED BY <1>1, CallsCorrect, PTL

(* Every call of getNextBlockHeader that returns has unregistered its      *)
(* listener, and nobody registers it again.                                *)
THEOREM ReturnsClean == Spec => []ReturnedUnregistered
<1>1. CallsInv => ReturnedUnregistered
  BY DEF CallsInv
<1> QED BY <1>1, CallsCorrect, PTL

(* A round that nothing interferes with reaches every listener it passes. *)
THEOREM RoundsReachAll == Spec => []RoundReachesAll
  BY CallsCorrect, PTL

=============================================================================
