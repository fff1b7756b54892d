--------------------------- MODULE KeWaitPromises ---------------------------
(* What the dispatcher promises those who use it: every step conserves the   *)
(* units of the semaphores of KeWait, as long as no thread polls; and every  *)
(* step is a step of the line of WaitSpec, or none.                          *)
EXTENDS KeWaitLine, KeWaitProofs, FiniteSetTheorems

(* the threads that were given a unit of s and have not been told yet *)
Grants(s) == {t \in Threads : Granted(t, s)}

(* They are finitely many.                                                   *)
LEMMA GrantsFinite ==
    ASSUME NEW s
    PROVE  IsFiniteSet(Grants(s)) /\ Cardinality(Grants(s)) \in Nat
<1>1. Grants(s) \in SUBSET Threads
    BY Zenon DEF Grants
<1>2. IsFiniteSet(Grants(s))
    BY Zenon, <1>1, FS_Subset, FiniteAssumption
<1> QED BY Zenon, <1>2, FS_CardinalityType

(* no wait is satisfied or ends *)
KeepsGrants ==
    \A u \in Threads : /\ InWait(u)' <=> InWait(u)
                       /\ InWait(u) => obj'[u] = obj[u] /\ block'[u] = block[u]

(* A step that satisfies and ends no wait conserves the units if it gives the *)
(* count what it gives the balance.                                          *)
LEMMA TokensKept ==
    ASSUME TypeOK, TypeOK', TokensConserved, KeepsGrants,
           \A s \in Semaphores : balance'[s] - signalled'[s] = balance[s] - signalled[s]
    PROVE  TokensConserved'
<1> SUFFICES ASSUME NEW s \in Semaphores
             PROVE  balance'[s] = signalled'[s] + Cardinality(Grants(s)')
    BY Zenon DEF TokensConserved, Grants
<1>1. Grants(s)' = Grants(s)
    BY Zenon DEF KeepsGrants, Grants, Granted
<1>2. balance[s] = signalled[s] + Cardinality(Grants(s))
    BY Zenon DEF TokensConserved, Grants
<1>3. /\ balance[s] \in Int /\ signalled[s] \in Int
      /\ balance'[s] \in Int /\ signalled'[s] \in Int
    BY DEF TypeOK, ObjectTypes, CallerTypes, Objects
<1>4. Cardinality(Grants(s)) \in Nat
    BY Zenon, GrantsFinite
<1> QED BY <1>1, <1>2, <1>3, <1>4

(* no step that leaves the counts and the balances alone *)
LEMMA TokensAside ==
    ASSUME TypeOK, TypeOK', TokensConserved, KeepsGrants,
           \A s \in Semaphores : signalled'[s] = signalled[s] /\ balance'[s] = balance[s]
    PROVE  TokensConserved'
<1>1. \A s \in Semaphores : balance'[s] - signalled'[s] = balance[s] - signalled[s]
    BY Zenon
<1> QED BY Zenon, <1>1, TokensKept

(* The steps of a wait before it ends, and of ki_wake_waiters and the timer, *)
(* neither grant nor tell.                                                   *)
LEMMA WaitTokens ==
    ASSUME IInv, TypeOK', TokensConserved, NEW t \in Threads,
           \/ ke_wait_arm(t) \/ ke_wait_commit(t) \/ ke_timer_cancel_lock(t)
           \/ ke_timer_cancel(t) \/ ki_wake_waiter(t) \/ ki_wake_waiters_next(t)
           \/ ki_wake_waiters_done(t) \/ Expiry(t) \/ ki_signal_done(t)
    PROVE  TokensConserved'
<1>1. UNCHANGED <<signalled, balance, block>>
    BY Zenon DEF ke_wait_arm, ke_wait_commit, ke_timer_cancel_lock, ke_timer_cancel,
       ki_wake_waiter, ki_wake_waiters_next, ki_wake_waiters_done, Expiry,
       timer_expiry_dequeue, timer_expiry_signal, ki_signal_done, objectVars,
       threadVars, callerVars
<1>2. KeepsGrants
  <2> USE DEF KeepsGrants, InWait, WaitPCs, IInv, TypeOK, CallTypes
  <2>1. CASE ke_wait_arm(t)
    BY Zenon, <1>1, <2>1 DEF ke_wait_arm
  <2>2. CASE ke_wait_commit(t)
    BY Zenon, <1>1, <2>2 DEF ke_wait_commit, AfterSleep
  <2>3. CASE ke_timer_cancel_lock(t)
    BY Zenon, <1>1, <2>3 DEF ke_timer_cancel_lock
  <2>4. CASE ke_timer_cancel(t)
    BY Zenon, <1>1, <2>4 DEF ke_timer_cancel
  <2>5. CASE ki_wake_waiter(t)
    BY ZenonT(30), <1>1, <2>5 DEF ki_wake_waiter
  <2>6. CASE ki_wake_waiters_next(t)
    BY Zenon, <1>1, <2>6 DEF ki_wake_waiters_next
  <2>7. CASE ki_wake_waiters_done(t)
    BY Zenon, <1>1, <2>7 DEF ki_wake_waiters_done
  <2>8. CASE Expiry(t)
    BY Zenon, <1>1, <2>8 DEF Expiry, timer_expiry_dequeue, timer_expiry_signal, callVars
  <2>9. CASE ki_signal_done(t)
    BY Zenon, <1>1, <2>9 DEF ki_signal_done
  <2> QED BY ZenonT(30), <2>1, <2>2, <2>3, <2>4, <2>5, <2>6, <2>7, <2>8, <2>9
<1> QED BY Zenon, <1>1, <1>2, TokensAside DEF IInv

(* A wait that begins has not been granted anything yet.                     *)
LEMMA EnqueueTokens ==
    ASSUME IInv, TypeOK', TokensConserved, NEW t \in Threads, NEW o \in Objects,
           NEW k \in TimeoutKinds, ke_wait_enqueue(t, o, k)
    PROVE  TokensConserved'
<1>1. /\ UNCHANGED <<signalled, balance>>
      /\ ~InWait(t) /\ block'[t] = "Active"
      /\ \A u \in Threads : u # t => /\ pc'[u] = pc[u] /\ obj'[u] = obj[u]
                                     /\ block'[u] = block[u]
  <2>1. UNCHANGED <<signalled, balance>> /\ pc[t] = "run"
    BY Zenon DEF ke_wait_enqueue, Waits, callerVars
  <2>2. ~InWait(t)
    BY Zenon, <2>1 DEF InWait, WaitPCs
  <2>3. /\ pc' = [pc EXCEPT ![t] = AfterEnqueue(k)]
        /\ obj' = [obj EXCEPT ![t] = o]
        /\ block' = [block EXCEPT ![t] = "Active"]
    BY Zenon DEF ke_wait_enqueue
  <2>4. /\ pc \in [Threads -> PCs] /\ obj \in [Threads -> Objects \cup {NoObject}]
        /\ block \in [Threads -> {"Active", "Deactivated", "Acquired"}]
    BY Zenon DEF IInv, TypeOK, CallTypes, ThreadTypes
  <2> QED BY Zenon, <2>1, <2>2, <2>3, <2>4
<1>2. \A s : Grants(s)' = Grants(s)
  <2>1. ASSUME NEW s, NEW u \in Threads PROVE Granted(u, s)' <=> Granted(u, s)
    <3>1. CASE u = t
      <4>1. "Active" # "Acquired"
        OBVIOUS
      <4> QED BY Zenon, <1>1, <3>1, <4>1 DEF Granted
    <3>2. CASE u # t
      BY Zenon, <1>1, <3>2 DEF Granted, InWait
    <3> QED BY Zenon, <3>1, <3>2
  <2> QED BY Zenon, <2>1 DEF Grants
<1> QED BY Zenon, <1>1, <1>2 DEF TokensConserved, Grants

(* The signalling calls put into the balance what they put into the count.   *)
LEMMA SignalTokens ==
    ASSUME IInv, TypeOK', TokensConserved, NEW t \in Threads,
           \/ ReleaseMutexes(t)
           \/ \E s \in Semaphores : \/ ke_semaphore_release(t, s)
                                    \/ ke_semaphore_release_maxone(t, s)
           \/ \E e \in Events : ke_event_signal(t, e)
    PROVE  TokensConserved'
<1>1. \E o \in Objects : EnterSignal(t, o) /\ pc[t] = "run"
    BY Zenon DEF ReleaseMutexes, ke_mutex_release, ke_semaphore_release,
       ke_semaphore_release_maxone, ke_event_signal, Signals, Objects
<1>2. KeepsGrants
    BY Zenon, <1>1 DEF EnterSignal, KeepsGrants, InWait, WaitPCs, threadVars, IInv,
       TypeOK, CallTypes
<1>3. /\ \A s \in Semaphores : balance[s] \in Int /\ signalled[s] \in Int
      /\ signalled \in [Objects -> Nat] /\ balance \in [Semaphores -> Int]
    BY DEF IInv, TypeOK, ObjectTypes, CallerTypes, Objects
<1>4. \A s \in Semaphores : balance'[s] - signalled'[s] = balance[s] - signalled[s]
  <2>1. CASE ReleaseMutexes(t)
    BY ZenonT(30), <1>3, <2>1, ObjectsAssumption DEF ReleaseMutexes, ke_mutex_release, Objects
  <2>2. CASE \E e \in Events : ke_event_signal(t, e)
    BY ZenonT(30), <1>3, <2>2, ObjectsAssumption DEF ke_event_signal, Objects
  <2>3. ASSUME NEW s \in Semaphores,
               ke_semaphore_release(t, s) \/ ke_semaphore_release_maxone(t, s)
        PROVE  \A p \in Semaphores :
                  balance'[p] - signalled'[p] = balance[p] - signalled[p]
    <3>1. ASSUME NEW n \in Int, signalled' = [signalled EXCEPT ![s] = @ + n],
                 balance' = [balance EXCEPT ![s] = @ + n]
          PROVE  \A p \in Semaphores :
                    balance'[p] - signalled'[p] = balance[p] - signalled[p]
      BY <1>3, <3>1 DEF Objects
    <3>2. CASE ke_semaphore_release(t, s)
      <4>1. PICK n \in 1 .. (MaxCount - signalled[s]) :
               /\ signalled' = [signalled EXCEPT ![s] = @ + n]
               /\ balance' = [balance EXCEPT ![s] = @ + n]
        BY Zenon, <3>2 DEF ke_semaphore_release
      <4>2. n \in Int
        BY <1>3, CountAssumption
      <4> QED BY Zenon, <3>1, <4>1, <4>2
    <3>3. CASE ke_semaphore_release_maxone(t, s) /\ signalled[s] = 0
      <4>1. /\ signalled' = [signalled EXCEPT ![s] = 1]
            /\ balance' = [balance EXCEPT ![s] = @ + 1]
        BY Zenon, <3>3 DEF ke_semaphore_release_maxone
      <4> QED BY <1>3, <3>3, <4>1 DEF Objects
    <3>4. CASE ke_semaphore_release_maxone(t, s) /\ signalled[s] # 0
      BY Zenon, <3>4 DEF ke_semaphore_release_maxone
    <3> QED BY Zenon, <2>3, <3>2, <3>3, <3>4
  <2> QED BY Zenon, <2>1, <2>2, <2>3
<1> QED BY Zenon, <1>2, <1>4, TokensKept DEF IInv

(* A wait that finds a unit takes one off both, a reset takes all off both.  *)
LEMMA AcquireTokens ==
    ASSUME IInv, TypeOK', TokensConserved, NEW t \in Threads,
           \/ \E o \in Objects : ke_wait_acquire(t, o)
           \/ \E s \in Semaphores : ke_semaphore_reset(t, s)
           \/ \E e \in Events : ke_event_clear(t, e)
    PROVE  TokensConserved'
<1>1. UNCHANGED <<pc, obj, block>>
    BY Zenon DEF ke_wait_acquire, ke_semaphore_reset, ke_event_clear, callVars, threadVars
<1>2. KeepsGrants
    BY ZenonT(30), <1>1 DEF KeepsGrants, InWait
<1>3. /\ \A s \in Semaphores : balance[s] \in Int /\ signalled[s] \in Int
      /\ signalled \in [Objects -> Nat] /\ balance \in [Semaphores -> Int]
    BY DEF IInv, TypeOK, ObjectTypes, CallerTypes, Objects
<1>4. \A s \in Semaphores : balance'[s] - signalled'[s] = balance[s] - signalled[s]
  <2>1. ASSUME NEW o \in Objects, ke_wait_acquire(t, o), NEW s \in Semaphores
        PROVE  balance'[s] - signalled'[s] = balance[s] - signalled[s]
    BY <1>3, <2>1, ObjectsAssumption DEF ke_wait_acquire, ki_object_acquire,
       TellAcquired, Objects
  <2>2. ASSUME NEW r \in Semaphores, ke_semaphore_reset(t, r), NEW s \in Semaphores
        PROVE  balance'[s] - signalled'[s] = balance[s] - signalled[s]
    BY <1>3, <2>2 DEF ke_semaphore_reset, Objects
  <2>3. ASSUME NEW e \in Events, ke_event_clear(t, e), NEW s \in Semaphores
        PROVE  balance'[s] - signalled'[s] = balance[s] - signalled[s]
    BY ZenonT(30), <1>3, <2>3, ObjectsAssumption DEF ke_event_clear, callerVars, Objects
  <2> QED BY ZenonT(30), <2>1, <2>2, <2>3
<1> QED BY Zenon, <1>2, <1>4, TokensKept DEF IInv

(* ki_signal drops a wait block that was not granted, ...                    *)
LEMMA SkipTokens ==
    ASSUME IInv, TypeOK', TokensConserved, NEW t \in Threads, ki_signal_skip(t)
    PROVE  TokensConserved'
<1>1. PICK w \in Threads : /\ block[w] = "Active"
                           /\ block' = [block EXCEPT ![w] = "Deactivated"]
    BY Zenon, PopFacts DEF ki_signal_skip, SignalLoops
<1>2. UNCHANGED <<signalled, balance, pc, obj>>
    BY Zenon DEF ki_signal_skip, callVars, callerVars
<1>3. \A u \in Threads : block'[u] = "Acquired" <=> block[u] = "Acquired"
  <2>1. block \in [Threads -> {"Active", "Deactivated", "Acquired"}]
    BY Zenon DEF IInv, TypeOK, ThreadTypes
  <2> QED BY <1>1, <2>1
<1>4. \A s : Grants(s)' = Grants(s)
    BY Zenon, <1>2, <1>3 DEF Grants, Granted, InWait
<1> QED BY Zenon, <1>2, <1>4 DEF TokensConserved, Grants

(* ... or grants one that was not, for one unit of the count.                *)
LEMMA SatisfyTokens ==
    ASSUME IInv, TypeOK', TokensConserved, NEW t \in Threads, ki_signal_satisfy(t)
    PROVE  TokensConserved'
<1>1. PICK w \in Threads, o \in Objects :
         /\ InWait(w) /\ obj[w] = o /\ block[w] = "Active"
         /\ block' = [block EXCEPT ![w] = "Acquired"]
         /\ ki_object_acquire(o, w)
    BY Zenon, PopFacts DEF ki_signal_satisfy, SignalLoops
<1>2. UNCHANGED <<balance, pc, obj>>
    BY Zenon DEF ki_signal_satisfy, callVars, callerVars
<1>3. /\ block'[w] = "Acquired" /\ block[w] # "Acquired"
      /\ \A u \in Threads : u # w => block'[u] = block[u]
  <2>1. block \in [Threads -> {"Active", "Deactivated", "Acquired"}]
    BY ZenonT(30) DEF IInv, TypeOK, ThreadTypes
  <2> QED BY <1>1, <2>1
<1>4. /\ \A s \in Semaphores : balance[s] \in Int /\ signalled[s] \in Int
      /\ signalled \in [Objects -> Nat]
    BY DEF IInv, TypeOK, ObjectTypes, CallerTypes, Objects
<1>5. ASSUME NEW s \in Semaphores
      PROVE  balance'[s] = signalled'[s] + Cardinality(Grants(s)')
  <2>1. balance[s] = signalled[s] + Cardinality(Grants(s))
    BY Zenon DEF TokensConserved, Grants
  <2>2. CASE s = o
    <3>1. Grants(s)' = Grants(s) \cup {w}
      BY Zenon, <1>1, <1>2, <1>3, <2>2 DEF Grants, Granted, InWait
    <3>2. w \notin Grants(s)
      BY Zenon, <1>3 DEF Grants, Granted
    <3>3. Cardinality(Grants(s)') = Cardinality(Grants(s)) + 1
      BY Zenon, <3>1, <3>2, GrantsFinite, FS_AddElement
    <3>4. signalled'[s] = signalled[s] - 1
      BY Zenon, <1>1, <1>4, <2>2, ObjectsAssumption DEF ki_object_acquire, Objects
    <3> QED BY <1>2, <1>4, <2>1, <3>3, <3>4, GrantsFinite
  <2>3. CASE s # o
    <3>1. Grants(s)' = Grants(s)
      BY ZenonT(30), <1>1, <1>2, <1>3, <2>3 DEF Grants, Granted, InWait
    <3>2. signalled'[s] = signalled[s]
      BY Zenon, <1>1, <1>4, <2>3 DEF ki_object_acquire, Objects
    <3> QED BY Zenon, <1>2, <2>1, <3>1, <3>2
  <2> QED BY Zenon, <2>2, <2>3
<1> QED BY Zenon, <1>5 DEF TokensConserved, Grants

(* A wait that ends tells its caller of the unit it was granted.             *)
LEMMA FinishTokens ==
    ASSUME IInv, TypeOK', TokensConserved, NEW t \in Threads, ke_wait_finish(t)
    PROVE  TokensConserved'
<1> DEFINE o == obj[t]
<1>1. /\ signalled' = signalled
      /\ InWait(t) /\ ~InWait(t)'
      /\ \A u \in Threads : u # t => /\ pc'[u] = pc[u] /\ obj'[u] = obj[u]
                                     /\ block'[u] = block[u]
  <2>1. /\ pc[t] = "finish" /\ signalled' = signalled
        /\ pc' = [pc EXCEPT ![t] = "run"]
        /\ obj' = [obj EXCEPT ![t] = NoObject]
        /\ block' = [block EXCEPT ![t] = "Deactivated"]
    BY Zenon DEF ke_wait_finish, Return
  <2>2. /\ pc \in [Threads -> PCs] /\ obj \in [Threads -> Objects \cup {NoObject}]
        /\ block \in [Threads -> {"Active", "Deactivated", "Acquired"}]
    BY Zenon DEF IInv, TypeOK, CallTypes, ThreadTypes
  <2>3. InWait(t) /\ ~InWait(t)'
    BY Zenon, <2>1, <2>2 DEF InWait, WaitPCs
  <2> QED BY Zenon, <2>1, <2>2, <2>3
<1>2. /\ \A s \in Semaphores : balance[s] \in Int /\ signalled[s] \in Int
      /\ balance \in [Semaphores -> Int]
    BY DEF IInv, TypeOK, ObjectTypes, CallerTypes, Objects
<1>3. ASSUME NEW s \in Semaphores
      PROVE  balance'[s] = signalled'[s] + Cardinality(Grants(s)')
  <2>1. balance[s] = signalled[s] + Cardinality(Grants(s))
    BY Zenon DEF TokensConserved, Grants
  <2>2. CASE s = o /\ block[t] = "Acquired"
    <3>1. Grants(s)' = Grants(s) \ {t}
      BY Zenon, <1>1 DEF Grants, Granted, InWait
    <3>2. t \in Grants(s)
      BY Zenon, <1>1, <2>2 DEF Grants, Granted
    <3>3. Cardinality(Grants(s)') = Cardinality(Grants(s)) - 1
      BY ZenonT(30), <3>1, <3>2, GrantsFinite, FS_RemoveElement
    <3>4. balance'[s] = balance[s] - 1
      BY Zenon, <1>2, <2>2 DEF ke_wait_finish, TellAcquired
    <3> QED BY <1>1, <1>2, <2>1, <3>3, <3>4, GrantsFinite
  <2>3. CASE ~(s = o /\ block[t] = "Acquired")
    <3>1. ~Granted(t, s) /\ ~Granted(t, s)'
      BY Zenon, <1>1, <2>3 DEF Granted
    <3>2. \A u \in Threads : Granted(u, s)' <=> Granted(u, s)
      BY Zenon, <1>1, <3>1 DEF Granted, InWait
    <3>3. Grants(s)' = Grants(s)
      BY Zenon, <3>2 DEF Grants
    <3>4. balance'[s] = balance[s]
      BY Zenon, <1>2, <2>3 DEF ke_wait_finish, TellAcquired, callerVars
    <3> QED BY ZenonT(30), <1>1, <2>1, <3>3, <3>4
  <2> QED BY Zenon, <2>2, <2>3
<1> QED BY Zenon, <1>3 DEF TokensConserved, Grants

(* What the threads' code does is an input of the behaviour.                 *)
LEMMA UsesFixed == [Next]_vars => uses' = uses
<1> SUFFICES ASSUME Next PROVE uses' = uses
    BY Zenon DEF vars, callerVars
<1> USE DEF callerVars
<1>1. PICK t \in Threads :
         \/ \E o \in Objects : ke_wait_acquire(t, o)
         \/ \E o \in Objects, k \in TimeoutKinds : ke_wait_enqueue(t, o, k)
         \/ ReleaseMutexes(t)
         \/ \E s \in Semaphores : \/ ke_semaphore_release(t, s)
                                  \/ ke_semaphore_release_maxone(t, s)
                                  \/ ke_semaphore_reset(t, s)
         \/ \E e \in Events : ke_event_signal(t, e) \/ ke_event_clear(t, e)
         \/ Continue(t)
         \/ Expiry(t)
    BY Zenon DEF Next
<1>2. CASE \/ \E o \in Objects : ke_wait_acquire(t, o)
           \/ \E o \in Objects, k \in TimeoutKinds : ke_wait_enqueue(t, o, k)
    BY Zenon, <1>2 DEF ke_wait_acquire, TellAcquired, ke_wait_enqueue
<1>3. CASE \/ ReleaseMutexes(t)
           \/ \E s \in Semaphores : \/ ke_semaphore_release(t, s)
                                    \/ ke_semaphore_release_maxone(t, s)
                                    \/ ke_semaphore_reset(t, s)
           \/ \E e \in Events : ke_event_signal(t, e) \/ ke_event_clear(t, e)
    BY ZenonT(30), <1>3 DEF ReleaseMutexes, ke_mutex_release, ke_semaphore_release,
       ke_semaphore_release_maxone, ke_semaphore_reset, ke_event_signal,
       ke_event_clear, EnterSignal
<1>4. CASE Continue(t)
    BY Zenon, <1>4 DEF Continue, ke_wait_poll, ke_wait_arm, ke_wait_commit,
       ke_timer_cancel_lock, ke_timer_cancel, ke_wait_finish, TellAcquired,
       ki_signal_satisfy, ki_signal_skip, ki_signal_done, ki_wake_waiter,
       ki_wake_waiters_next, ki_wake_waiters_done
<1>5. CASE Expiry(t)
    BY Zenon, <1>5 DEF Expiry, timer_expiry_dequeue, timer_expiry_signal
<1> QED BY Zenon, <1>1, <1>2, <1>3, <1>4, <1>5

(* Without polls every step conserves the units of the semaphores.           *)
LEMMA TokensStep ==
    IInv /\ IInv' /\ PollFree /\ TokensConserved /\ [Next]_vars => TokensConserved'
<1> SUFFICES ASSUME IInv, IInv', PollFree, TokensConserved, [Next]_vars
             PROVE  TokensConserved'
    OBVIOUS
<1>1. TypeOK /\ TypeOK'
    BY Zenon DEF IInv
<1>2. CASE UNCHANGED vars
  <2>1. UNCHANGED <<signalled, balance, pc, obj, block>>
    BY Zenon, <1>2 DEF vars, objectVars, threadVars, callVars, callerVars
  <2>2. KeepsGrants
    BY Zenon, <2>1 DEF KeepsGrants, InWait
  <2> QED BY Zenon, <1>1, <2>1, <2>2, TokensAside
<1>3. CASE Next
  <2>1. PICK t \in Threads :
           \/ \E o \in Objects : ke_wait_acquire(t, o)
           \/ \E o \in Objects, k \in TimeoutKinds : ke_wait_enqueue(t, o, k)
           \/ ReleaseMutexes(t)
           \/ \E s \in Semaphores : \/ ke_semaphore_release(t, s)
                                    \/ ke_semaphore_release_maxone(t, s)
                                    \/ ke_semaphore_reset(t, s)
           \/ \E e \in Events : ke_event_signal(t, e) \/ ke_event_clear(t, e)
           \/ Continue(t)
           \/ Expiry(t)
    BY Zenon, <1>3 DEF Next
  <2>2. CASE \E o \in Objects, k \in TimeoutKinds : ke_wait_enqueue(t, o, k)
    BY Zenon, <1>1, <2>2, EnqueueTokens
  <2>3. CASE \/ ReleaseMutexes(t)
             \/ \E s \in Semaphores : \/ ke_semaphore_release(t, s)
                                      \/ ke_semaphore_release_maxone(t, s)
             \/ \E e \in Events : ke_event_signal(t, e)
    BY Zenon, <1>1, <2>3, SignalTokens
  <2>4. CASE \/ \E o \in Objects : ke_wait_acquire(t, o)
             \/ \E s \in Semaphores : ke_semaphore_reset(t, s)
             \/ \E e \in Events : ke_event_clear(t, e)
    BY Zenon, <1>1, <2>4, AcquireTokens
  <2>5. CASE Continue(t)
    <3>1. ~ke_wait_poll(t)
      <4>1. pc[t] # "poll"
        <5>1. pc[t] = "poll" => obj[t] \in Objects
          BY Zenon DEF IInv, QueueInv, InWait, WaitPCs
        <5> QED BY Zenon, <5>1 DEF IInv, OwnerInv, PollFree
      <4> QED BY Zenon, <4>1 DEF ke_wait_poll
    <3> QED BY ZenonT(30), <1>1, <2>5, <3>1, WaitTokens, FinishTokens, SatisfyTokens,
            SkipTokens DEF Continue
  <2>6. CASE Expiry(t)
    BY Zenon, <1>1, <2>6, WaitTokens
  <2> QED BY Zenon, <2>1, <2>2, <2>3, <2>4, <2>5, <2>6
<1> QED BY Zenon, <1>2, <1>3

(* As long as no thread polls, every unit put into a semaphore is in its     *)
(* count, on its way to one wait that ki_signal satisfied, or was taken by   *)
(* one: for any number of threads and semaphores, and however releases,      *)
(* timeouts and resets interleave.                                           *)
THEOREM UnitsConserved == Spec => [](PollFree => TokensConserved)
<1>1. Init => (PollFree => TokensConserved)
  <2> SUFFICES ASSUME Init, NEW s \in Semaphores
               PROVE  balance[s] = signalled[s] + Cardinality(Grants(s))
    BY Zenon DEF TokensConserved, Grants
  <2>1. Grants(s) = {}
    BY Zenon DEF Grants, Granted, InWait, WaitPCs, Init
  <2>2. balance[s] = SemInit /\ signalled[s] = SemInit
    BY Zenon, ObjectsAssumption DEF Init, Objects
  <2> QED BY <2>1, <2>2, FS_EmptySet, CountAssumption
<1>2. IInv /\ IInv' /\ (PollFree => TokensConserved) /\ [Next]_vars =>
         (PollFree => TokensConserved)'
  <2>1. [Next]_vars => (PollFree' => PollFree)
    BY Zenon, UsesFixed DEF PollFree
  <2> QED BY Zenon, <2>1, TokensStep
<1> QED BY <1>1, <1>2, Invariance, PTL DEF Spec

-----------------------------------------------------------------------------

(* the step is one of the line, or nobody outside sees it *)
LineStep == Outside!SpecNext \/ UNCHANGED Outside!specVars

(* what is seen of a thread stays the same *)
SameView(u) == PhaseOf(u)' = PhaseOf(u) /\ WantOf(u)' = WantOf(u)

SameOrder == \A u, v \in Threads : AheadOf(u, v)' <=> AheadOf(u, v)

(* The mapped variables are what is seen of the threads and their order.     *)
LEMMA SameLine ==
    /\ (\A u \in Threads : SameView(u)) => UNCHANGED <<Phases, Wants>>
    /\ SameOrder => Order' = Order
<1>1. ASSUME \A u \in Threads : SameView(u) PROVE UNCHANGED <<Phases, Wants>>
    BY Zenon, <1>1 DEF SameView, Phases, Wants
<1>2. ASSUME SameOrder PROVE Order' = Order
  <2>1. \A p \in Threads \X Threads : p[1] \in Threads /\ p[2] \in Threads
    OBVIOUS
  <2> QED BY Zenon, <1>2, <2>1 DEF SameOrder, Order
<1> QED BY Zenon, <1>1, <1>2

(* Only t changes its place outside.                                         *)
LEMMA OneMoves ==
    ASSUME NEW t \in Threads, \A u \in Threads : u # t => SameView(u)
    PROVE  /\ Phases' = [Phases EXCEPT ![t] = PhaseOf(t)']
           /\ Wants' = [Wants EXCEPT ![t] = WantOf(t)']
<1>1. ASSUME NEW u \in Threads
      PROVE  /\ PhaseOf(u)' = IF u = t THEN PhaseOf(t)' ELSE PhaseOf(u)
             /\ WantOf(u)' = IF u = t THEN WantOf(t)' ELSE WantOf(u)
  <2>1. CASE u = t
    BY Zenon, <2>1
  <2>2. CASE u # t
    BY Zenon, <2>2 DEF SameView
  <2> QED BY Zenon, <2>1, <2>2
<1>2. Phases' = [u \in Threads |-> IF u = t THEN PhaseOf(t)' ELSE PhaseOf(u)]
    BY Zenon, <1>1 DEF Phases
<1>3. Wants' = [u \in Threads |-> IF u = t THEN WantOf(t)' ELSE WantOf(u)]
    BY Zenon, <1>1 DEF Wants
<1>4. \A x : [Phases EXCEPT ![t] = x]
                = [u \in Threads |-> IF u = t THEN x ELSE PhaseOf(u)]
    BY Zenon DEF Phases
<1>5. \A x : [Wants EXCEPT ![t] = x]
                = [u \in Threads |-> IF u = t THEN x ELSE WantOf(u)]
    BY Zenon DEF Wants
<1> QED BY Zenon, <1>2, <1>3, <1>4, <1>5

(* The mapped order is that of the threads in line, before and after a step. *)
LEMMA OrderFacts ==
    /\ Order \subseteq Threads \X Threads /\ Order' \subseteq Threads \X Threads
    /\ \A u, v \in Threads : <<u, v>> \in Order <=> AheadOf(u, v)
    /\ \A u, v \in Threads : <<u, v>> \in Order' <=> AheadOf(u, v)'
<1>1. Order \subseteq Threads \X Threads /\ Order' \subseteq Threads \X Threads
    BY Zenon DEF Order
<1>2. \A u, v \in Threads : <<u, v>> \in Order <=> AheadOf(u, v)
    BY DEF Order
<1>3. \A u, v \in Threads : <<u, v>> \in Order' <=> AheadOf(u, v)'
    BY DEF Order
<1> QED BY Zenon, <1>1, <1>2, <1>3

(* A thread that is in line no longer, if it was, has stepped out of it if   *)
(* the others are still in their order.                                      *)
LEMMA LeavesLine ==
    ASSUME NEW t \in Threads, ~InLine(t)',
           \A u \in Threads : u # t => (InLine(u)' <=> InLine(u)),
           \A o \in Objects, u, v \in Threads : u # t /\ v # t =>
              (Before(queue'[o], u, v) <=> Before(queue[o], u, v))
    PROVE  Outside!StepOut(t) /\ (~InLine(t) => Order' = Order)
<1>1. ASSUME NEW u \in Threads, NEW v \in Threads
      PROVE  AheadOf(u, v)' <=> AheadOf(u, v) /\ u # t /\ v # t
  <2>1. CASE u = t \/ v = t
    BY Zenon, <2>1 DEF AheadOf
  <2>2. CASE u # t /\ v # t
    BY Zenon, <2>2 DEF AheadOf
  <2> QED BY Zenon, <2>1, <2>2
<1>2. Outside!StepOut(t)
  <2>1. Order' = {p \in Order : p[1] # t /\ p[2] # t}
    BY <1>1, OrderFacts
  <2> QED BY Zenon, <2>1 DEF Outside!StepOut
<1>3. ASSUME ~InLine(t) PROVE Order' = Order
  <2>1. SameOrder
    BY Zenon, <1>1, <1>3 DEF SameOrder, AheadOf
  <2> QED BY Zenon, <2>1, SameLine
<1> QED BY Zenon, <1>2, <1>3

(* A thread is in line for an object exactly if its wait block is queued     *)
(* there and nobody satisfied its wait.                                      *)
LEMMA LineFacts ==
    ASSUME IInv
    PROVE  /\ \A t \in Threads : InLine(t) <=> Phases[t] = "line"
           /\ \A t \in Threads : InLine(t) =>
                 obj[t] \in Objects /\ Queued(obj[t], t) /\ Wants[t] = obj[t]
           /\ \A t \in Threads, o \in Objects :
                 t \in Outside!Line(o) <=> Queued(o, t) /\ status[t] # "Satisfied"
<1>1. ASSUME NEW t \in Threads PROVE InLine(t) <=> Phases[t] = "line"
  <2>1. Phases[t] = PhaseOf(t)
    BY Zenon DEF Phases
  <2>2. InLine(t) => block[t] = "Active"
    BY Zenon DEF IInv, StatusInv, StatusOf, InLine
  <2> QED BY <2>1, <2>2 DEF PhaseOf, InLine
<1>2. ASSUME NEW t \in Threads, InLine(t)
      PROVE  obj[t] \in Objects /\ Queued(obj[t], t) /\ Wants[t] = obj[t]
  <2>1. Wants[t] = obj[t]
    BY Zenon, <1>2 DEF Wants, WantOf, InLine
  <2>2. obj[t] \in Objects /\ block[t] = "Active"
    BY ZenonT(30), <1>2 DEF IInv, StatusInv, StatusOf, QueueInv, InLine
  <2> QED BY Zenon, <1>2, <2>1, <2>2 DEF IInv, QueueInv, InLine
<1>3. ASSUME NEW t \in Threads, NEW o \in Objects
      PROVE  t \in Outside!Line(o) <=> Queued(o, t) /\ status[t] # "Satisfied"
  <2>1. t \in Outside!Line(o) <=> InLine(t) /\ Wants[t] = o
    BY Zenon, <1>1 DEF Outside!Line
  <2>2. Queued(o, t) => InWait(t) /\ obj[t] = o
    BY Zenon DEF IInv, QueueInv
  <2> QED BY Zenon, <1>2, <2>1, <2>2 DEF InLine
<1> QED BY Zenon, <1>1, <1>2, <1>3

(* A step that leaves the queues alone, and neither satisfies a wait nor     *)
(* begins or ends one, keeps everybody's place.                              *)
LEMMA SameOrderKept ==
    ASSUME queue' = queue, \A u \in Threads : InLine(u)' <=> InLine(u)
    PROVE  SameOrder
BY Zenon DEF SameOrder, AheadOf

(* every wait is as it was, as far as is seen outside *)
Quiet ==
    /\ queue' = queue
    /\ \A u \in Threads :
          /\ InWait(u)' <=> InWait(u)
          /\ InWait(u) =>
                /\ obj'[u] = obj[u] /\ block'[u] = block[u]
                /\ status'[u] = "Satisfied" <=> status[u] = "Satisfied"

(* The line is as it was after such a step.                                  *)
LEMMA QuietStep ==
    ASSUME Quiet
    PROVE  UNCHANGED <<Order, Phases, Wants>>
<1>1. ASSUME NEW u \in Threads PROVE SameView(u)
    BY Zenon DEF Quiet, SameView, PhaseOf, WantOf
<1>2. SameOrder
    BY Zenon, SameOrderKept DEF Quiet, InLine
<1> QED BY Zenon, <1>1, <1>2, SameLine

(* The steps of a wait between its beginning and its end, the end of         *)
(* ki_signal, and those of ki_wake_waiters are not seen outside.             *)
LEMMA WaitLine ==
    ASSUME IInv, NEW t \in Threads,
           \/ ke_wait_arm(t) \/ ke_wait_commit(t) \/ ke_timer_cancel_lock(t)
           \/ ke_timer_cancel(t) \/ ki_wake_waiter(t) \/ ki_wake_waiters_next(t)
           \/ ki_wake_waiters_done(t) \/ timer_expiry_dequeue(t) \/ ki_signal_done(t)
    PROVE  LineStep
<1>1. UNCHANGED <<signalled, owner, queue, block>>
    BY Zenon DEF ke_wait_arm, ke_wait_commit, ke_timer_cancel_lock, ke_timer_cancel,
       ki_wake_waiter, ki_wake_waiters_next, ki_wake_waiters_done,
       timer_expiry_dequeue, ki_signal_done, objectVars, threadVars
<1>2. Quiet
  <2> USE DEF Quiet, InWait, WaitPCs, IInv, TypeOK, CallTypes, threadVars
  <2>1. CASE ke_wait_arm(t)
    BY ZenonT(30), <1>1, <2>1 DEF ke_wait_arm
  <2>2. CASE ke_wait_commit(t)
    <3>1. \A u \in Threads : status'[u] = "Satisfied" <=> status[u] = "Satisfied"
      BY <2>2 DEF ke_wait_commit, ThreadTypes
    <3> QED BY ZenonT(30), <1>1, <2>2, <3>1 DEF ke_wait_commit, AfterSleep
  <2>3. CASE ke_timer_cancel_lock(t)
    BY Zenon, <1>1, <2>3 DEF ke_timer_cancel_lock
  <2>4. CASE ke_timer_cancel(t)
    BY Zenon, <1>1, <2>4 DEF ke_timer_cancel
  <2>5. CASE ki_wake_waiter(t)
    BY Zenon, <1>1, <2>5 DEF ki_wake_waiter
  <2>6. CASE ki_wake_waiters_next(t)
    BY Zenon, <1>1, <2>6 DEF ki_wake_waiters_next
  <2>7. CASE ki_wake_waiters_done(t)
    BY ZenonT(30), <1>1, <2>7 DEF ki_wake_waiters_done
  <2>8. CASE timer_expiry_dequeue(t)
    BY Zenon, <1>1, <2>8 DEF timer_expiry_dequeue, callVars
  <2>9. CASE ki_signal_done(t)
    BY Zenon, <1>1, <2>9 DEF ki_signal_done
  <2> QED BY ZenonT(30), <2>1, <2>2, <2>3, <2>4, <2>5, <2>6, <2>7, <2>8, <2>9
<1> QED BY Zenon, <1>1, <1>2, QuietStep DEF LineStep, Outside!specVars

(* ki_object_acquire takes a unit of the object for a thread.                *)
LEMMA GiveFacts ==
    ASSUME IInv, NEW o \in Objects, NEW t, signalled[o] > 0, ki_object_acquire(o, t)
    PROVE  Outside!Give(o, t)
<1>1. signalled \in [Objects -> Nat]
    BY Zenon DEF IInv, TypeOK, ObjectTypes
<1>2. owner' = IF o \in Mutexes THEN [owner EXCEPT ![o] = t] ELSE owner
    BY Zenon DEF ki_object_acquire
<1>3. CASE o \in Events
  <2>1. signalled' = [signalled EXCEPT ![o] = @]
    BY Zenon, <1>3 DEF ki_object_acquire
  <2>2. signalled' = signalled
    BY Zenon, <1>1, <2>1
  <2> QED BY Zenon, <1>2, <1>3, <2>2 DEF Outside!Give
<1>4. CASE o \notin Events
  <2>1. signalled' = [signalled EXCEPT ![o] = @ - 1]
    BY Zenon, <1>4 DEF ki_object_acquire
  <2> QED BY Zenon, <1>2, <1>4, <2>1 DEF Outside!Give
<1> QED BY Zenon, <1>3, <1>4

(* A wait that finds a unit takes it past nobody: the queue of a signalled   *)
(* object at rest is empty.                                                  *)
LEMMA AcquireLine ==
    ASSUME IInv, NEW t \in Threads, NEW o \in Objects, ke_wait_acquire(t, o)
    PROVE  LineStep
<1>1. /\ pc[t] = "run" /\ lock[o] = NoThread /\ signalled[o] > 0
      /\ UNCHANGED <<queue, pc, obj, block>>
      /\ ki_object_acquire(o, t)
      /\ status' = [status EXCEPT ![t] = "Satisfied"]
    BY Zenon DEF ke_wait_acquire, Waits, callVars
<1>2. ~InWait(t)
    BY Zenon, <1>1 DEF InWait, WaitPCs
<1>3. \A u \in Threads : u # t => status'[u] = status[u]
    BY Zenon, <1>1 DEF IInv, TypeOK, ThreadTypes
<1>4. Quiet
    BY Zenon, <1>1, <1>2, <1>3 DEF Quiet, InWait
<1>5. Outside!Line(o) = {}
  <2>1. queue[o] = <<>>
    BY Zenon, <1>1 DEF IInv, RestInv
  <2>2. \A u \in Threads : ~Queued(o, u)
    BY Zenon, <2>1, EmptyDistinct DEF Queued
  <2>3. \A u \in Threads : u \notin Outside!Line(o)
    BY Zenon, <2>2, LineFacts
  <2> QED BY Zenon, <2>3 DEF Outside!Line
<1>6. Phases[t] = "out"
    BY Zenon, <1>2 DEF Phases, PhaseOf
<1>7. Outside!Give(o, t)
    BY Zenon, <1>1, GiveFacts
<1>8. UNCHANGED <<Order, Phases, Wants>>
    BY Zenon, <1>4, QuietStep
<1>9. Outside!TakeNow(t, o)
    BY Zenon, <1>5, <1>6, <1>7, <1>8 DEF Outside!TakeNow
<1> QED BY Zenon, <1>9 DEF LineStep, Outside!SpecNext

(* A wait that is queued joins the line behind all the others.               *)
LEMMA EnqueueLine ==
    ASSUME IInv, NEW t \in Threads, NEW o \in Objects, NEW k \in TimeoutKinds,
           ke_wait_enqueue(t, o, k)
    PROVE  LineStep
<1>1. /\ pc[t] = "run" /\ signalled[o] = 0
      /\ UNCHANGED <<signalled, owner>>
      /\ queue' = [queue EXCEPT ![o] = Append(@, t)]
      /\ pc' = [pc EXCEPT ![t] = AfterEnqueue(k)]
      /\ obj' = [obj EXCEPT ![t] = o]
      /\ block' = [block EXCEPT ![t] = "Active"]
      /\ status' = [status EXCEPT ![t] = "Preparing"]
    BY Zenon DEF ke_wait_enqueue, Waits, InsertTail
<1>2. /\ pc \in [Threads -> PCs] /\ obj \in [Threads -> Objects \cup {NoObject}]
      /\ block \in [Threads -> {"Active", "Deactivated", "Acquired"}]
      /\ status \in [Threads -> {"Preparing", "Waiting", "Satisfied"}]
      /\ queue \in [Objects -> Seq(Threads)]
    BY Zenon DEF IInv, TypeOK, CallTypes, ThreadTypes, ObjectTypes
<1>3. /\ \A u \in Threads : u # t => /\ pc'[u] = pc[u] /\ obj'[u] = obj[u]
                                     /\ block'[u] = block[u]
                                     /\ status'[u] = status[u]
      /\ pc'[t] = AfterEnqueue(k) /\ obj'[t] = o /\ block'[t] = "Active"
      /\ status'[t] = "Preparing"
    BY Zenon, <1>1, <1>2
<1>4. ~InWait(t) /\ InWait(t)'
    BY Zenon, <1>1, <1>3 DEF InWait, WaitPCs, AfterEnqueue
<1>5. /\ PhaseOf(t) = "out" /\ PhaseOf(t)' = "line" /\ WantOf(t)' = o
      /\ ~InLine(t) /\ InLine(t)'
    BY <1>3, <1>4 DEF PhaseOf, WantOf, InLine
<1>6. \A u \in Threads : u # t => SameView(u) /\ (InLine(u)' <=> InLine(u))
    BY Zenon, <1>3 DEF SameView, PhaseOf, WantOf, InWait, InLine
<1>7. /\ Phases[t] = "out"
      /\ Phases' = [Phases EXCEPT ![t] = "line"]
      /\ Wants' = [Wants EXCEPT ![t] = o]
    BY Zenon, <1>5, <1>6, OneMoves DEF Phases
<1>8. \A p \in Objects : ~Queued(p, t)
    BY Zenon, <1>4 DEF IInv, QueueInv
<1>9. /\ queue[o] \in Seq(Threads) /\ ~OnQueue(queue[o], t)
      /\ queue'[o] = Append(queue[o], t)
      /\ \A p \in Objects : p # o => queue'[p] = queue[p]
    BY Zenon, <1>1, <1>2, <1>8 DEF Queued
<1>10. \A u, v \in Threads : Before(queue'[o], u, v) <=>
          Before(queue[o], u, v) \/ (Queued(o, u) /\ v = t)
  <2>1. \A u, v \in Threads : Before(Append(queue[o], t), u, v) <=>
           Before(queue[o], u, v) \/ (OnQueue(queue[o], u) /\ v = t)
    BY Zenon, <1>9, AppendBefore
  <2> QED BY Zenon, <1>9, <2>1 DEF Queued
<1>11. \A p \in Objects, u \in Threads : ~Before(queue[p], u, t) /\ ~Before(queue[p], t, u)
    BY Zenon, <1>2, <1>8, BeforeOnQueue DEF Queued
<1>12. ASSUME NEW u \in Threads, NEW v \in Threads
       PROVE  AheadOf(u, v)' <=> AheadOf(u, v) \/ (u \in Outside!Line(o) /\ v = t)
  <2>1. u \in Outside!Line(o) <=> InLine(u) /\ Queued(o, u)
    <3>1. Queued(o, u) => InWait(u)
      BY Zenon DEF IInv, QueueInv
    <3> QED BY Zenon, <3>1, LineFacts DEF InLine
  <2>2. CASE v = t
    <3>1. AheadOf(u, v)' <=> InLine(u)' /\ Queued(o, u)
      BY Zenon, <1>5, <1>9, <1>10, <1>11, <2>2 DEF AheadOf
    <3>2. ~AheadOf(u, v)
      BY Zenon, <1>11, <2>2 DEF AheadOf
    <3>3. Queued(o, u) => u # t
      BY Zenon, <1>8
    <3> QED BY Zenon, <1>6, <2>1, <2>2, <3>1, <3>2, <3>3
  <2>3. CASE v # t
    <3>1. (\E p \in Objects : Before(queue'[p], u, v)) <=>
             (\E p \in Objects : Before(queue[p], u, v))
      BY Zenon, <1>9, <1>10, <2>3
    <3>2. CASE u = t
      BY Zenon, <1>11, <2>3, <3>1, <3>2 DEF AheadOf
    <3>3. CASE u # t
      BY Zenon, <1>6, <2>3, <3>1, <3>3 DEF AheadOf
    <3> QED BY Zenon, <3>2, <3>3
  <2> QED BY Zenon, <2>2, <2>3
<1>13. Order' = Order \cup (Outside!Line(o) \X {t})
  <2>1. \A u : u \in Outside!Line(o) => u \in Threads
    BY Zenon DEF Outside!Line
  <2> QED BY <1>12, <2>1, OrderFacts
<1>14. Outside!Join(t, o)
    BY Zenon, <1>1, <1>7, <1>13 DEF Outside!Join
<1> QED BY Zenon, <1>14 DEF LineStep, Outside!SpecNext

(* ki_signal pops the first of the queue, and everybody else stays in order. *)
LEMMA PopLine ==
    ASSUME IInv, NEW o \in Objects, queue[o] # <<>>,
           queue' = [queue EXCEPT ![o] = Tail(@)]
    PROVE  LET w == Head(queue[o]) IN
           /\ \A u \in Threads : ~Before(queue[o], u, w)
           /\ \A p \in Objects, u, v \in Threads : u # w /\ v # w =>
                 (Before(queue'[p], u, v) <=> Before(queue[p], u, v))
<1> DEFINE w == Head(queue[o])
<1>1. /\ queue[o] \in Seq(Threads) /\ IsInjective(queue[o])
      /\ queue'[o] = Tail(queue[o])
      /\ \A p \in Objects : p # o => queue'[p] = queue[p]
    BY Zenon DEF IInv, TypeOK, ObjectTypes, QueueInv
<1>2. /\ \A u \in Threads : ~Before(queue[o], u, w)
      /\ \A u, v \in Threads : Before(Tail(queue[o]), u, v) <=>
                                  Before(queue[o], u, v) /\ u # w
    BY Zenon, <1>1, TailBefore
<1> HIDE DEF w
<1>3. ASSUME NEW p \in Objects, NEW u \in Threads, NEW v \in Threads, u # w, v # w
      PROVE  Before(queue'[p], u, v) <=> Before(queue[p], u, v)
  <2>1. CASE p = o
    BY Zenon, <1>1, <1>2, <1>3, <2>1
  <2>2. CASE p # o
    BY Zenon, <1>1, <2>2
  <2> QED BY Zenon, <2>1, <2>2
<1> QED BY Zenon, <1>2, <1>3 DEF w

(* ki_signal grants a unit to the first in line, ...                         *)
LEMMA SatisfyLine ==
    ASSUME IInv, NEW t \in Threads, ki_signal_satisfy(t)
    PROVE  LineStep
<1>1. PICK o \in Objects, w \in Threads :
         /\ o = obj[t] /\ w = Head(queue[o]) /\ queue[o] # <<>>
         /\ InWait(w) /\ obj[w] = o /\ block[w] = "Active"
         /\ queue' = [queue EXCEPT ![o] = Tail(@)]
         /\ signalled[o] > 0 /\ status[w] # "Satisfied"
         /\ status' = [status EXCEPT ![w] = "Satisfied"]
         /\ block' = [block EXCEPT ![w] = "Acquired"]
         /\ ki_object_acquire(o, w)
    BY PopFacts, Zenon DEF ki_signal_satisfy, SignalLoops, Satisfiable
<1>2. UNCHANGED <<pc, obj>>
    BY Zenon DEF ki_signal_satisfy, callVars
<1>3. /\ status'[w] = "Satisfied" /\ block'[w] = "Acquired"
      /\ \A u \in Threads : u # w =>
            status'[u] = status[u] /\ block'[u] = block[u]
    BY Zenon, <1>1 DEF IInv, TypeOK, ThreadTypes
<1>4. /\ PhaseOf(w)' = "granted" /\ WantOf(w)' = WantOf(w)
      /\ InLine(w) /\ ~InLine(w)'
    BY Zenon, <1>1, <1>2, <1>3 DEF PhaseOf, WantOf, InLine, InWait
<1>5. \A u \in Threads : u # w => SameView(u) /\ (InLine(u)' <=> InLine(u))
    BY Zenon, <1>2, <1>3 DEF SameView, PhaseOf, WantOf, InWait, InLine
<1>6. /\ Phases' = [Phases EXCEPT ![w] = "granted"]
      /\ Wants' = Wants
  <2>1. Phases' = [Phases EXCEPT ![w] = "granted"]
    BY Zenon, <1>4, <1>5, OneMoves
  <2>2. Wants' = Wants
    BY Zenon, <1>4, <1>5 DEF SameView, Wants
  <2> QED BY Zenon, <2>1, <2>2
<1>7. Outside!StepOut(w)
    BY Zenon, <1>1, <1>4, <1>5, PopLine, LeavesLine
<1>8. w \in Outside!Line(o)
    BY Zenon, <1>1, LineFacts DEF IInv, QueueInv
<1>9. ASSUME NEW u \in Threads PROVE <<u, w>> \notin Order
  <2>1. ~Before(queue[o], u, w)
    BY Zenon, <1>1, PopLine
  <2>2. \A p \in Objects : p # o => ~OnQueue(queue[p], w)
    BY Zenon, <1>1 DEF IInv, QueueInv, Queued
  <2>3. \A p \in Objects : p # o => ~Before(queue[p], u, w)
    BY Zenon, <2>2, BeforeOnQueue DEF IInv, TypeOK, ObjectTypes
  <2>4. ~AheadOf(u, w)
    BY Zenon, <2>1, <2>3 DEF AheadOf
  <2> QED BY Zenon, <2>4, OrderFacts
<1>10. Outside!Give(o, w)
    BY Zenon, <1>1, GiveFacts
<1>11. Outside!Grant(w, o)
    BY Zenon, <1>6, <1>7, <1>8, <1>9, <1>10 DEF Outside!Grant
<1> QED BY Zenon, <1>11 DEF LineStep, Outside!SpecNext

(* ... and drops the wait block of one that has left it.                     *)
LEMMA SkipLine ==
    ASSUME IInv, NEW t \in Threads, ki_signal_skip(t)
    PROVE  LineStep
<1>1. PICK o \in Objects, w \in Threads :
         /\ o = obj[t] /\ w = Head(queue[o]) /\ queue[o] # <<>>
         /\ InWait(w) /\ block[w] = "Active"
         /\ queue' = [queue EXCEPT ![o] = Tail(@)]
         /\ status[w] = "Satisfied"
         /\ block' = [block EXCEPT ![w] = "Deactivated"]
    BY PopFacts, Zenon DEF ki_signal_skip, SignalLoops, Satisfiable
<1>2. UNCHANGED <<signalled, owner, status, pc, obj>>
    BY Zenon DEF ki_signal_skip, callVars
<1>3. /\ block'[w] = "Deactivated"
      /\ \A u \in Threads : u # w => block'[u] = block[u]
    BY Zenon, <1>1 DEF IInv, TypeOK, ThreadTypes
<1>4. /\ block'[w] # "Acquired" /\ block[w] # "Acquired"
    BY <1>1, <1>3
<1>5. SameView(w) /\ ~InLine(w) /\ ~InLine(w)'
    BY Zenon, <1>1, <1>2, <1>4 DEF SameView, PhaseOf, WantOf, InLine, InWait
<1>6. \A u \in Threads : u # w => SameView(u) /\ (InLine(u)' <=> InLine(u))
    BY Zenon, <1>2, <1>3 DEF SameView, PhaseOf, WantOf, InWait, InLine
<1>7. UNCHANGED <<Phases, Wants>>
    BY Zenon, <1>5, <1>6, SameLine
<1>8. Order' = Order
    BY Zenon, <1>1, <1>5, <1>6, PopLine, LeavesLine
<1> QED BY Zenon, <1>2, <1>7, <1>8 DEF LineStep, Outside!specVars

(* A timeout of a wait that nobody satisfied gives up its place; of another  *)
(* one it is not seen.                                                       *)
LEMMA ExpiryLine ==
    ASSUME IInv, NEW t \in Threads, timer_expiry_signal(t)
    PROVE  LineStep
<1>1. /\ timer[t] = "Executing"
      /\ status' = [status EXCEPT ![t] = "Satisfied"]
      /\ UNCHANGED <<signalled, owner, queue, block, pc, obj>>
    BY Zenon DEF timer_expiry_signal, objectVars, callVars
<1>2. InWait(t)
    BY Zenon, <1>1 DEF IInv, StatusInv, StatusOf, InWait, WaitPCs
<1>3. /\ status'[t] = "Satisfied"
      /\ \A u \in Threads : u # t => status'[u] = status[u]
    BY Zenon, <1>1 DEF IInv, TypeOK, ThreadTypes
<1>4. CASE status[t] = "Satisfied"
  <2>1. Quiet
    BY Zenon, <1>1, <1>3, <1>4 DEF Quiet, InWait
  <2> QED BY Zenon, <1>1, <2>1, QuietStep DEF LineStep, Outside!specVars
<1>5. CASE status[t] # "Satisfied"
  <2>1. block[t] # "Acquired"
    <3>1. block[t] = "Active"
      BY ZenonT(30), <1>2, <1>5 DEF IInv, StatusInv, StatusOf
    <3> QED BY <3>1
  <2>2. /\ InLine(t) /\ ~InLine(t)'
        /\ PhaseOf(t)' = "gaveup" /\ WantOf(t)' = WantOf(t)
    BY Zenon, <1>1, <1>2, <1>3, <1>5, <2>1 DEF PhaseOf, WantOf, InLine, InWait
  <2>3. \A u \in Threads : u # t => SameView(u) /\ (InLine(u)' <=> InLine(u))
    BY Zenon, <1>1, <1>3 DEF SameView, PhaseOf, WantOf, InWait, InLine
  <2>4. Phases' = [Phases EXCEPT ![t] = "gaveup"]
    BY Zenon, <2>2, <2>3, OneMoves
  <2>5. Wants' = Wants
    BY Zenon, <2>2, <2>3 DEF SameView, Wants
  <2>6. Outside!StepOut(t)
    <3>1. \A p \in Objects, u, v \in Threads : u # t /\ v # t =>
             (Before(queue'[p], u, v) <=> Before(queue[p], u, v))
      BY Zenon, <1>1
    <3>2. \A u \in Threads : u # t => (InLine(u)' <=> InLine(u))
      BY Zenon, <2>3
    <3> QED BY Zenon, <2>2, <3>1, <3>2, LeavesLine
  <2>7. Phases[t] = "line"
    BY Zenon, <2>2, LineFacts
  <2>8. Outside!GiveUp(t)
    BY Zenon, <1>1, <2>4, <2>5, <2>6, <2>7 DEF Outside!GiveUp
  <2> QED BY Zenon, <2>8 DEF LineStep, Outside!SpecNext
<1> QED BY Zenon, <1>4, <1>5

(* Removing a wait block leaves the others in their order.                   *)
LEMMA RemoveLine ==
    ASSUME IInv, NEW o \in Objects, NEW t \in Threads, RemoveBlock(o, t)
    PROVE  \A p \in Objects, u, v \in Threads : u # t /\ v # t =>
              (Before(queue'[p], u, v) <=> Before(queue[p], u, v))
<1>1. queue \in [Objects -> Seq(Threads)] /\ IsInjective(queue[o])
    BY Zenon DEF IInv, TypeOK, ObjectTypes, QueueInv
<1>2. PICK i \in 1 .. Len(queue[o]) :
         queue[o][i] = t /\ queue' = [queue EXCEPT ![o] = Unlink(@, i)]
    BY Zenon DEF RemoveBlock
<1>3. /\ queue[o] \in Seq(Threads)
      /\ queue'[o] = Unlink(queue[o], i)
      /\ \A p \in Objects : p # o => queue'[p] = queue[p]
    BY Zenon, <1>1, <1>2
<1>4. \A u, v \in Threads : Before(Unlink(queue[o], i), u, v) <=>
         Before(queue[o], u, v) /\ u # queue[o][i] /\ v # queue[o][i]
  <2>1. i \in 1 .. Len(queue[o])
    OBVIOUS
  <2> HIDE <1>2
  <2> QED BY Zenon, <1>1, <1>3, <2>1, RemoveBefore
<1>5. ASSUME NEW p \in Objects, NEW u \in Threads, NEW v \in Threads, u # t, v # t
      PROVE  Before(queue'[p], u, v) <=> Before(queue[p], u, v)
  <2>1. CASE p = o
    BY Zenon, <1>2, <1>3, <1>4, <1>5, <2>1
  <2>2. CASE p # o
    BY Zenon, <1>3, <2>2
  <2> QED BY Zenon, <2>1, <2>2
<1> QED BY Zenon, <1>5

(* A wait that returns leaves: with what it was granted, with nothing after  *)
(* it gave up, or, a poll, straight out of the line.                         *)
LEMMA ReturnLine ==
    ASSUME IInv, NEW t \in Threads, InWait(t), Return(t),
           UNCHANGED <<signalled, owner, status>>,
           queue' = queue \/ RemoveBlock(obj[t], t)
    PROVE  LineStep
<1>1. /\ pc' = [pc EXCEPT ![t] = "run"]
      /\ obj' = [obj EXCEPT ![t] = NoObject]
      /\ block' = [block EXCEPT ![t] = "Deactivated"]
    BY Zenon DEF Return
<1>2. /\ pc'[t] = "run"
      /\ \A u \in Threads : u # t =>
            pc'[u] = pc[u] /\ obj'[u] = obj[u] /\ block'[u] = block[u]
    BY Zenon, <1>1 DEF IInv, TypeOK, CallTypes, ThreadTypes
<1>3. ~InWait(t)'
    BY Zenon, <1>2 DEF InWait, WaitPCs
<1>4. PhaseOf(t)' = "out" /\ WantOf(t)' = NoObject /\ ~InLine(t)'
    BY Zenon, <1>3 DEF PhaseOf, WantOf, InLine
<1>5. \A u \in Threads : u # t => SameView(u) /\ (InLine(u)' <=> InLine(u))
    BY Zenon, <1>2 DEF SameView, PhaseOf, WantOf, InWait, InLine
<1>6. /\ Phases' = [Phases EXCEPT ![t] = "out"]
      /\ Wants' = [Wants EXCEPT ![t] = NoObject]
    BY Zenon, <1>4, <1>5, OneMoves
<1>7. obj[t] \in Objects
    BY Zenon DEF IInv, QueueInv
<1>8. Outside!StepOut(t) /\ (~InLine(t) => Order' = Order)
  <2>1. \A p \in Objects, u, v \in Threads : u # t /\ v # t =>
           (Before(queue'[p], u, v) <=> Before(queue[p], u, v))
    BY Zenon, <1>7, RemoveLine
  <2> QED BY Zenon, <1>4, <1>5, <2>1, LeavesLine
<1>9. CASE InLine(t)
  <2>1. Phases[t] = "line"
    BY Zenon, <1>9, LineFacts
  <2>2. Outside!Balk(t)
    BY Zenon, <1>6, <1>8, <2>1 DEF Outside!Balk
  <2> QED BY Zenon, <2>2 DEF LineStep, Outside!SpecNext
<1>10. CASE ~InLine(t)
  <2>1. Phases[t] \in {"granted", "gaveup"}
    BY Zenon, <1>10 DEF Phases, PhaseOf, InLine
  <2>2. Outside!Leave(t)
    BY Zenon, <1>6, <1>8, <1>10, <2>1 DEF Outside!Leave
  <2> QED BY Zenon, <2>2 DEF LineStep, Outside!SpecNext
<1> QED BY Zenon, <1>9, <1>10

(* The line is as it was when a thread has entered ki_signal.                *)
LEMMA EnterLine ==
    ASSUME IInv, NEW t \in Threads, NEW o, pc[t] = "run", EnterSignal(t, o)
    PROVE  Quiet
<1>1. /\ UNCHANGED <<queue, block, status>>
      /\ pc' = [pc EXCEPT ![t] = "signal"]
      /\ obj' = [obj EXCEPT ![t] = o]
    BY Zenon DEF EnterSignal, threadVars
<1>2. ~InWait(t) /\ ~InWait(t)'
    BY Zenon, <1>1 DEF IInv, TypeOK, CallTypes, InWait, WaitPCs
<1>3. \A u \in Threads : u # t => pc'[u] = pc[u] /\ obj'[u] = obj[u]
    BY Zenon, <1>1 DEF IInv, TypeOK, CallTypes
<1> QED BY Zenon, <1>1, <1>2, <1>3 DEF Quiet, InWait

(* The owner of a mutex, and nobody else, puts it back.                      *)
LEMMA ReleaseLine ==
    ASSUME IInv, NEW t \in Threads, NEW m \in Mutexes, ke_mutex_release(t, m)
    PROVE  LineStep
<1>1. /\ pc[t] = "run" /\ m \in held[t]
      /\ owner' = [owner EXCEPT ![m] = NoThread]
      /\ signalled' = [signalled EXCEPT ![m] = @ + 1]
      /\ EnterSignal(t, m)
    BY Zenon DEF ke_mutex_release, Signals
<1>2. owner[m] = t /\ signalled[m] = 0
    BY Zenon, <1>1 DEF IInv, MutexInv
<1>3. signalled' = [signalled EXCEPT ![m] = 1]
  <2>1. signalled[m] + 1 = 1
    BY <1>2
  <2> QED BY Zenon, <1>1, <2>1
<1>4. Quiet
    BY Zenon, <1>1, EnterLine
<1>5. Phases[t] = "out"
    BY Zenon, <1>1 DEF Phases, PhaseOf, InWait, WaitPCs
<1>6. UNCHANGED <<Order, Phases, Wants>>
    BY Zenon, <1>4, QuietStep
<1>7. Outside!PutBack(t, m)
    BY Zenon, <1>1, <1>2, <1>3, <1>5, <1>6 DEF Outside!PutBack
<1> QED BY Zenon, <1>7 DEF LineStep, Outside!SpecNext

(* The count of a semaphore or an event is changed, and nothing else is      *)
(* seen.                                                                     *)
LEMMA ChangeLine ==
    ASSUME IInv, NEW o \in Objects, o \notin Mutexes, Quiet, owner' = owner,
           signalled' \in [Objects -> Nat],
           \A p \in Objects : p # o => signalled'[p] = signalled[p]
    PROVE  LineStep
<1>1. UNCHANGED <<Order, Phases, Wants>>
    BY Zenon, QuietStep
<1>2. signalled \in [Objects -> Nat]
    BY Zenon DEF IInv, TypeOK, ObjectTypes
<1>3. signalled' = [signalled EXCEPT ![o] = signalled'[o]]
    BY Zenon, <1>2
<1>4. signalled'[o] \in Nat
    BY Zenon
<1>5. Outside!Change(o)
    BY Zenon, <1>1, <1>3, <1>4 DEF Outside!Change
<1> QED BY Zenon, <1>5 DEF LineStep, Outside!SpecNext

(* The calls that signal or clear a semaphore or an event change its count.  *)
LEMMA SignalLine ==
    ASSUME IInv, IInv', NEW t \in Threads,
           \/ \E s \in Semaphores : \/ ke_semaphore_release(t, s)
                                    \/ ke_semaphore_release_maxone(t, s)
                                    \/ ke_semaphore_reset(t, s)
           \/ \E e \in Events : ke_event_signal(t, e) \/ ke_event_clear(t, e)
    PROVE  LineStep
<1>1. signalled \in [Objects -> Nat] /\ signalled' \in [Objects -> Nat]
    BY Zenon DEF IInv, TypeOK, ObjectTypes
<1>2. PICK o \in Objects :
         \/ o \in Semaphores /\ \/ ke_semaphore_release(t, o)
                                \/ ke_semaphore_release_maxone(t, o)
                                \/ ke_semaphore_reset(t, o)
         \/ o \in Events /\ (ke_event_signal(t, o) \/ ke_event_clear(t, o))
    BY Zenon DEF Objects
<1>3. o \notin Mutexes
    BY Zenon, <1>2, ObjectsAssumption
<1>4. owner' = owner
    BY Zenon, <1>2 DEF ke_semaphore_release, ke_semaphore_release_maxone,
       ke_semaphore_reset, ke_event_signal, ke_event_clear
<1>5. \A p \in Objects : p # o => signalled'[p] = signalled[p]
    BY Zenon, <1>1, <1>2 DEF ke_semaphore_release, ke_semaphore_release_maxone,
       ke_semaphore_reset, ke_event_signal, ke_event_clear
<1>6. Quiet
  <2>1. CASE EnterSignal(t, o) /\ pc[t] = "run"
    BY Zenon, <2>1, EnterLine
  <2>2. CASE UNCHANGED <<queue, threadVars, callVars>>
    BY Zenon, <2>2 DEF Quiet, InWait, threadVars, callVars
  <2> QED BY Zenon, <1>2, <2>1, <2>2 DEF ke_semaphore_release,
          ke_semaphore_release_maxone, ke_semaphore_reset, ke_event_signal,
          ke_event_clear, Signals
<1> QED BY Zenon, <1>1, <1>3, <1>4, <1>5, <1>6, ChangeLine

(* Every step of the dispatcher is one of the line, or is not seen outside.  *)
LEMMA NextLine == IInv /\ IInv' /\ [Next]_vars => LineStep
<1> SUFFICES ASSUME IInv, IInv', [Next]_vars PROVE LineStep
    OBVIOUS
<1>1. CASE UNCHANGED vars
  <2>1. UNCHANGED <<signalled, owner, queue, status, block, pc, obj>>
    BY Zenon, <1>1 DEF vars, objectVars, threadVars, callVars
  <2>2. Quiet
    BY Zenon, <2>1 DEF Quiet, InWait
  <2> QED BY Zenon, <2>1, <2>2, QuietStep DEF LineStep, Outside!specVars
<1>2. CASE Next
  <2>1. PICK t \in Threads :
           \/ \E o \in Objects : ke_wait_acquire(t, o)
           \/ \E o \in Objects, k \in TimeoutKinds : ke_wait_enqueue(t, o, k)
           \/ ReleaseMutexes(t)
           \/ \E s \in Semaphores : \/ ke_semaphore_release(t, s)
                                    \/ ke_semaphore_release_maxone(t, s)
                                    \/ ke_semaphore_reset(t, s)
           \/ \E e \in Events : ke_event_signal(t, e) \/ ke_event_clear(t, e)
           \/ Continue(t)
           \/ Expiry(t)
    BY Zenon, <1>2 DEF Next
  <2>2. CASE \E o \in Objects : ke_wait_acquire(t, o)
    BY Zenon, <2>2, AcquireLine
  <2>3. CASE \E o \in Objects, k \in TimeoutKinds : ke_wait_enqueue(t, o, k)
    BY Zenon, <2>3, EnqueueLine
  <2>4. CASE ReleaseMutexes(t)
    BY Zenon, <2>4, ReleaseLine DEF ReleaseMutexes
  <2>5. CASE \/ \E s \in Semaphores : \/ ke_semaphore_release(t, s)
                                      \/ ke_semaphore_release_maxone(t, s)
                                      \/ ke_semaphore_reset(t, s)
             \/ \E e \in Events : ke_event_signal(t, e) \/ ke_event_clear(t, e)
    BY Zenon, <2>5, SignalLine
  <2>6. CASE ke_wait_poll(t) \/ ke_wait_finish(t)
    <3>1. InWait(t)
      BY Zenon, <2>6 DEF ke_wait_poll, ke_wait_finish, InWait, WaitPCs
    <3>2. /\ Return(t) /\ UNCHANGED <<signalled, owner, status>>
          /\ queue' = queue \/ RemoveBlock(obj[t], t)
      BY Zenon, <2>6 DEF ke_wait_poll, ke_wait_finish
    <3> QED BY Zenon, <3>1, <3>2, ReturnLine
  <2>7. CASE Continue(t)
    BY Zenon, <2>6, <2>7, WaitLine, SatisfyLine, SkipLine DEF Continue
  <2>8. CASE Expiry(t)
    BY Zenon, <2>8, WaitLine, ExpiryLine DEF Expiry
  <2> QED BY ZenonT(30), <2>1, <2>2, <2>3, <2>4, <2>5, <2>7, <2>8
<1> QED BY Zenon, <1>1, <1>2

(* The dispatcher starts with nobody in line.                                *)
LEMMA InitLine == Init => Outside!SpecInit
<1> SUFFICES ASSUME Init PROVE Outside!SpecInit
    OBVIOUS
<1>1. signalled \in [Objects -> Nat]
    BY Zenon, InitInv DEF IInv, TypeOK, ObjectTypes
<1>2. \A t \in Threads : ~InWait(t)
    BY Zenon DEF Init, InWait, WaitPCs
<1>3. Phases = [t \in Threads |-> "out"]
    BY Zenon, <1>2 DEF Phases, PhaseOf
<1>4. Wants = [t \in Threads |-> NoObject]
    BY Zenon, <1>2 DEF Wants, WantOf
<1>5. Order = {}
  <2>1. \A u, v \in Threads : <<u, v>> \notin Order
    BY Zenon, <1>2, OrderFacts DEF AheadOf, InLine
  <2> QED BY <2>1, OrderFacts
<1>6. owner = [m \in Mutexes |-> NoThread]
    BY Zenon DEF Init
<1> QED BY Zenon, <1>1, <1>3, <1>4, <1>5, <1>6 DEF Outside!SpecInit

(* The dispatcher implements the line of WaitSpec, for any threads, objects, *)
(* workloads and counts: through every race of releases, timeouts and polls  *)
(* ki_signal grants units in order of arrival, a ke_wait that finds the      *)
(* object signalled passes nobody, who timed out has taken nothing, and only *)
(* the owner puts a mutex back.                                              *)
THEOREM LineKept == Spec => KeepsTheLine
<1>1. Init => Outside!SpecInit
    BY Zenon, InitLine
<1>2. IInv /\ IInv' /\ [Next]_vars => [Outside!SpecNext]_(Outside!specVars)
    BY Zenon, NextLine DEF LineStep
<1> QED BY <1>1, <1>2, Invariance, PTL DEF Spec, KeepsTheLine,
        Outside!WaitSpecification
=============================================================================
