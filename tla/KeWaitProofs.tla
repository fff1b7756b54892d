---------------------------- MODULE KeWaitProofs ----------------------------
(* Every step of the dispatcher preserves the invariant of KeWait: those of  *)
(* a thread on its way to sleep, of one that wakes up, of the calls that     *)
(* signal an object, and of ki_signal.  The theorems about the dispatcher.   *)
EXTENDS KeWait, QueueTheorems, TLAPS

USE ObjectsAssumption, NullAssumption

(* A step that is about a thread, not about an object: it leaves the objects, *)
(* the wait blocks and what the callers hold alone, and no thread enters or   *)
(* leaves a wait or ki_signal in it.                                          *)
Aside ==
    /\ UNCHANGED <<signalled, queue, owner, lock, block, obj, held, uses>>
    /\ \A u \in Threads :
          /\ InWait(u)' <=> InWait(u)
          /\ pc'[u] = "signal" <=> pc[u] = "signal"
          /\ pc'[u] = "poll" => pc[u] = "poll"

(* Such a step preserves the invariant if the thread's own state and the      *)
(* cursors of ki_wake_waiters stay in order.                                  *)
LEMMA AsideStep ==
    ASSUME IInv, Aside, TypeOK', CursorInv', StatusInv'
    PROVE  IInv'
<1>1. LockInv' /\ QueueInv' /\ RestInv'
    BY DEF IInv, Aside, LockInv, QueueInv, Queued, RestInv
<1>2. MutexInv'
    BY Zenon DEF IInv, Aside, MutexInv, Granted
<1>3. OwnerInv'
    BY Zenon DEF IInv, Aside, OwnerInv, PollFree, NoPhantomOwner, Granted
<1> QED BY Zenon, <1>1, <1>2, <1>3 DEF IInv

(* a thread whose wait is where it was *)
SameWait(u) ==
    /\ pc'[u] = pc[u] /\ timeout'[u] = timeout[u]
    /\ status'[u] = status[u] /\ state'[u] = state[u]
    /\ block'[u] = block[u] /\ tblock'[u] = tblock[u] /\ timer'[u] = timer[u]

(* A step touches the wait of one thread.                                     *)
LEMMA StatusStep ==
    ASSUME StatusInv, NEW t \in Threads, StatusOf(t)',
           \A u \in Threads : u # t => SameWait(u)
    PROVE  StatusInv'
<1>1. ASSUME NEW u \in Threads, SameWait(u)
      PROVE  StatusOf(u)'
    BY <1>1 DEF StatusInv, StatusOf, InWait, SameWait
<1> QED BY Zenon, <1>1 DEF StatusInv

(* TAILQ_REMOVE of t's wait block from o's queue takes that wait block off   *)
(* and touches no other.                                                     *)
LEMMA RemoveBlockFacts ==
    ASSUME IInv, NEW t \in Threads, NEW o \in Objects, RemoveBlock(o, t)
    PROVE  /\ queue' \in [Objects -> Seq(Threads)]
           /\ next' \in [Threads -> Links]
           /\ \A p \in Objects : IsInjective(queue'[p])
           /\ \A p \in Objects, u \in Threads :
                 Queued(p, u)' <=> Queued(p, u) /\ ~(p = o /\ u = t)
           /\ \A p \in Objects : queue[p] = <<>> => queue'[p] = <<>>
<1> USE DEF IInv, TypeOK, ObjectTypes, ThreadTypes
<1>1. PICK i \in 1 .. Len(queue[o]) :
          /\ queue[o][i] = t
          /\ queue' = [queue EXCEPT ![o] = Unlink(@, i)]
          /\ next' = IF i = 1 THEN next
                     ELSE [next EXCEPT ![queue[o][i - 1]] = next[t]]
    BY Zenon DEF RemoveBlock
<1>2. queue[o] \in Seq(Threads) /\ IsInjective(queue[o]) /\ queue[o] # <<>>
    BY <1>1 DEF QueueInv
<1>3. /\ Unlink(queue[o], i) \in Seq(Threads)
      /\ IsInjective(Unlink(queue[o], i))
      /\ \A u \in Threads : OnQueue(Unlink(queue[o], i), u)
                            <=> OnQueue(queue[o], u) /\ u # t
    BY Zenon, <1>1, <1>2, RemoveDistinct
<1>4. /\ queue'[o] = Unlink(queue[o], i)
      /\ \A p \in Objects : p # o => queue'[p] = queue[p]
    BY Zenon, <1>1
<1>5. queue' \in [Objects -> Seq(Threads)]
    BY Zenon, <1>1, <1>3
<1>6. next' \in [Threads -> Links]
    BY Zenon, <1>1
<1>7. \A p \in Objects : IsInjective(queue'[p])
    <2>1. \A p \in Objects : IsInjective(queue[p])
        BY Zenon DEF QueueInv
    <2> QED BY Zenon, <1>3, <1>4, <2>1
<1>8. \A p \in Objects, u \in Threads :
         Queued(p, u)' <=> Queued(p, u) /\ ~(p = o /\ u = t)
    BY <1>3, <1>4 DEF Queued
<1>9. \A p \in Objects : queue[p] = <<>> => queue'[p] = <<>>
    BY Zenon, <1>2, <1>4
<1> QED BY Zenon, <1>5, <1>6, <1>7, <1>8, <1>9

(* ke_wait on a signalled object preserves the invariant *)
LEMMA AcquireStep ==
    ASSUME IInv, NEW t \in Threads, NEW o \in Objects, ke_wait_acquire(t, o)
    PROVE  IInv'
<1> USE DEF IInv, TypeOK, ke_wait_acquire, ki_object_acquire, TellAcquired,
        Waits, objectVars, threadVars, timerVars, callVars, wakeVars,
        callerVars
<1>1. TypeOK'
    BY SMTT(20) DEF ObjectTypes, Links, Objects, ThreadTypes, TimerTypes,
           CallTypes, PCs, TimeoutKinds, CallerTypes
<1>2. CursorInv' /\ LockInv' /\ RestInv'
    BY DEF CursorInv, CallTypes, LockInv, ObjectTypes, RestInv
<1>3. QueueInv'
    BY Zenon DEF QueueInv, InWait, WaitPCs, Queued, ThreadTypes, CallTypes
<1>4. StatusInv'
    BY DEF StatusInv, StatusOf, InWait, WaitPCs, ThreadTypes,
           TimerTypes, CallTypes
<1>5. MutexInv' /\ OwnerInv'
    BY DEF MutexInv, Granted, InWait, WaitPCs, Objects, Links,
           ObjectTypes, ThreadTypes, CallTypes, CallerTypes, OwnerInv,
           PollFree, NoPhantomOwner
<1> QED BY Zenon, <1>1, <1>2, <1>3, <1>4, <1>5

(* ke_wait on an object that is not signalled preserves the invariant *)
LEMMA EnqueueStep ==
    ASSUME IInv, NEW t \in Threads,
           NEW o \in Objects, NEW k \in TimeoutKinds,
           ke_wait_enqueue(t, o, k)
    PROVE  IInv'
<1> USE DEF IInv, TypeOK, ke_wait_enqueue, Waits, objectVars, threadVars,
        timerVars, callVars, wakeVars, callerVars
<1>1. /\ AfterEnqueue(k) \in {"poll", "arm", "commit"}
      /\ AfterEnqueue(k) \in WaitPCs /\ AfterEnqueue(k) \in PCs
      /\ AfterEnqueue(k) = "poll" => k = "poll"
      /\ AfterEnqueue(k) = "arm" => k = "timed"
    BY Zenon DEF AfterEnqueue, WaitPCs, PCs, TimeoutKinds
<1> USE <1>1
<1>2. ~Queued(o, t) /\ queue[o] \in Seq(Threads) /\ IsInjective(queue[o])
    BY Zenon DEF QueueInv, InWait, WaitPCs, ObjectTypes
<1>3. /\ Append(queue[o], t) \in Seq(Threads)
      /\ IsInjective(Append(queue[o], t))
      /\ \A u \in Threads : OnQueue(Append(queue[o], t), u)
                            <=> OnQueue(queue[o], u) \/ u = t
    BY <1>2, AppendDistinct DEF Queued
<1>4. /\ queue'[o] = Append(queue[o], t)
      /\ \A p \in Objects : p # o => queue'[p] = queue[p]
    BY Zenon DEF InsertTail, ObjectTypes
<1>5. /\ \A p \in Objects : IsInjective(queue'[p])
      /\ \A p \in Objects, u \in Threads :
            Queued(p, u)' <=> Queued(p, u) \/ (p = o /\ u = t)
    <2>1. ASSUME NEW p \in Objects
          PROVE  IsInjective(queue'[p])
        <3>1. CASE p = o
            BY <1>3, <1>4, <3>1, Zenon
        <3>2. CASE p # o
            BY Zenon, <1>4, <3>2 DEF QueueInv
        <3> QED BY Zenon, <3>1, <3>2
    <2>2. ASSUME NEW p \in Objects, NEW u \in Threads
          PROVE  Queued(p, u)' <=> Queued(p, u) \/ (p = o /\ u = t)
        <3>1. CASE p = o
            BY <1>3, <1>4, <3>1, Zenon DEF Queued
        <3>2. CASE p # o
            BY Zenon, <1>4, <3>2 DEF Queued
        <3> QED BY Zenon, <3>1, <3>2
    <2> QED BY Zenon, <2>1, <2>2
<1>6. TypeOK'
    <2>1. ObjectTypes'
        BY Zenon, <1>3 DEF InsertTail, ObjectTypes
    <2>2. ThreadTypes'
        BY Zenon DEF InsertTail, ThreadTypes, Links
    <2>3. CallTypes'
        BY Zenon DEF CallTypes
    <2>4. TimerTypes' /\ CallerTypes'
        BY Zenon DEF TimerTypes, CallerTypes, Objects
    <2> QED BY Zenon, <2>1, <2>2, <2>3, <2>4
<1>7. RestInv'
    BY <1>4 DEF RestInv
<1>8. CursorInv' /\ LockInv'
    BY DEF CursorInv, CallTypes, LockInv
<1>9. QueueInv'
    <2>1. ASSUME NEW p \in Objects, NEW u \in Threads
          PROVE  Queued(p, u)' <=>
                    InWait(u)' /\ obj'[u] = p /\ block'[u] = "Active"
        <3>1. CASE u = t
            BY <1>5, <3>1
               DEF QueueInv, InWait, WaitPCs, ThreadTypes, CallTypes
        <3>2. CASE u # t
            BY <1>5, <3>2
               DEF QueueInv, InWait, WaitPCs, ThreadTypes, CallTypes
        <3> QED BY Zenon, <3>1, <3>2
    <2>2. ASSUME NEW u \in Threads, InWait(u)'
          PROVE  obj'[u] \in Objects
        BY <1>5, <2>2
           DEF QueueInv, InWait, WaitPCs, ThreadTypes, CallTypes
    <2> QED BY Zenon, <1>5, <2>1, <2>2 DEF QueueInv
<1>10. StatusInv'
    BY DEF StatusInv, StatusOf, InWait, WaitPCs, ThreadTypes,
           CallTypes
<1>11. OwnerInv'
    <2>1. \A u \in Threads : pc'[u] = "poll" => <<obj'[u], "poll">> \in uses'[u]
        BY Zenon DEF OwnerInv, CallTypes
    <2>2. NoPhantomOwner => NoPhantomOwner'
        BY DEF NoPhantomOwner, Granted, InWait, WaitPCs, ThreadTypes, CallTypes
    <2> QED BY Zenon, <2>1, <2>2 DEF OwnerInv, PollFree
<1>12. MutexInv'
    BY DEF MutexInv, Granted, InWait, Objects, ThreadTypes,
           CallTypes
<1> QED BY Zenon, <1>6, <1>7, <1>8, <1>9, <1>10, <1>11, <1>12

(* A thread that takes its wait block off the queue, if it is still there,   *)
(* and returns from ke_wait_multi leaves every other wait as it was.         *)
LEMMA ReturnFacts ==
    ASSUME IInv, NEW t \in Threads, pc[t] \in {"poll", "finish"},
           state[t] = "Runnable", Return(t),
           \/ RemoveBlock(obj[t], t)
           \/ block[t] # "Active" /\ UNCHANGED <<queue, next>>,
           UNCHANGED <<signalled, owner, lock, state, status, timer, cur, last>>
    PROVE  /\ obj[t] \in Objects
           /\ ObjectTypes' /\ ThreadTypes' /\ TimerTypes' /\ CallTypes'
           /\ CursorInv' /\ LockInv' /\ RestInv' /\ QueueInv' /\ StatusInv'
           /\ \A u \in Threads, o \in Objects :
                 Granted(u, o)' <=> Granted(u, o) /\ u # t
           /\ \A u \in Threads :
                 pc'[u] = "poll" => pc[u] = "poll" /\ obj'[u] = obj[u]
<1> USE DEF IInv, TypeOK
<1>1. InWait(t) /\ obj[t] \in Objects
    BY Zenon DEF QueueInv, InWait, WaitPCs
<1>2. /\ queue' \in [Objects -> Seq(Threads)]
      /\ next' \in [Threads -> Links]
      /\ \A p \in Objects : IsInjective(queue'[p])
      /\ \A p \in Objects, u \in Threads :
            Queued(p, u)' <=> Queued(p, u) /\ ~(p = obj[t] /\ u = t)
      /\ \A p \in Objects : queue[p] = <<>> => queue'[p] = <<>>
    <2>1. CASE RemoveBlock(obj[t], t)
        BY Zenon, <1>1, <2>1, RemoveBlockFacts
    <2>2. CASE block[t] # "Active" /\ UNCHANGED <<queue, next>>
        BY Zenon, <1>1, <2>2 DEF ObjectTypes, ThreadTypes, QueueInv, Queued
    <2> QED BY Zenon, <2>1, <2>2
<1>3. ObjectTypes' /\ ThreadTypes' /\ RestInv'
    BY <1>2, Zenon DEF Return, ObjectTypes, ThreadTypes, RestInv
<1>4. TimerTypes' /\ CallTypes' /\ CursorInv' /\ LockInv'
    BY DEF Return, TimerTypes, CallTypes, PCs, TimeoutKinds, CursorInv, LockInv
<1>5. /\ \A u \in Threads : u # t => SameWait(u) /\ obj'[u] = obj[u]
      /\ pc'[t] = "run" /\ block'[t] = "Deactivated"
      /\ tblock'[t] = "Deactivated"
    BY Zenon DEF Return, SameWait, ThreadTypes, TimerTypes, CallTypes
<1>6. \A u \in Threads : InWait(u)' <=> InWait(u) /\ u # t
    BY Zenon, <1>5 DEF InWait, WaitPCs, SameWait
<1>7. StatusOf(t) /\ StatusOf(t)'
    BY Zenon, <1>5 DEF StatusInv, StatusOf, InWait, WaitPCs
<1> USE <1>5, <1>6
<1> HIDE DEF IInv, TypeOK
<1>8. StatusInv'
    BY Zenon, <1>7, StatusStep DEF IInv
<1>9. QueueInv'
    <2>1. ASSUME NEW p \in Objects, NEW u \in Threads
          PROVE  Queued(p, u)' <=>
                    InWait(u)' /\ obj'[u] = p /\ block'[u] = "Active"
        BY <1>1, <1>2 DEF IInv, QueueInv, SameWait
    <2> QED BY <1>2, <2>1 DEF IInv, QueueInv
<1>10. \A u \in Threads, o \in Objects :
          Granted(u, o)' <=> Granted(u, o) /\ u # t
    BY Zenon DEF Granted, SameWait
<1> QED BY Zenon, <1>1, <1>3, <1>4, <1>8, <1>9, <1>10 DEF SameWait

(* a poll taking its wait block back preserves the invariant *)
LEMMA PollStep ==
    ASSUME IInv, NEW t \in Threads, ke_wait_poll(t)
    PROVE  IInv'
<1> USE DEF IInv, TypeOK
<1>1. pc[t] = "poll" /\ state[t] = "Runnable" /\ InWait(t)
    BY DEF ke_wait_poll, StatusInv, StatusOf, ThreadTypes, InWait, WaitPCs
<1>2. \/ RemoveBlock(obj[t], t)
      \/ block[t] # "Active" /\ UNCHANGED <<queue, next>>
    BY Zenon, <1>1 DEF ke_wait_poll, QueueInv
<1>3. /\ Return(t) /\ panic' \in BOOLEAN
      /\ UNCHANGED <<signalled, owner, lock, state, status, timer, cur, last,
                     held, balance, uses>>
    BY Zenon DEF ke_wait_poll, wakeVars, callerVars, CallerTypes
<1>4. /\ obj[t] \in Objects
      /\ ObjectTypes' /\ ThreadTypes' /\ TimerTypes' /\ CallTypes'
      /\ CursorInv' /\ LockInv' /\ RestInv' /\ QueueInv' /\ StatusInv'
      /\ \A u \in Threads, o \in Objects :
            Granted(u, o)' <=> Granted(u, o) /\ u # t
      /\ \A u \in Threads :
            pc'[u] = "poll" => pc[u] = "poll" /\ obj'[u] = obj[u]
    BY Zenon, <1>1, <1>2, <1>3, ReturnFacts
<1>5. CallerTypes'
    BY Zenon, <1>3 DEF CallerTypes
<1>6. MutexInv'
    BY Zenon, <1>3, <1>4 DEF MutexInv, Objects
<1>7. OwnerInv'
    BY <1>1, <1>3, <1>4, Zenon DEF OwnerInv, PollFree
<1> QED BY Zenon, <1>4, <1>5, <1>6, <1>7

(* ke_timer_set preserves the invariant *)
LEMMA ArmStep ==
    ASSUME IInv, NEW t \in Threads, ke_wait_arm(t)
    PROVE  IInv'
<1> USE DEF IInv, TypeOK, ke_wait_arm, objectVars, threadVars,
        timerVars, callVars, wakeVars, callerVars
<1>1. TypeOK' /\ CursorInv' /\ Aside
    BY DEF ObjectTypes, ThreadTypes, TimerTypes, CallTypes, PCs, CallerTypes,
           CursorInv, Aside, InWait, WaitPCs
<1>2. StatusInv'
    BY DEF StatusInv, StatusOf, InWait, WaitPCs, ThreadTypes,
           TimerTypes, CallTypes
<1> QED BY Zenon, <1>1, <1>2, AsideStep

(* going to sleep preserves the invariant *)
LEMMA CommitStep ==
    ASSUME IInv, NEW t \in Threads, ke_wait_commit(t)
    PROVE  IInv'
<1> USE DEF IInv, TypeOK, ke_wait_commit, objectVars, threadVars, timerVars,
        callVars, wakeVars, callerVars
<1>1. /\ AfterSleep(t) \in {"cancel", "finish"}
      /\ AfterSleep(t) \in WaitPCs /\ AfterSleep(t) \in PCs
    BY Zenon DEF AfterSleep, WaitPCs, PCs
<1>2. \A u \in Threads : InWait(u)' <=> InWait(u)
    BY Zenon, <1>1 DEF InWait, WaitPCs, CallTypes
<1>3. TypeOK'
    <2>1. CallTypes'
        BY Zenon, <1>1 DEF CallTypes
    <2>2. ObjectTypes' /\ ThreadTypes' /\ TimerTypes' /\ CallerTypes'
        BY ZenonT(30) DEF ObjectTypes, Links, Objects, ThreadTypes, TimerTypes,
               CallerTypes
    <2> QED BY Zenon, <2>1, <2>2
<1>4. Aside
    BY Zenon, <1>1, <1>2 DEF Aside, CallTypes
<1>5. CursorInv'
    BY Zenon, <1>1 DEF CursorInv, CallTypes
<1>7. StatusInv'
    <2>1. \A u \in Threads : u # t => SameWait(u)
        BY Zenon DEF SameWait, ThreadTypes, CallTypes
    <2>2. /\ StatusOf(t) /\ pc[t] = "commit" /\ InWait(t)
          /\ status[t] \in {"Preparing", "Waiting", "Satisfied"}
        BY Zenon DEF StatusInv, ThreadTypes, InWait, WaitPCs
    <2>3. /\ pc'[t] = AfterSleep(t)
          /\ status[t] = "Preparing" =>
                status'[t] = "Waiting" /\ state'[t] = "Waiting"
          /\ status[t] # "Preparing" =>
                status'[t] = status[t] /\ state'[t] = state[t]
          /\ UNCHANGED <<timeout, block, timer, tblock>>
        BY Zenon DEF ThreadTypes, CallTypes
    <2> HIDE DEF IInv, ke_wait_commit
    <2>4. StatusOf(t)'
        BY Zenon, <1>1, <1>2, <2>2, <2>3 DEF StatusOf, AfterSleep
    <2> QED BY Zenon, <2>1, <2>4, StatusStep DEF IInv
<1> QED BY Zenon, <1>3, <1>4, <1>5, <1>7, AsideStep

(* ke_timer_cancel taking the spinlock of the timer preserves the invariant *)
LEMMA CancelLockStep ==
    ASSUME IInv, NEW t \in Threads, ke_timer_cancel_lock(t)
    PROVE  IInv'
<1> USE DEF IInv, TypeOK, ke_timer_cancel_lock, objectVars, threadVars,
        timerVars, callVars, wakeVars, callerVars
<1>1. TypeOK' /\ CursorInv' /\ Aside
    BY ZenonT(30) DEF ObjectTypes, ThreadTypes, TimerTypes, CallTypes, PCs, CallerTypes,
           CursorInv, Aside, InWait, WaitPCs
<1>2. StatusInv'
    BY DEF StatusInv, StatusOf, InWait, WaitPCs, ThreadTypes,
           TimerTypes, CallTypes
<1> QED BY Zenon, <1>1, <1>2, AsideStep

(* ke_timer_cancel preserves the invariant *)
LEMMA CancelStep ==
    ASSUME IInv, NEW t \in Threads, ke_timer_cancel(t)
    PROVE  IInv'
<1> USE DEF IInv, TypeOK, ke_timer_cancel, objectVars, threadVars,
        timerVars, callVars, wakeVars, callerVars
<1>1. TypeOK' /\ CursorInv' /\ Aside
    BY DEF ObjectTypes, ThreadTypes, TimerTypes, CallTypes, PCs, CallerTypes,
           CursorInv, Aside, InWait, WaitPCs
<1>2. StatusInv'
    BY DEF StatusInv, StatusOf, InWait, WaitPCs, ThreadTypes,
           TimerTypes, CallTypes
<1> QED BY Zenon, <1>1, <1>2, AsideStep

(* the last loop of ke_wait_multi preserves the invariant *)
LEMMA FinishStep ==
    ASSUME IInv, NEW t \in Threads, ke_wait_finish(t)
    PROVE  IInv'
<1> USE DEF IInv, TypeOK
<1>1. /\ pc[t] = "finish" /\ state[t] = "Runnable" /\ Return(t)
      /\ \/ RemoveBlock(obj[t], t)
         \/ block[t] # "Active" /\ UNCHANGED <<queue, next>>
      /\ UNCHANGED <<signalled, owner, lock, state, status, timer, cur, last>>
    BY Zenon DEF ke_wait_finish, wakeVars
<1>2. /\ obj[t] \in Objects
      /\ ObjectTypes' /\ ThreadTypes' /\ TimerTypes' /\ CallTypes'
      /\ CursorInv' /\ LockInv' /\ RestInv' /\ QueueInv' /\ StatusInv'
      /\ \A u \in Threads, o \in Objects :
            Granted(u, o)' <=> Granted(u, o) /\ u # t
      /\ \A u \in Threads :
            pc'[u] = "poll" => pc[u] = "poll" /\ obj'[u] = obj[u]
    BY Zenon, <1>1, ReturnFacts
<1>3. /\ InWait(t)
      /\ \A o \in Objects :
            Granted(t, o) <=> block[t] = "Acquired" /\ o = obj[t]
    BY Zenon, <1>1 DEF Granted, InWait, WaitPCs
<1>4. /\ CallerTypes' /\ uses' = uses
      /\ \A u \in Threads, m \in Mutexes :
            m \in held'[u] <=> m \in held[u] \/ (u = t /\ Granted(t, m))
    <2>1. panic' \in BOOLEAN
        BY Zenon DEF ke_wait_finish
    <2>2. CASE block[t] = "Acquired"
        BY <1>2, <1>3, <2>1, <2>2
           DEF ke_wait_finish, TellAcquired, CallerTypes, Objects
    <2>3. CASE block[t] # "Acquired"
        BY Zenon, <1>3, <2>1, <2>3
           DEF ke_wait_finish, CallerTypes, callerVars, Objects
    <2> QED BY Zenon, <2>2, <2>3
<1>5. MutexInv'
    BY <1>1, <1>2, <1>4 DEF MutexInv, Objects
<1>6. OwnerInv'
    BY Zenon, <1>1, <1>2, <1>4 DEF OwnerInv, PollFree, NoPhantomOwner, Objects
<1> QED BY Zenon, <1>2, <1>4, <1>5, <1>6

(* ki_wake_waiter preserves the invariant *)
LEMMA WakeStep ==
    ASSUME IInv, NEW t \in Threads, ki_wake_waiter(t)
    PROVE  IInv'
<1> USE DEF IInv, TypeOK, ki_wake_waiter, Custody, objectVars, threadVars,
        timerVars, callVars, wakeVars, callerVars
<1>1. TypeOK'
    <2>1. ThreadTypes' /\ CallTypes'
        BY Zenon DEF ThreadTypes, CallTypes, PCs
    <2>2. ObjectTypes' /\ TimerTypes' /\ CallerTypes'
        BY Zenon DEF ObjectTypes, TimerTypes, CallerTypes
    <2> QED BY Zenon, <2>1, <2>2
<1>2. Aside /\ CursorInv'
    BY Zenon DEF Aside, InWait, WaitPCs, CallTypes, CursorInv, Links
<1>3. StatusInv'
    BY DEF StatusInv, StatusOf, InWait, WaitPCs, ThreadTypes,
           TimerTypes, CallTypes
<1> QED BY Zenon, <1>1, <1>2, <1>3, AsideStep

(* ki_wake_waiters going on to the next wait block preserves the invariant *)
LEMMA WakeNextStep ==
    ASSUME IInv, NEW t \in Threads, ki_wake_waiters_next(t)
    PROVE  IInv'
<1> USE DEF IInv, TypeOK, ki_wake_waiters_next, objectVars, threadVars,
        timerVars, callVars, wakeVars, callerVars
<1>1. TypeOK'
    <2>1. CallTypes'
        <3>1. next[cur[t]] \in Links
            BY Zenon DEF CursorInv, ThreadTypes
        <3> QED BY Zenon, <3>1 DEF CallTypes, PCs
    <2>2. ObjectTypes' /\ ThreadTypes' /\ TimerTypes' /\ CallerTypes'
        BY Zenon DEF ObjectTypes, Links, Objects, ThreadTypes, TimerTypes,
               CallerTypes
    <2> QED BY Zenon, <2>1, <2>2
<1>2. Aside /\ CursorInv'
    BY Zenon DEF Aside, InWait, WaitPCs, CallTypes, CursorInv
<1>3. StatusInv'
    BY DEF StatusInv, StatusOf, InWait, WaitPCs, ThreadTypes,
           TimerTypes, CallTypes
<1> QED BY Zenon, <1>1, <1>2, <1>3, AsideStep

(* ki_wake_waiters returning preserves the invariant *)
LEMMA WakeDoneStep ==
    ASSUME IInv, NEW t \in Threads, ki_wake_waiters_done(t)
    PROVE  IInv'
<1> USE DEF IInv, TypeOK, ki_wake_waiters_done, objectVars, threadVars,
        timerVars, callVars, wakeVars, callerVars
<1>1. TypeOK' /\ CursorInv' /\ Aside
    BY DEF ObjectTypes, ThreadTypes, TimerTypes, CallTypes, PCs, CallerTypes,
           CursorInv, Aside, InWait, WaitPCs
<1>2. StatusInv'
    BY DEF StatusInv, StatusOf, InWait, WaitPCs, ThreadTypes,
           TimerTypes, CallTypes
<1> QED BY Zenon, <1>1, <1>2, AsideStep

(* timer_expiry_dpc taking the timer off its queue preserves the invariant *)
LEMMA ExpiryDequeueStep ==
    ASSUME IInv, NEW t \in Threads, timer_expiry_dequeue(t)
    PROVE  IInv'
<1> USE DEF IInv, TypeOK, timer_expiry_dequeue, objectVars, threadVars,
        timerVars, callVars, wakeVars, callerVars
<1>1. TypeOK' /\ CursorInv' /\ Aside
    BY Zenon DEF ObjectTypes, ThreadTypes, TimerTypes, CallTypes, PCs, CallerTypes,
           CursorInv, Aside, InWait, WaitPCs
<1>2. StatusInv'
    BY DEF StatusInv, StatusOf, InWait, WaitPCs, ThreadTypes,
           TimerTypes, CallTypes
<1> QED BY Zenon, <1>1, <1>2, AsideStep

(* timer_expiry_dpc signalling the timer preserves the invariant *)
LEMMA ExpirySignalStep ==
    ASSUME IInv, NEW t \in Threads, timer_expiry_signal(t)
    PROVE  IInv'
<1> USE DEF IInv, TypeOK, timer_expiry_signal, objectVars, threadVars,
        timerVars, callVars, wakeVars, callerVars
<1>1. TypeOK' /\ CursorInv' /\ Aside
    BY Zenon DEF ObjectTypes, ThreadTypes, TimerTypes, CallTypes, PCs, CallerTypes,
           CursorInv, Aside, InWait, WaitPCs
<1>2. StatusInv'
    BY DEF StatusInv, StatusOf, InWait, WaitPCs, ThreadTypes,
           TimerTypes, CallTypes
<1> QED BY Zenon, <1>1, <1>2, AsideStep

(* ki_signal returning preserves the invariant *)
LEMMA DoneStep ==
    ASSUME IInv, NEW t \in Threads, ki_signal_done(t)
    PROVE  IInv'
<1> USE DEF IInv, TypeOK, ki_signal_done, objectVars, threadVars, timerVars,
        callVars, wakeVars, callerVars
<1>1. obj[t] \in Objects /\ lock[obj[t]] = t
    BY Zenon DEF LockInv
<1>2. \A u \in Threads : InWait(u)' <=> InWait(u)
    BY Zenon DEF InWait, WaitPCs, CallTypes
<1>3. TypeOK'
    BY Zenon DEF ObjectTypes, Links, Objects, ThreadTypes, TimerTypes,
           CallTypes, PCs, TimeoutKinds, CallerTypes
<1>4. CursorInv'
    BY Zenon DEF CursorInv, CallTypes
<1>5. RestInv'
    <2>1. ASSUME NEW p \in Objects, lock'[p] = NoThread, signalled'[p] > 0
          PROVE  queue'[p] = <<>>
        <3>1. CASE p = obj[t]
            BY Zenon, <2>1, <3>1 DEF SignalLoops, ObjectTypes
        <3>2. CASE p # obj[t]
            BY Zenon, <1>1, <2>1, <3>2 DEF RestInv, ObjectTypes
        <3> QED BY <3>1, <3>2, Zenon
    <2> QED BY Zenon, <2>1 DEF RestInv
<1>6. LockInv'
    BY <1>1 DEF LockInv, ObjectTypes, CallTypes
<1>7. QueueInv'
    <2>1. \A u \in Threads : InWait(u) => obj'[u] = obj[u]
        BY Zenon DEF InWait, WaitPCs, CallTypes
    <2> QED BY Zenon, <1>2, <2>1 DEF QueueInv, Queued
<1>8. StatusInv'
    BY DEF StatusInv, StatusOf, InWait, WaitPCs, ThreadTypes,
           TimerTypes, CallTypes
<1>9. MutexInv' /\ OwnerInv'
    BY DEF MutexInv, Granted, InWait, WaitPCs, Objects, Links,
           ObjectTypes, ThreadTypes, CallTypes, CallerTypes, OwnerInv,
           PollFree, NoPhantomOwner
<1> QED BY Zenon, <1>3, <1>4, <1>5, <1>6, <1>7, <1>8, <1>9

(* A thread that takes an object's spinlock to signal it leaves the waits    *)
(* and their queues as they were.                                            *)
LEMMA EnterFacts ==
    ASSUME IInv, NEW t \in Threads, NEW o \in Objects, pc[t] = "run",
           EnterSignal(t, o)
    PROVE  /\ queue' = queue /\ lock' \in [Objects -> Links]
           /\ lock'[o] # NoThread
           /\ \A p \in Objects : p # o => lock'[p] = lock[p]
           /\ ThreadTypes' /\ TimerTypes' /\ CallTypes'
           /\ CursorInv' /\ LockInv' /\ QueueInv' /\ StatusInv'
           /\ \A u \in Threads, p \in Objects :
                 Granted(u, p)' <=> Granted(u, p)
           /\ uses' = uses
           /\ \A u \in Threads :
                 pc'[u] = "poll" => pc[u] = "poll" /\ obj'[u] = obj[u]
<1> USE DEF IInv, TypeOK
<1>1. /\ queue' = queue /\ uses' = uses
      /\ lock[o] = NoThread /\ lock' \in [Objects -> Links]
      /\ lock'[o] = t /\ \A p \in Objects : p # o => lock'[p] = lock[p]
    BY Zenon DEF EnterSignal, ObjectTypes, Links
<1>2. ThreadTypes' /\ TimerTypes' /\ CallTypes' /\ CursorInv'
    BY DEF EnterSignal, threadVars, timerVars, wakeVars, ThreadTypes,
           TimerTypes, CallTypes, PCs, CursorInv
<1>3. /\ \A u \in Threads : u # t => pc'[u] = pc[u] /\ obj'[u] = obj[u]
      /\ pc'[t] = "signal" /\ obj'[t] = o
    BY Zenon DEF EnterSignal, CallTypes
<1>4. /\ \A u \in Threads : InWait(u)' <=> InWait(u)
      /\ ~InWait(t)
      /\ UNCHANGED <<block, status, state, timer, tblock, timeout>>
    BY <1>3, Zenon DEF EnterSignal, threadVars, timerVars, InWait, WaitPCs
<1> USE <1>1, <1>3, <1>4
<1> HIDE DEF IInv, TypeOK
<1>5. LockInv'
    BY DEF IInv, LockInv
<1>6. QueueInv'
    BY DEF IInv, QueueInv, Queued
<1>7. StatusInv'
    <2>1. StatusOf(t)'
        BY Zenon DEF IInv, StatusInv, StatusOf
    <2> QED BY Zenon, <2>1, StatusStep DEF IInv, SameWait
<1>8. \A u \in Threads, p \in Objects : Granted(u, p)' <=> Granted(u, p)
    BY Zenon DEF Granted
<1> QED BY Zenon, <1>2, <1>5, <1>6, <1>7, <1>8

(* ke_mutex_release preserves the invariant *)
LEMMA MutexReleaseStep ==
    ASSUME IInv, NEW t \in Threads, NEW m \in Mutexes, ke_mutex_release(t, m)
    PROVE  IInv'
<1> USE DEF IInv, TypeOK
<1>1. m \in Objects /\ pc[t] = "run" /\ EnterSignal(t, m)
    BY Zenon DEF ke_mutex_release, Signals, Objects
<1>2. /\ queue' = queue /\ lock' \in [Objects -> Links]
      /\ lock'[m] # NoThread
      /\ \A p \in Objects : p # m => lock'[p] = lock[p]
      /\ ThreadTypes' /\ TimerTypes' /\ CallTypes'
      /\ CursorInv' /\ LockInv' /\ QueueInv' /\ StatusInv'
      /\ \A u \in Threads, p \in Objects : Granted(u, p)' <=> Granted(u, p)
      /\ uses' = uses
      /\ \A u \in Threads :
            pc'[u] = "poll" => pc[u] = "poll" /\ obj'[u] = obj[u]
    BY Zenon, <1>1, EnterFacts
<1>3. /\ m \in held[t] /\ held' = [held EXCEPT ![t] = @ \ {m}]
      /\ owner' = [owner EXCEPT ![m] = NoThread]
      /\ signalled' = [signalled EXCEPT ![m] = @ + 1]
      /\ balance' = balance /\ panic' \in BOOLEAN
    BY Zenon DEF ke_mutex_release
<1>4. ObjectTypes' /\ CallerTypes' /\ RestInv'
    BY SMTT(20), <1>1, <1>2, <1>3 DEF ObjectTypes, Links, CallerTypes, RestInv
<1>5. MutexInv'
    BY <1>1, <1>2, <1>3 DEF MutexInv, ObjectTypes, CallerTypes, Objects
<1>6. OwnerInv'
    <2>1. \A u \in Threads : pc'[u] = "poll" => <<obj'[u], "poll">> \in uses'[u]
        BY Zenon, <1>2 DEF OwnerInv
    <2>2. ASSUME PollFree', NEW p \in Mutexes, NEW u \in Threads, owner'[p] = u
          PROVE  p \in held'[u] \/ Granted(u, p)'
        <3>1. NoPhantomOwner /\ p \in Objects
            BY Zenon, <1>2, <2>2 DEF OwnerInv, PollFree, Objects
        <3>2. p # m /\ owner[p] = u
            BY Zenon, <1>3, <2>2, NullAssumption DEF ObjectTypes
        <3>3. p \in held'[u] <=> p \in held[u]
            BY Zenon, <1>3, <3>2 DEF CallerTypes
        <3> QED BY Zenon, <1>2, <2>2, <3>1, <3>2, <3>3 DEF NoPhantomOwner
    <2> QED BY Zenon, <2>1, <2>2 DEF OwnerInv, NoPhantomOwner
<1> QED BY Zenon, <1>2, <1>4, <1>5, <1>6

(* signalling a semaphore or an event preserves the invariant *)
LEMMA CountStep ==
    ASSUME IInv, NEW t \in Threads, NEW o \in Objects, o \notin Mutexes,
           pc[t] = "run", EnterSignal(t, o),
           signalled' \in [Objects -> Nat],
           \A p \in Objects : p # o => signalled'[p] = signalled[p],
           balance' \in [Semaphores -> Int],
           UNCHANGED <<owner, held, panic>>
    PROVE  IInv'
<1> USE DEF IInv, TypeOK
<1>1. /\ queue' = queue /\ lock' \in [Objects -> Links]
      /\ lock'[o] # NoThread
      /\ \A p \in Objects : p # o => lock'[p] = lock[p]
      /\ ThreadTypes' /\ TimerTypes' /\ CallTypes'
      /\ CursorInv' /\ LockInv' /\ QueueInv' /\ StatusInv'
      /\ \A u \in Threads, p \in Objects : Granted(u, p)' <=> Granted(u, p)
      /\ uses' = uses
      /\ \A u \in Threads :
            pc'[u] = "poll" => pc[u] = "poll" /\ obj'[u] = obj[u]
    BY Zenon, EnterFacts
<1>2. ObjectTypes' /\ CallerTypes' /\ RestInv'
    BY Zenon, <1>1 DEF ObjectTypes, CallerTypes, RestInv
<1>3. MutexInv'
    BY <1>1 DEF MutexInv, Objects
<1>4. OwnerInv'
    BY Zenon, <1>1 DEF OwnerInv, PollFree, NoPhantomOwner, Objects
<1> QED BY Zenon, <1>1, <1>2, <1>3, <1>4

(* taking a semaphore or an event back to zero preserves the invariant *)
LEMMA ZeroStep ==
    ASSUME IInv, NEW t \in Threads, NEW o \in Objects, o \notin Mutexes,
           signalled' = [signalled EXCEPT ![o] = 0],
           balance' \in [Semaphores -> Int],
           UNCHANGED <<queue, owner, lock, threadVars, timerVars, callVars,
                       wakeVars, held, uses, panic>>
    PROVE  IInv'
<1> USE DEF IInv, TypeOK, objectVars, threadVars, timerVars, callVars,
        wakeVars, callerVars
<1>1. TypeOK'
    BY Zenon DEF ObjectTypes, ThreadTypes, TimerTypes, CallTypes, CallerTypes
<1>2. CursorInv' /\ LockInv' /\ QueueInv' /\ StatusInv'
    BY DEF CursorInv, LockInv, QueueInv, Queued, StatusInv, StatusOf, InWait
<1>3. /\ \A p \in Objects : signalled'[p] > 0 => signalled'[p] = signalled[p]
      /\ \A m \in Mutexes : signalled'[m] = signalled[m]
    BY DEF ObjectTypes, Objects
<1>4. MutexInv'
    BY <1>3 DEF MutexInv, Granted, InWait
<1>5. OwnerInv'
    BY ZenonT(30) DEF OwnerInv, PollFree, NoPhantomOwner, Granted, InWait
<1>6. RestInv'
    BY Zenon, <1>3 DEF RestInv
<1> QED BY Zenon, <1>1, <1>2, <1>4, <1>5, <1>6

(* ke_semaphore_release preserves the invariant *)
LEMMA SemaphoreReleaseStep ==
    ASSUME IInv, NEW t \in Threads, NEW s \in Semaphores, ke_semaphore_release(t, s)
    PROVE  IInv'
<1>1. s \in Objects /\ s \notin Mutexes
    BY Zenon DEF Objects
<1>2. signalled \in [Objects -> Nat] /\ balance \in [Semaphores -> Int]
    BY Zenon DEF IInv, TypeOK, ObjectTypes, CallerTypes
<1>3. /\ pc[t] = "run" /\ EnterSignal(t, s)
      /\ UNCHANGED <<owner, held, panic>>
    BY Zenon DEF ke_semaphore_release, Signals
<1>4. /\ signalled' \in [Objects -> Nat]
      /\ \A p \in Objects : p # s => signalled'[p] = signalled[p]
      /\ balance' \in [Semaphores -> Int]
    BY <1>1, <1>2 DEF ke_semaphore_release
<1> QED BY Zenon, <1>1, <1>3, <1>4, CountStep

(* ke_semaphore_release_maxone preserves the invariant *)
LEMMA MaxOneStep ==
    ASSUME IInv, NEW t \in Threads, NEW s \in Semaphores, ke_semaphore_release_maxone(t, s)
    PROVE  IInv'
<1>1. s \in Objects /\ s \notin Mutexes
    BY Zenon DEF Objects
<1>2. signalled \in [Objects -> Nat] /\ balance \in [Semaphores -> Int]
    BY Zenon DEF IInv, TypeOK, ObjectTypes, CallerTypes
<1>3. /\ pc[t] = "run" /\ EnterSignal(t, s)
      /\ UNCHANGED <<owner, held, panic>>
    BY Zenon DEF ke_semaphore_release_maxone, Signals
<1>4. /\ signalled' \in [Objects -> Nat]
      /\ \A p \in Objects : p # s => signalled'[p] = signalled[p]
      /\ balance' \in [Semaphores -> Int]
    BY <1>1, <1>2 DEF ke_semaphore_release_maxone
<1> QED BY Zenon, <1>1, <1>3, <1>4, CountStep

(* ke_semaphore_reset preserves the invariant *)
LEMMA ResetStep ==
    ASSUME IInv, NEW t \in Threads, NEW s \in Semaphores, ke_semaphore_reset(t, s)
    PROVE  IInv'
<1>1. s \in Objects /\ s \notin Mutexes
    BY Zenon DEF Objects
<1>2. signalled \in [Objects -> Nat] /\ balance \in [Semaphores -> Int]
    BY Zenon DEF IInv, TypeOK, ObjectTypes, CallerTypes
<1>3. /\ signalled' = [signalled EXCEPT ![s] = 0]
      /\ UNCHANGED <<queue, owner, lock, threadVars, timerVars, callVars,
                     wakeVars, held, uses, panic>>
    BY Zenon DEF ke_semaphore_reset, callerVars
<1>4. balance' \in [Semaphores -> Int]
    BY <1>1, <1>2 DEF ke_semaphore_reset, callerVars
<1> QED BY <1>1, <1>3, <1>4, ZeroStep, Zenon

(* ke_event_signal preserves the invariant *)
LEMMA EventSignalStep ==
    ASSUME IInv, NEW t \in Threads, NEW e \in Events, ke_event_signal(t, e)
    PROVE  IInv'
<1>1. e \in Objects /\ e \notin Mutexes
    BY Zenon DEF Objects
<1>2. signalled \in [Objects -> Nat] /\ balance \in [Semaphores -> Int]
    BY Zenon DEF IInv, TypeOK, ObjectTypes, CallerTypes
<1>3. /\ pc[t] = "run" /\ EnterSignal(t, e)
      /\ UNCHANGED <<owner, held, panic>>
    BY Zenon DEF ke_event_signal, Signals
<1>4. /\ signalled' \in [Objects -> Nat]
      /\ \A p \in Objects : p # e => signalled'[p] = signalled[p]
      /\ balance' \in [Semaphores -> Int]
    BY Zenon, <1>1, <1>2 DEF ke_event_signal
<1> QED BY Zenon, <1>1, <1>3, <1>4, CountStep

(* ke_event_clear preserves the invariant *)
LEMMA EventClearStep ==
    ASSUME IInv, NEW t \in Threads, NEW e \in Events, ke_event_clear(t, e)
    PROVE  IInv'
<1>1. e \in Objects /\ e \notin Mutexes
    BY Zenon DEF Objects
<1>2. signalled \in [Objects -> Nat] /\ balance \in [Semaphores -> Int]
    BY Zenon DEF IInv, TypeOK, ObjectTypes, CallerTypes
<1>3. /\ signalled' = [signalled EXCEPT ![e] = 0]
      /\ UNCHANGED <<queue, owner, lock, threadVars, timerVars, callVars,
                     wakeVars, held, uses, panic>>
    BY Zenon DEF ke_event_clear, callerVars
<1>4. balance' \in [Semaphores -> Int]
    BY Zenon, <1>1, <1>2 DEF ke_event_clear, callerVars
<1> QED BY <1>1, <1>3, <1>4, ZeroStep, Zenon

(* ki_signal works on an object whose spinlock its thread holds, and the     *)
(* wait block it pops is that of a thread waiting for the object.            *)
LEMMA PopFacts ==
    ASSUME IInv, NEW t \in Threads, pc[t] = "signal", queue[obj[t]] # <<>>,
           queue' = [queue EXCEPT ![obj[t]] = Tail(@)]
    PROVE  LET o == obj[t]
               w == Head(queue[obj[t]])
           IN  /\ o \in Objects /\ lock[o] = t
               /\ w \in Threads /\ w # t
               /\ InWait(w) /\ obj[w] = o /\ block[w] = "Active"
               /\ queue' \in [Objects -> Seq(Threads)]
               /\ \A p \in Objects : IsInjective(queue'[p])
               /\ \A p \in Objects, u \in Threads :
                     Queued(p, u)' <=> Queued(p, u) /\ ~(p = o /\ u = w)
               /\ \A p \in Objects : p # o => queue'[p] = queue[p]
<1> DEFINE o == obj[t]
           w == Head(queue[obj[t]])
<1> USE DEF IInv, TypeOK, ObjectTypes, ThreadTypes
<1>1. o \in Objects /\ lock[o] = t
    BY Zenon DEF LockInv
<1>2. queue[o] \in Seq(Threads) /\ IsInjective(queue[o])
    BY <1>1 DEF QueueInv
<1>3. /\ Tail(queue[o]) \in Seq(Threads)
      /\ w \in Threads /\ OnQueue(queue[o], w)
      /\ IsInjective(Tail(queue[o]))
      /\ \A u \in Threads :
            OnQueue(Tail(queue[o]), u) <=> OnQueue(queue[o], u) /\ u # w
    BY <1>2, TailDistinct
<1>4. /\ queue'[o] = Tail(queue[o])
      /\ \A p \in Objects : p # o => queue'[p] = queue[p]
    BY Zenon, <1>1
<1> HIDE DEF o, w
<1>5. InWait(w) /\ obj[w] = o /\ block[w] = "Active"
    BY Zenon, <1>1, <1>3 DEF QueueInv, Queued
<1>6. w # t
    BY Zenon, <1>5 DEF InWait, WaitPCs
<1>7. queue' \in [Objects -> Seq(Threads)]
    BY Zenon, <1>1, <1>3 DEF o
<1>8. \A p \in Objects : IsInjective(queue'[p])
    BY <1>3, <1>4 DEF QueueInv
<1>9. \A p \in Objects, u \in Threads :
         Queued(p, u)' <=> Queued(p, u) /\ ~(p = o /\ u = w)
    BY Zenon, <1>3, <1>4 DEF Queued
<1> QED BY Zenon, <1>1, <1>3, <1>4, <1>5, <1>6, <1>7, <1>8, <1>9 DEF o, w

(* ki_signal dropping the block of a satisfied wait preserves the invariant *)
LEMMA SkipStep ==
    ASSUME IInv, NEW t \in Threads, ki_signal_skip(t)
    PROVE  IInv'
<1> USE DEF IInv, TypeOK, objectVars, threadVars, timerVars, callVars,
        wakeVars, callerVars
<1>1. PICK o, w :
          /\ o = obj[t] /\ w = Head(queue[o])
          /\ o \in Objects /\ lock[o] = t
          /\ w \in Threads /\ w # t
          /\ InWait(w) /\ obj[w] = o /\ block[w] = "Active"
          /\ queue' \in [Objects -> Seq(Threads)]
          /\ \A p \in Objects : IsInjective(queue'[p])
          /\ \A p \in Objects, u \in Threads :
                Queued(p, u)' <=> Queued(p, u) /\ ~(p = o /\ u = w)
          /\ \A p \in Objects : p # o => queue'[p] = queue[p]
          /\ signalled[o] > 0 /\ status[w] = "Satisfied"
          /\ block' = [block EXCEPT ![w] = "Deactivated"]
    BY PopFacts, Zenon DEF ki_signal_skip, SignalLoops, Satisfiable
<1>2. /\ pc[t] = "signal"
      /\ UNCHANGED <<signalled, owner, lock, state, status, next, timerVars,
                     callVars, wakeVars, callerVars>>
      /\ panic' = panic
    BY Zenon DEF ki_signal_skip
<1> USE <1>2
<1>3. TypeOK'
    <2>1. ObjectTypes'
        BY Zenon, <1>1 DEF ObjectTypes
    <2>2. ThreadTypes'
        BY Zenon, <1>1 DEF ThreadTypes
    <2>3. TimerTypes' /\ CallTypes' /\ CallerTypes'
        BY Zenon DEF TimerTypes, CallTypes, CallerTypes
    <2> QED BY Zenon, <2>1, <2>2, <2>3
<1>4. CursorInv' /\ LockInv' /\ RestInv'
    BY <1>1 DEF CursorInv, LockInv, RestInv
<1>5. QueueInv'
    <2>1. \A p \in Objects : ~Queued(p, w)'
        <3>1. \A p \in Objects : Queued(p, w) => p = o
            BY ZenonT(20), <1>1 DEF QueueInv
        <3> QED BY Zenon, <1>1, <3>1
    <2>2. /\ block'[w] # "Active"
          /\ \A u \in Threads : u # w => block'[u] = block[u]
        BY Zenon, <1>1 DEF ThreadTypes
    <2>3. \A u \in Threads : (InWait(u)' <=> InWait(u)) /\ obj'[u] = obj[u]
        BY Zenon DEF InWait
    <2>4. \A p \in Objects, u \in Threads :
             u # w => (Queued(p, u)' <=> Queued(p, u))
        BY Zenon, <1>1
    <2>5. ASSUME NEW p \in Objects, NEW u \in Threads
          PROVE  Queued(p, u)' <=>
                    InWait(u)' /\ obj'[u] = p /\ block'[u] = "Active"
        BY <2>1, <2>2, <2>3, <2>4 DEF QueueInv
    <2> QED BY Zenon, <1>1, <2>3, <2>5 DEF QueueInv
<1>6. StatusInv'
    <2>1. \A u \in Threads : InWait(u)' <=> InWait(u)
        BY Zenon DEF InWait
    <2>2. \A u \in Threads : u # w => block'[u] = block[u]
        BY Zenon, <1>1 DEF ThreadTypes
    <2>3. block'[w] = "Deactivated"
        BY ZenonT(20), <1>1 DEF ThreadTypes
    <2>4. ASSUME NEW u \in Threads, u # w PROVE StatusOf(u)'
        BY <2>1, <2>2, <2>4 DEF StatusInv, StatusOf
    <2>5. StatusOf(w)'
        BY <1>1, <2>1, <2>3, Zenon DEF StatusInv, StatusOf, InWait
    <2> QED BY Zenon, <2>4, <2>5 DEF StatusInv
<1>7. MutexInv' /\ OwnerInv'
    <2>1. \A u \in Threads, m \in Mutexes : Granted(u, m)' <=> Granted(u, m)
        BY Zenon, <1>1 DEF Granted, InWait, ThreadTypes
    <2>2. MutexInv'
        BY Zenon, <2>1 DEF MutexInv
    <2>3. OwnerInv'
        BY Zenon, <2>1 DEF OwnerInv, PollFree, NoPhantomOwner
    <2> QED BY Zenon, <2>2, <2>3
<1> QED BY Zenon, <1>3, <1>4, <1>5, <1>6, <1>7

(* ki_signal satisfying a wait preserves the invariant *)
LEMMA SatisfyStep ==
    ASSUME IInv, NEW t \in Threads, ki_signal_satisfy(t)
    PROVE  IInv'
<1>1. /\ ObjectTypes /\ ThreadTypes /\ TimerTypes /\ CallTypes /\ CallerTypes
      /\ CursorInv /\ LockInv /\ QueueInv /\ StatusInv /\ MutexInv /\ OwnerInv /\ RestInv
    BY Zenon DEF IInv, TypeOK
<1>2. PICK o, w :
          /\ o = obj[t] /\ w = Head(queue[o])
          /\ o \in Objects /\ lock[o] = t
          /\ w \in Threads /\ w # t
          /\ InWait(w) /\ obj[w] = o /\ block[w] = "Active"
          /\ queue' \in [Objects -> Seq(Threads)]
          /\ \A p \in Objects : IsInjective(queue'[p])
          /\ \A p \in Objects, u \in Threads :
                Queued(p, u)' <=> Queued(p, u) /\ ~(p = o /\ u = w)
          /\ \A p \in Objects : p # o => queue'[p] = queue[p]
          /\ signalled[o] > 0 /\ status[w] # "Satisfied"
          /\ status' = [status EXCEPT ![w] = "Satisfied"]
          /\ block' = [block EXCEPT ![w] = "Acquired"]
          /\ ki_object_acquire(o, w)
    BY PopFacts, Zenon DEF ki_signal_satisfy, SignalLoops, Satisfiable
<1>3. /\ pc[t] = "signal" /\ lock' = lock /\ state' = state /\ panic' = panic
      /\ timer' = timer /\ tblock' = tblock /\ away' = away
      /\ pc' = pc /\ obj' = obj /\ timeout' = timeout
      /\ held' = held /\ balance' = balance /\ uses' = uses
    BY Zenon DEF ki_signal_satisfy, timerVars, callVars, callerVars
<1>4. next' \in [Threads -> Links] /\ cur' \in [Threads -> Links]
      /\ last' \in [Threads -> Links]
  <2>1. CASE Asleep(w)
    <3>1. /\ next' = [u \in Threads |-> IF u = w THEN NoThread
                                        ELSE IF u = last[t] THEN w ELSE next[u]]
          /\ cur' = [cur EXCEPT ![t] = IF @ = NoThread THEN w ELSE @]
          /\ last' = [last EXCEPT ![t] = w]
      <4>1. o = obj[t] /\ w = Head(queue[obj[t]])
        BY Zenon, <1>2
      <4>2. Asleep(Head(queue[obj[t]]))
        BY Zenon, <2>1, <4>1
      <4>3. /\ next' = [u \in Threads |->
                          IF u = Head(queue[obj[t]]) THEN NoThread
                          ELSE IF u = last[t] THEN Head(queue[obj[t]]) ELSE next[u]]
            /\ cur' = [cur EXCEPT ![t] = IF @ = NoThread THEN Head(queue[obj[t]]) ELSE @]
            /\ last' = [last EXCEPT ![t] = Head(queue[obj[t]])]
        BY Zenon, <4>2 DEF ki_signal_satisfy
      <4> QED BY <4>1, <4>3
    <3>2. next' \in [Threads -> Links]
      BY Zenon, <1>1, <1>2, <3>1 DEF ThreadTypes, Links
    <3>3. cur' \in [Threads -> Links] /\ last' \in [Threads -> Links]
      BY Zenon, <1>1, <1>2, <3>1 DEF CallTypes, Links
    <3> QED BY Zenon, <3>2, <3>3
  <2>2. CASE ~Asleep(w)
    <3>1. next' = next /\ cur' = cur /\ last' = last
      BY Zenon, <1>2, <2>2 DEF ki_signal_satisfy, wakeVars
    <3> QED BY Zenon, <1>1, <3>1 DEF ThreadTypes, CallTypes
  <2> QED BY Zenon, <2>1, <2>2
<1>5. /\ \A u \in Threads : u # w => block'[u] = block[u] /\ status'[u] = status[u]
      /\ block'[w] = "Acquired" /\ status'[w] = "Satisfied"
    BY Zenon, <1>1, <1>2 DEF ThreadTypes
<1>6. \A u \in Threads : InWait(u)' <=> InWait(u)
    BY Zenon, <1>3 DEF InWait
<1>7. /\ signalled' \in [Objects -> Nat]
      /\ \A p \in Objects : p # o => signalled'[p] = signalled[p]
      /\ o \notin Events => signalled'[o] = signalled[o] - 1
  <2>1. /\ signalled' = [signalled EXCEPT ![o] = IF o \in Events THEN @ ELSE @ - 1]
        /\ signalled \in [Objects -> Nat]
    BY Zenon, <1>1, <1>2 DEF ki_object_acquire, ObjectTypes
  <2>2. o \in Objects /\ signalled[o] > 0
    BY Zenon, <1>2
  <2> QED BY <2>1, <2>2
<1>8. /\ owner' \in [Mutexes -> Links]
      /\ \A m \in Mutexes : owner'[m] = IF m = o THEN w ELSE owner[m]
    BY Zenon, <1>1, <1>2 DEF ki_object_acquire, ObjectTypes, Links
<1>9. TypeOK'
  <2>1. ObjectTypes'
    BY Zenon, <1>1, <1>2, <1>3, <1>7, <1>8 DEF ObjectTypes
  <2>2. status' \in [Threads -> {"Preparing", "Waiting", "Satisfied"}]
    BY Zenon, <1>1, <1>2 DEF ThreadTypes
  <2>3. block' \in [Threads -> {"Active", "Deactivated", "Acquired"}]
    BY Zenon, <1>1, <1>2 DEF ThreadTypes
  <2>4. ThreadTypes'
    BY Zenon, <1>1, <1>3, <1>4, <2>2, <2>3 DEF ThreadTypes
  <2>5. TimerTypes' /\ CallTypes' /\ CallerTypes'
    BY Zenon, <1>1, <1>3, <1>4 DEF TimerTypes, CallTypes, CallerTypes
  <2> QED BY Zenon, <2>1, <2>4, <2>5 DEF TypeOK
<1>10. CursorInv'
  <2>1. \A u \in Threads : pc[u] = "advance" => cur'[u] = cur[u]
    <3>1. pc[t] # "advance"
      BY <1>3
    <3>2. \A u \in Threads : u # t => cur'[u] = cur[u]
      BY Zenon, <1>1, <1>2 DEF ki_signal_satisfy, CallTypes, wakeVars
    <3> QED BY Zenon, <3>1, <3>2
  <2> QED BY Zenon, <1>1, <1>3, <2>1 DEF CursorInv
<1>11. LockInv' /\ RestInv'
  <2>1. LockInv'
    BY Zenon, <1>1, <1>3 DEF LockInv
  <2>2. lock[o] # NoThread
    BY Zenon, <1>2, NullAssumption
  <2>3. RestInv'
    BY Zenon, <1>1, <1>2, <1>3, <1>7, <2>2 DEF RestInv
  <2> QED BY Zenon, <2>1, <2>3
<1>12. QueueInv'
  <2>1. ASSUME NEW p \in Objects, NEW u \in Threads
        PROVE  Queued(p, u)' <=> InWait(u)' /\ obj'[u] = p /\ block'[u] = "Active"
    <3>1. Queued(p, u) <=> InWait(u) /\ obj[u] = p /\ block[u] = "Active"
      BY Zenon, <1>1 DEF QueueInv
    <3>2. Queued(p, u)' <=> Queued(p, u) /\ ~(p = o /\ u = w)
      BY Zenon, <1>2
    <3>3. CASE u = w
      <4>1. block'[w] # "Active"
        BY <1>5
      <4>2. obj[w] = o
        BY Zenon, <1>2
      <4> QED BY Zenon, <3>1, <3>2, <3>3, <4>1, <4>2
    <3>4. CASE u # w
      BY Zenon, <1>3, <1>5, <1>6, <3>1, <3>2, <3>4
    <3> QED BY Zenon, <3>3, <3>4
  <2>2. ASSUME NEW u \in Threads, InWait(u)'
        PROVE  obj'[u] \in Objects
    BY Zenon, <1>1, <1>3, <1>6, <2>2 DEF QueueInv
  <2>3. \A p \in Objects : IsInjective(queue'[p])
    BY Zenon, <1>2
  <2> QED BY Zenon, <2>1, <2>2, <2>3 DEF QueueInv
<1>13. StatusInv'
  <2>1. ASSUME NEW u \in Threads, u # w PROVE StatusOf(u)'
    <3>1. StatusOf(u)
      BY Zenon, <1>1 DEF StatusInv
    <3>2. block'[u] = block[u] /\ status'[u] = status[u]
      BY Zenon, <1>5, <2>1
    <3> QED BY Zenon, <1>3, <1>6, <3>1, <3>2 DEF StatusOf
  <2>2. StatusOf(w)'
    <3>1. StatusOf(w) /\ InWait(w) /\ status[w] # "Satisfied"
      BY Zenon, <1>1, <1>2 DEF StatusInv
    <3>2. tblock[w] # "Acquired"
      BY Zenon, <3>1 DEF StatusOf
    <3>3. status'[w] # "Preparing" /\ status'[w] # "Waiting"
      BY <1>5
    <3> QED BY Zenon, <1>3, <1>5, <3>1, <3>2, <3>3 DEF StatusOf
  <2> QED BY Zenon, <2>1, <2>2 DEF StatusInv
<1>14. \A m \in Mutexes, u \in Threads :
          Granted(u, m)' <=> Granted(u, m) \/ (u = w /\ m = o)
  <2>1. ASSUME NEW m \in Mutexes, NEW u \in Threads, u # w
        PROVE  Granted(u, m)' <=> Granted(u, m)
    BY Zenon, <1>3, <1>5, <1>6, <2>1 DEF Granted
  <2>2. ASSUME NEW m \in Mutexes
        PROVE  (Granted(w, m)' <=> m = o) /\ ~Granted(w, m)
    <3>1. block[w] # "Acquired"
      BY <1>2
    <3>2. InWait(w)' /\ obj'[w] = o
      BY Zenon, <1>2, <1>3, <1>6
    <3> QED BY Zenon, <1>5, <3>1, <3>2 DEF Granted
  <2> QED BY Zenon, <2>1, <2>2
<1>15. MutexInv'
  <2> DEFINE Ok(m) ==
          /\ signalled'[m] \in {0, 1}
          /\ owner'[m] # NoThread => signalled'[m] = 0
          /\ \A u \in Threads : m \in held'[u] \/ Granted(u, m)' =>
                owner'[m] = u /\ signalled'[m] = 0
          /\ \A u \in Threads : m \in held'[u] => ~Granted(u, m)'
  <2>1. ASSUME NEW m \in Mutexes, m # o
        PROVE  Ok(m)
    <3>1. signalled'[m] = signalled[m] /\ owner'[m] = owner[m] /\ held' = held
      BY Zenon, <1>3, <1>7, <1>8, <2>1 DEF Objects
    <3>2. \A u \in Threads : Granted(u, m)' <=> Granted(u, m)
      BY Zenon, <1>14, <2>1
    <3> QED BY Zenon, <1>1, <3>1, <3>2 DEF MutexInv
  <2>2. ASSUME o \in Mutexes
        PROVE  Ok(o)
    <3>1. signalled[o] \in {0, 1} /\ signalled[o] > 0
      BY Zenon, <1>1, <1>2, <2>2 DEF MutexInv
    <3>2. signalled[o] = 1 /\ signalled[o] # 0
      BY <3>1
    <3>3. o \notin Events
      BY <2>2, ObjectsAssumption
    <3>4. signalled'[o] = 0
      BY <1>7, <3>2, <3>3
    <3>5. \A u \in Threads : ~(o \in held[u] \/ Granted(u, o))
      BY Zenon, <1>1, <2>2, <3>2 DEF MutexInv
    <3>6. owner'[o] = w /\ held' = held
      BY Zenon, <1>3, <1>8, <2>2
    <3>7. \A u \in Threads : ~(o \in held'[u])
      BY Zenon, <3>5, <3>6
    <3>8. \A u \in Threads : Granted(u, o)' => u = w
      BY Zenon, <1>14, <2>2, <3>5
    <3>9. 0 \in {0, 1}
      OBVIOUS
    <3> QED BY Zenon, <3>4, <3>6, <3>7, <3>8, <3>9
  <2>3. \A m \in Mutexes : Ok(m)
    <3> HIDE DEF Ok
    <3> QED BY Zenon, <2>1, <2>2
  <2> QED BY Zenon, <2>3 DEF MutexInv
<1>16. OwnerInv'
  <2>1. \A u \in Threads : pc'[u] = "poll" => <<obj'[u], "poll">> \in uses'[u]
    BY Zenon, <1>1, <1>3 DEF OwnerInv
  <2>2. ASSUME PollFree' PROVE NoPhantomOwner'
    <3>1. NoPhantomOwner
      BY Zenon, <1>1, <1>3, <2>2 DEF OwnerInv, PollFree
    <3> QED BY Zenon, <1>2, <1>3, <1>8, <1>14, <3>1 DEF NoPhantomOwner
  <2> QED BY Zenon, <2>1, <2>2 DEF OwnerInv
<1> QED BY Zenon, <1>9, <1>10, <1>11, <1>12, <1>13, <1>15, <1>16 DEF IInv

(* the state after initialisation satisfies the invariant *)
LEMMA InitInv == Init => IInv
<1> SUFFICES ASSUME Init PROVE IInv
    OBVIOUS
<1> USE WorkloadAssumption, CountAssumption
<1>1. TypeOK
    <2>1. ObjectTypes
        BY DEF Init, ObjectTypes, Links, Objects
    <2>2. ThreadTypes /\ TimerTypes
        BY Zenon DEF Init, ThreadTypes, TimerTypes, Links
    <2>3. CallTypes
        BY Zenon DEF Init, CallTypes, Links, PCs, TimeoutKinds
    <2>4. panic \in BOOLEAN
        BY Zenon DEF Init
    <2>5. CallerTypes
        BY <2>4 DEF Init, CallerTypes
    <2> QED BY Zenon, <2>1, <2>2, <2>3, <2>5 DEF TypeOK
<1>2. CursorInv /\ LockInv
    BY Zenon DEF Init, CursorInv, LockInv
<1>3. QueueInv
    <2>1. \A o \in Objects : queue[o] = <<>>
        BY Zenon DEF Init
    <2>2. \A o \in Objects : IsInjective(queue[o])
        BY <2>1 DEF IsInjective
    <2>3. \A o \in Objects, t \in Threads : ~Queued(o, t)
        BY <2>1 DEF Queued, OnQueue
    <2> QED BY Zenon, <2>2, <2>3 DEF Init, QueueInv, InWait, WaitPCs
<1>4. StatusInv
    BY Zenon DEF Init, StatusInv, StatusOf, InWait, WaitPCs
<1>5. MutexInv
    BY Zenon DEF Init, MutexInv, Granted, InWait, WaitPCs, Objects
<1>6. OwnerInv
    BY Zenon DEF Init, OwnerInv, NoPhantomOwner
<1>7. RestInv
    BY Zenon DEF Init, RestInv
<1> QED BY Zenon, <1>1, <1>2, <1>3, <1>4, <1>5, <1>6, <1>7 DEF IInv

(* Every step of the dispatcher preserves the invariant. *)
LEMMA NextStep == IInv /\ [Next]_vars => IInv'
<1> SUFFICES ASSUME IInv, [Next]_vars PROVE IInv'
    OBVIOUS
<1>1. CASE UNCHANGED vars
    <2> USE <1>1 DEF vars, objectVars, threadVars, timerVars, callVars,
                     wakeVars, callerVars, IInv
    <2>1. TypeOK'
        BY Zenon DEF TypeOK, ObjectTypes, ThreadTypes, TimerTypes, CallTypes,
               CallerTypes
    <2>2. CursorInv' /\ LockInv' /\ QueueInv'
        BY ZenonT(30) DEF CursorInv, LockInv, QueueInv, Queued, InWait
    <2>3. StatusInv'
        BY Zenon DEF StatusInv, StatusOf, InWait
    <2>4. MutexInv'
        BY Zenon DEF MutexInv, Granted, InWait
    <2>5. OwnerInv' /\ RestInv'
        BY Zenon DEF OwnerInv, PollFree, NoPhantomOwner, Granted, InWait, RestInv
    <2> QED BY Zenon, <2>1, <2>2, <2>3, <2>4, <2>5
<1>2. CASE Next
    <2>1. PICK t \in Threads :
             \/ \E o \in Objects : ke_wait_acquire(t, o)
             \/ \E o \in Objects, k \in TimeoutKinds : ke_wait_enqueue(t, o, k)
             \/ ReleaseMutexes(t)
             \/ \E s \in Semaphores : \/ ke_semaphore_release(t, s)
                                      \/ ke_semaphore_release_maxone(t, s)
                                      \/ ke_semaphore_reset(t, s)
             \/ \E e \in Events : ke_event_signal(t, e) \/ ke_event_clear(t, e)
             \/ Continue(t)
             \/ Expiry(t)
        BY Zenon, <1>2 DEF Next
    <2>2. CASE \E o \in Objects : ke_wait_acquire(t, o)
        BY Zenon, <2>2, AcquireStep
    <2>3. CASE \E o \in Objects, k \in TimeoutKinds : ke_wait_enqueue(t, o, k)
        BY Zenon, <2>3, EnqueueStep
    <2>4. CASE ReleaseMutexes(t)
        BY Zenon, <2>4, MutexReleaseStep DEF ReleaseMutexes
    <2>5. CASE \E s \in Semaphores : \/ ke_semaphore_release(t, s)
                                     \/ ke_semaphore_release_maxone(t, s)
                                     \/ ke_semaphore_reset(t, s)
        BY Zenon, <2>5, SemaphoreReleaseStep, MaxOneStep, ResetStep
    <2>6. CASE \E e \in Events : ke_event_signal(t, e) \/ ke_event_clear(t, e)
        BY Zenon, <2>6, EventSignalStep, EventClearStep
    <2>7. CASE Continue(t)
        BY Zenon, <2>7, PollStep, ArmStep, CommitStep, CancelLockStep, CancelStep,
           FinishStep, SatisfyStep, SkipStep, DoneStep, WakeStep, WakeNextStep,
           WakeDoneStep DEF Continue
    <2>8. CASE Expiry(t)
        BY Zenon, <2>8, ExpiryDequeueStep, ExpirySignalStep DEF Expiry
    <2> QED BY Zenon, <2>1, <2>2, <2>3, <2>4, <2>5, <2>6, <2>7, <2>8
<1> QED BY Zenon, <1>1, <1>2

(* The invariant holds throughout every run of the dispatcher, for any       *)
(* threads, objects, workloads and counts.                                   *)
THEOREM Invariance == Spec => []IInv
<1> QED BY InitInv, NextStep, PTL DEF Spec

(* The state of the dispatcher stays well typed: ki_object_acquire never     *)
(* takes a count below zero, ki_wake_waiters never follows a link into       *)
(* nothing, and queues hold threads only.                                    *)
THEOREM TypeCorrect == Spec => []TypeOK
<1>1. IInv => TypeOK
    BY Zenon DEF IInv
<1> QED BY Invariance, <1>1, PTL

(* Mutual exclusion, for any number of threads and mutexes and however       *)
(* waits, timeouts, polls and releases interleave.                           *)
THEOREM MutexesExclude == Spec => []MutualExclusion
<1>1. IInv => MutualExclusion
    BY DEF IInv, MutexInv, MutualExclusion
<1> QED BY Invariance, <1>1, PTL

(* A sleeper is queued where ki_signal will find it, and ki_signal leaves    *)
(* nobody queued on an object it leaves signalled.                           *)
THEOREM WakeupsAreKept == Spec => []NoLostWakeup
<1>1. IInv => NoLostWakeup
    <2> SUFFICES ASSUME IInv PROVE NoLostWakeup
        OBVIOUS
    <2>1. ASSUME NEW t \in Threads, state[t] = "Waiting", status[t] = "Waiting"
          PROVE  Queued(obj[t], t)
        <3>1. InWait(t) /\ block[t] = "Active"
            BY Zenon, <2>1 DEF IInv, StatusInv, StatusOf, InWait, WaitPCs
        <3> QED BY Zenon, <3>1 DEF IInv, QueueInv
    <2> QED BY Zenon, <2>1 DEF IInv, RestInv, NoLostWakeup
<1> QED BY Invariance, <1>1, PTL

(* The kasserts of ke_wait_multi's last loop never fail.                     *)
THEOREM SatisfiedOnce == Spec => []OneSatisfier
<1>1. IInv => OneSatisfier
    <2> SUFFICES ASSUME IInv, NEW t \in Threads, pc[t] = "finish",
                        state[t] = "Runnable"
                 PROVE  /\ status[t] = "Satisfied"
                        /\ (block[t] = "Acquired") # (tblock[t] = "Acquired")
        BY Zenon DEF OneSatisfier
    <2>1. InWait(t) /\ status[t] = "Satisfied"
        BY Zenon DEF IInv, TypeOK, ThreadTypes, StatusInv, StatusOf, InWait, WaitPCs
    <2> QED BY Zenon, <2>1 DEF IInv, StatusInv, StatusOf
<1> QED BY Invariance, <1>1, PTL

(* As long as no thread polls, a wait that timed out owns nothing: whoever   *)
(* owns a mutex was told or is about to be.                                  *)
THEOREM TimedOutOwnsNothing == Spec => [](PollFree => NoPhantomOwner)
<1>1. IInv => (PollFree => NoPhantomOwner)
    BY Zenon DEF IInv, OwnerInv
<1> QED BY Invariance, <1>1, PTL

=============================================================================
