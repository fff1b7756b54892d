------------------------------- MODULE KeWait -------------------------------
(***************************************************************************)
(* The dispatcher objects of the nanokernel and the wait machinery under   *)
(* them: kern/wait.c, kern/mutex.c, kern/semaphore.c, the events of        *)
(* kern/msgqueue.c, and the part of kern/timer.c and kern/clock.c that a   *)
(* wait with a timeout goes through.                                       *)
(*                                                                         *)
(* Grain of atomicity.  A step is what the code does inside one critical   *)
(* section of an object's spinlock, except where that critical section     *)
(* touches the wait_status words of several threads: ki_signal keeps the   *)
(* spinlock (variable lock) over one step per wait block it pops, because  *)
(* each of those compare-and-swaps races with other objects' signallers    *)
(* and with the waiters themselves.  ki_wake_waiters runs after the        *)
(* spinlock was dropped, one step per access to shared memory.  Every      *)
(* thread is on a processor of its own; which processor runs it is the     *)
(* business of the scheduler.                                              *)
(*                                                                         *)
(* Every caller in the tree waits for one object, so a wait uses the       *)
(* thread's first integral wait block (here: the thread itself stands for  *)
(* it) and, when it has a timeout, the timer and timer_wb on its stack.    *)
(***************************************************************************)
EXTENDS Integers, Sequences, FiniteSets, Queues

CONSTANTS
    Threads, Mutexes, Semaphores, Events,
    NoThread,       \* NULL, as an owner, a link or a lock holder
    NoObject,       \* the object of a thread that is in no call
    Workloads,      \* how each thread's code uses which object
    SemInit,        \* ke_semaphore_init's count
    MaxCount        \* bound on a semaphore's count

Objects == Mutexes \cup Semaphores \cup Events

(* timeout == -1, timeout == 0, any other timeout *)
TimeoutKinds == {"forever", "poll", "timed"}

(* <<o, k>> with a timeout k: waits on o with it; <<o, "signal">>: only     *)
(* signals o                                                                *)
Uses == Objects \X (TimeoutKinds \cup {"signal"})

ASSUME ObjectsAssumption ==
    /\ Mutexes \cap Semaphores = {}
    /\ Mutexes \cap Events = {}
    /\ Semaphores \cap Events = {}

ASSUME NullAssumption == NoThread \notin Threads /\ NoObject \notin Objects

ASSUME FiniteAssumption == IsFiniteSet(Threads)

ASSUME WorkloadAssumption ==
    Workloads \subseteq [Threads -> SUBSET Uses]

ASSUME CountAssumption == SemInit \in Nat /\ MaxCount \in Nat

VARIABLES
    \* kdispatchheader_t and kmutex_t, one per object
    signalled, queue, owner,
    lock,       \* the thread inside ki_signal that holds hdr.spinlock
    \* kthread_t and its first integral wait block, one per thread
    state, status, block,
    next,       \* queue_entry.tqe_next of the thread's wait block
    \* the ktimer_t and timer_wb of a wait with a timeout
    timer, tblock,
    away,       \* the thread has left the CPU whose queue the timer is on
    \* locals of the calls in progress
    pc, obj, timeout,
    cur, last,  \* cursor and tail of ki_signal's wake queue
    \* what the callers were told, and the inputs of the behaviour
    held, balance, uses,
    panic       \* a kassert failed or a queue's links were corrupted

objectVars == <<signalled, queue, owner, lock>>
threadVars == <<state, status, block, next>>
timerVars == <<timer, tblock, away>>
callVars == <<pc, obj, timeout>>
wakeVars == <<cur, last>>
callerVars == <<held, balance, uses>>
vars == <<objectVars, threadVars, timerVars, callVars, wakeVars, callerVars,
          panic>>

Links == Threads \cup {NoThread}

PCs == {"run", "poll", "arm", "commit", "cancel", "cancelling", "finish",
        "signal", "wake", "advance"}

(* the steps of ke_wait_multi after the wait block was enqueued *)
WaitPCs == {"poll", "arm", "commit", "cancel", "cancelling", "finish"}

ObjectTypes ==
    /\ signalled \in [Objects -> Nat]
    /\ queue \in [Objects -> Seq(Threads)]
    /\ owner \in [Mutexes -> Links]
    /\ lock \in [Objects -> Links]

ThreadTypes ==
    /\ state \in [Threads -> {"Runnable", "Waiting"}]
    /\ status \in [Threads -> {"Preparing", "Waiting", "Satisfied"}]
    /\ block \in [Threads -> {"Active", "Deactivated", "Acquired"}]
    /\ next \in [Threads -> Links]

TimerTypes ==
    /\ timer \in [Threads -> {"Disabled", "InQueue", "Executing"}]
    /\ tblock \in [Threads -> {"Active", "Deactivated", "Acquired"}]
    /\ away \in [Threads -> BOOLEAN]

CallTypes ==
    /\ pc \in [Threads -> PCs]
    /\ obj \in [Threads -> Objects \cup {NoObject}]
    /\ timeout \in [Threads -> TimeoutKinds]
    /\ cur \in [Threads -> Links]
    /\ last \in [Threads -> Links]

CallerTypes ==
    /\ held \in [Threads -> SUBSET Mutexes]
    /\ balance \in [Semaphores -> Int]
    /\ uses \in [Threads -> SUBSET Uses]
    /\ panic \in BOOLEAN

TypeOK == ObjectTypes /\ ThreadTypes /\ TimerTypes /\ CallTypes /\ CallerTypes

-----------------------------------------------------------------------------
(* ke_mutex_init, ke_semaphore_init, ke_event_init(.., false)              *)
Init ==
    /\ signalled = [o \in Objects |-> IF o \in Mutexes THEN 1
                                      ELSE IF o \in Semaphores THEN SemInit
                                      ELSE 0]
    /\ queue = [o \in Objects |-> <<>>]
    /\ owner = [m \in Mutexes |-> NoThread]
    /\ lock = [o \in Objects |-> NoThread]
    /\ state = [t \in Threads |-> "Runnable"]
    /\ status = [t \in Threads |-> "Satisfied"]
    /\ block = [t \in Threads |-> "Deactivated"]
    /\ next = [t \in Threads |-> NoThread]
    /\ timer = [t \in Threads |-> "Disabled"]
    /\ tblock = [t \in Threads |-> "Deactivated"]
    /\ away = [t \in Threads |-> FALSE]
    /\ pc = [t \in Threads |-> "run"]
    /\ obj = [t \in Threads |-> NoObject]
    /\ timeout = [t \in Threads |-> "forever"]
    /\ cur = [t \in Threads |-> NoThread]
    /\ last = [t \in Threads |-> NoThread]
    /\ held = [t \in Threads |-> {}]
    /\ balance = [s \in Semaphores |-> SemInit]
    /\ uses \in Workloads
    /\ panic = FALSE

-----------------------------------------------------------------------------
(* A thread that is in no dispatcher call may make one its code makes.      *)
Waits(t, o, k) == pc[t] = "run" /\ <<o, k>> \in uses[t] /\ o \notin held[t]

Signals(t, o) == pc[t] = "run" /\ \E use \in uses[t] : use[1] = o

(* the wait reports to its caller that it acquired o *)
TellAcquired(t, o) ==
    /\ held' = IF o \in Mutexes THEN [held EXCEPT ![t] = @ \cup {o}] ELSE held
    /\ balance' = IF o \in Semaphores THEN [balance EXCEPT ![o] = @ - 1]
                  ELSE balance
    /\ UNCHANGED uses

(* The frame of the call is gone: its timer, its timer_wb and its locals    *)
(* are forgotten, and block_status is not read before the next wait sets it *)
Return(t) ==
    /\ pc' = [pc EXCEPT ![t] = "run"]
    /\ obj' = [obj EXCEPT ![t] = NoObject]
    /\ timeout' = [timeout EXCEPT ![t] = "forever"]
    /\ block' = [block EXCEPT ![t] = "Deactivated"]
    /\ tblock' = [tblock EXCEPT ![t] = "Deactivated"]
    /\ away' = [away EXCEPT ![t] = FALSE]

(* mutants of ki_object_acquire: the count of a mutex is left alone, or its *)
(* owner is not recorded                                                    *)
ki_object_acquire_keeps(o, t) ==
    /\ signalled' = [signalled EXCEPT ![o] = IF o \in Semaphores THEN @ - 1
                                             ELSE @]
    /\ owner' = IF o \in Mutexes THEN [owner EXCEPT ![o] = t] ELSE owner

ki_object_acquire_ownerless(o, t) ==
    /\ signalled' = [signalled EXCEPT ![o] = IF o \in Events THEN @ ELSE @ - 1]
    /\ UNCHANGED owner

ki_object_acquire(o, t) ==
    /\ signalled' = [signalled EXCEPT ![o] = IF o \in Events THEN @ ELSE @ - 1]
    /\ owner' = IF o \in Mutexes THEN [owner EXCEPT ![o] = t] ELSE owner

(* mutant of InsertTail: TAILQ_INSERT_HEAD *)
InsertHead(o, t) ==
    /\ queue' = [queue EXCEPT ![o] = <<t>> \o @]
    /\ next' = [next EXCEPT ![t] = IF queue[o] = <<>> THEN NoThread
                                   ELSE Head(queue[o])]

(* TAILQ_INSERT_TAIL(&obj->waitblock_queue, wb, queue_entry) *)
InsertTail(o, t) ==
    /\ queue' = [queue EXCEPT ![o] = Append(@, t)]
    /\ next' = [u \in Threads |->
                  IF u = t THEN NoThread
                  ELSE IF queue[o] # <<>> /\ u = queue[o][Len(queue[o])] THEN t
                  ELSE next[u]]

(* TAILQ_REMOVE of a wait block that is on the queue: its own link stays    *)
RemoveBlock(o, t) ==
    \E i \in 1 .. Len(queue[o]) :
        /\ queue[o][i] = t
        /\ queue' = [queue EXCEPT ![o] = Unlink(@, i)]
        /\ next' = IF i = 1 THEN next
                   ELSE [next EXCEPT ![queue[o][i - 1]] = next[t]]

Queued(o, t) == OnQueue(queue[o], t)

-----------------------------------------------------------------------------
(* ke_wait on an object that is signalled: the compare-and-swap cannot     *)
(* fail, nobody else has reached this thread's wait_status yet, and there  *)
(* is no earlier wait block to clean up                                    *)
ke_wait_acquire(t, o) ==
    /\ \E k \in TimeoutKinds : Waits(t, o, k)
    /\ lock[o] = NoThread
    /\ signalled[o] > 0
    /\ status' = [status EXCEPT ![t] = "Satisfied"]
    /\ ki_object_acquire(o, t)
    /\ TellAcquired(t, o)
    /\ UNCHANGED <<queue, lock, state, block, next, timerVars, callVars,
                   wakeVars, panic>>

AfterEnqueue(k) == IF k = "poll" THEN "poll"
                   ELSE IF k = "timed" THEN "arm" ELSE "commit"

(* ke_wait on an object that is not signalled: enqueue the wait block       *)
ke_wait_enqueue(t, o, k) ==
    /\ Waits(t, o, k)
    /\ lock[o] = NoThread
    /\ signalled[o] = 0
    /\ status' = [status EXCEPT ![t] = "Preparing"]
    /\ block' = [block EXCEPT ![t] = "Active"]
    /\ InsertTail(o, t)
    /\ obj' = [obj EXCEPT ![t] = o]
    /\ timeout' = [timeout EXCEPT ![t] = k]
    /\ pc' = [pc EXCEPT ![t] = AfterEnqueue(k)]
    /\ UNCHANGED <<signalled, owner, lock, state, timerVars, wakeVars,
                   callerVars, panic>>

(* timeout == 0: the wait block is deactivated and removed whether or not   *)
(* ki_signal popped it meanwhile.  Removing it again writes its old link    *)
(* into the head of the queue, which changes nothing if the queue still     *)
(* starts there and corrupts it otherwise.                                  *)
ke_wait_poll(t) ==
    LET o == obj[t] IN
    /\ pc[t] = "poll"
    /\ lock[o] = NoThread
    /\ \/ /\ Queued(o, t)
          /\ RemoveBlock(o, t)
          /\ UNCHANGED panic
       \/ /\ ~Queued(o, t)
          /\ panic' = (next[t] # IF queue[o] = <<>> THEN NoThread
                                 ELSE Head(queue[o]))
          /\ UNCHANGED <<queue, next>>
    /\ Return(t)
    /\ UNCHANGED <<signalled, owner, lock, state, status, timer, wakeVars,
                   callerVars>>

(* The timer is private to the wait until it is on a CPU's timer queue, so  *)
(* enqueueing timer_wb on it and ke_timer_set are one step                  *)
ke_wait_arm(t) ==
    /\ pc[t] = "arm"
    /\ tblock' = [tblock EXCEPT ![t] = "Active"]
    /\ timer' = [timer EXCEPT ![t] = "InQueue"]
    /\ pc' = [pc EXCEPT ![t] = "commit"]
    /\ UNCHANGED <<objectVars, threadVars, away, obj, timeout, wakeVars,
                   callerVars, panic>>

AfterSleep(t) == IF timeout[t] = "timed" THEN "cancel" ELSE "finish"

(* Under the thread lock, which is dropped only once the thread is switched *)
(* out: go to sleep unless somebody satisfied the wait before.              *)
ke_wait_commit(t) ==
    /\ pc[t] = "commit"
    /\ \/ /\ status[t] = "Preparing"
          /\ status' = [status EXCEPT ![t] = "Waiting"]
          /\ state' = [state EXCEPT ![t] = "Waiting"]
          /\ away' = [away EXCEPT ![t] = TRUE]
       \/ /\ status[t] # "Preparing"
          /\ UNCHANGED <<status, state, away>>
    /\ pc' = [pc EXCEPT ![t] = AfterSleep(t)]
    /\ UNCHANGED <<objectVars, block, next, timer, tblock, obj, timeout,
                   wakeVars, callerVars, panic>>

(* ke_timer_cancel takes the timer's spinlock.  The woken thread may be    *)
(* back on the CPU that armed the timer, where timer_expiry_dpc is then     *)
(* either over or cannot start, or on another one.                          *)
ke_timer_cancel_lock(t) ==
    /\ pc[t] = "cancel"
    /\ state[t] = "Runnable"
    /\ \/ /\ timer[t] # "Executing"
          /\ away' = [away EXCEPT ![t] = FALSE]
       \/ UNCHANGED away
    /\ pc' = [pc EXCEPT ![t] = "cancelling"]
    /\ UNCHANGED <<objectVars, threadVars, timer, tblock, obj, timeout,
                   wakeVars, callerVars, panic>>

(* It spins with it while the timer is executing.                           *)
ke_timer_cancel(t) ==
    /\ pc[t] = "cancelling"
    /\ timer[t] # "Executing"
    /\ timer' = [timer EXCEPT ![t] = "Disabled"]
    /\ pc' = [pc EXCEPT ![t] = "finish"]
    /\ UNCHANGED <<objectVars, threadVars, tblock, away, obj, timeout, wakeVars,
                   callerVars, panic>>

(* The final loop of ke_wait_multi.  After ke_timer_cancel the timer is     *)
(* private again, so both wait blocks are looked at in the object's         *)
(* critical section.                                                        *)
ke_wait_finish(t) ==
    LET o == obj[t]
        acquired == block[t] = "Acquired"
        expired == tblock[t] = "Acquired"
    IN
    /\ pc[t] = "finish"
    /\ state[t] = "Runnable"
    /\ lock[o] = NoThread
    /\ \/ /\ block[t] = "Active"
          /\ RemoveBlock(o, t)
       \/ /\ block[t] # "Active"
          /\ UNCHANGED <<queue, next>>
    /\ panic' = \/ status[t] # "Satisfied"
                \/ acquired = expired
    /\ IF acquired THEN TellAcquired(t, o) ELSE UNCHANGED callerVars
    /\ Return(t)
    /\ UNCHANGED <<signalled, owner, lock, state, status, timer, wakeVars>>

-----------------------------------------------------------------------------
(* The signalling calls take the object's spinlock, change its count and    *)
(* run ki_signal on it.                                                     *)
EnterSignal(t, o) ==
    /\ lock[o] = NoThread
    /\ lock' = [lock EXCEPT ![o] = t]
    /\ pc' = [pc EXCEPT ![t] = "signal"]
    /\ obj' = [obj EXCEPT ![t] = o]
    /\ UNCHANGED <<queue, threadVars, timerVars, timeout, wakeVars, uses>>

(* mutant of ke_mutex_release: the owner stays *)
ke_mutex_release_owned(t, m) ==
    /\ Signals(t, m)
    /\ m \in held[t]
    /\ EnterSignal(t, m)
    /\ signalled' = [signalled EXCEPT ![m] = @ + 1]
    /\ held' = [held EXCEPT ![t] = @ \ {m}]
    /\ panic' = (owner[m] # t \/ signalled[m] + 1 > 1)
    /\ UNCHANGED <<owner, balance>>

ke_mutex_release(t, m) ==
    /\ Signals(t, m)
    /\ m \in held[t]
    /\ EnterSignal(t, m)
    /\ owner' = [owner EXCEPT ![m] = NoThread]
    /\ signalled' = [signalled EXCEPT ![m] = @ + 1]
    /\ held' = [held EXCEPT ![t] = @ \ {m}]
    /\ panic' = (owner[m] # t \/ signalled[m] + 1 > 1)
    /\ UNCHANGED balance

ke_semaphore_release(t, s) ==
    /\ Signals(t, s)
    /\ signalled[s] < MaxCount
    /\ EnterSignal(t, s)
    /\ \E adjustment \in 1 .. (MaxCount - signalled[s]) :
          /\ signalled' = [signalled EXCEPT ![s] = @ + adjustment]
          /\ balance' = [balance EXCEPT ![s] = @ + adjustment]
    /\ UNCHANGED <<owner, held, panic>>

ke_semaphore_release_maxone(t, s) ==
    /\ Signals(t, s)
    /\ EnterSignal(t, s)
    /\ IF signalled[s] = 0
       THEN /\ signalled' = [signalled EXCEPT ![s] = 1]
            /\ balance' = [balance EXCEPT ![s] = @ + 1]
       ELSE UNCHANGED <<signalled, balance>>
    /\ UNCHANGED <<owner, held, panic>>

(* The only caller resets to zero. *)
ke_semaphore_reset(t, s) ==
    /\ Signals(t, s)
    /\ lock[s] = NoThread
    /\ signalled[s] > 0
    /\ signalled' = [signalled EXCEPT ![s] = 0]
    /\ balance' = [balance EXCEPT ![s] = @ - signalled[s]]
    /\ UNCHANGED <<queue, owner, lock, threadVars, timerVars, callVars,
                   wakeVars, held, uses, panic>>

ke_event_signal(t, e) ==
    /\ Signals(t, e)
    /\ EnterSignal(t, e)
    /\ signalled' = [signalled EXCEPT ![e] = 1]
    /\ UNCHANGED <<owner, held, balance, panic>>

ke_event_clear(t, e) ==
    /\ Signals(t, e)
    /\ lock[e] = NoThread
    /\ signalled' = [signalled EXCEPT ![e] = 0]
    /\ UNCHANGED <<queue, owner, lock, threadVars, timerVars, callVars,
                   wakeVars, callerVars, panic>>

(* mutants of SignalLoops: the count is not looked at, or its last unit is  *)
(* kept                                                                     *)
SignalLoopsUncounted(o) == queue[o] # <<>>
SignalLoopsShort(o) == queue[o] # <<>> /\ signalled[o] > 1

(* the loop condition of ki_signal *)
SignalLoops(o) == queue[o] # <<>> /\ signalled[o] > 0

(* mutant of Satisfiable: wait_status is set without comparing *)
SatisfiableAlways(w) == TRUE

(* one of the two compare-and-swaps of ki_waitblock_try_to_satisfy succeeds *)
Satisfiable(w) == status[w] # "Satisfied"

(* mutant of Asleep: the two compare-and-swaps are mixed up *)
AsleepSwapped(w) == status[w] = "Preparing"

(* it is the second one: the waiter has to be woken *)
Asleep(w) == status[w] = "Waiting"

(* ki_signal pops a wait block; ki_waitblock_try_to_satisfy succeeds.  A    *)
(* waiter already asleep goes on the caller's wake queue, through the link  *)
(* of the same wait block.                                                  *)
ki_signal_satisfy(t) ==
    LET o == obj[t]
        w == Head(queue[o])
    IN
    /\ pc[t] = "signal"
    /\ SignalLoops(o)
    /\ Satisfiable(w)
    /\ queue' = [queue EXCEPT ![o] = Tail(@)]
    /\ status' = [status EXCEPT ![w] = "Satisfied"]
    /\ block' = [block EXCEPT ![w] = "Acquired"]
    /\ ki_object_acquire(o, w)
    /\ IF Asleep(w)
       THEN /\ next' = [u \in Threads |-> IF u = w THEN NoThread
                                          ELSE IF u = last[t] THEN w
                                          ELSE next[u]]
            /\ last' = [last EXCEPT ![t] = w]
            /\ cur' = [cur EXCEPT ![t] = IF @ = NoThread THEN w ELSE @]
       ELSE UNCHANGED <<next, last, cur>>
    /\ UNCHANGED <<lock, state, timerVars, callVars, callerVars, panic>>

(* mutant of ki_signal_skip: the object is acquired before the wait is       *)
(* found to be satisfied                                                     *)
ki_signal_skip_acquires(t) ==
    LET o == obj[t]
        w == Head(queue[o])
    IN
    /\ pc[t] = "signal"
    /\ SignalLoops(o)
    /\ ~Satisfiable(w)
    /\ queue' = [queue EXCEPT ![o] = Tail(@)]
    /\ block' = [block EXCEPT ![w] = "Deactivated"]
    /\ ki_object_acquire(o, w)
    /\ UNCHANGED <<lock, state, status, next, timerVars, callVars, wakeVars,
                   callerVars, panic>>

(* ki_signal pops the wait block of a wait that somebody else satisfied     *)
ki_signal_skip(t) ==
    LET o == obj[t]
        w == Head(queue[o])
    IN
    /\ pc[t] = "signal"
    /\ SignalLoops(o)
    /\ ~Satisfiable(w)
    /\ queue' = [queue EXCEPT ![o] = Tail(@)]
    /\ block' = [block EXCEPT ![w] = "Deactivated"]
    /\ UNCHANGED <<signalled, owner, lock, state, status, next, timerVars,
                   callVars, wakeVars, callerVars, panic>>

(* ki_signal returns and its caller drops the object's spinlock             *)
ki_signal_done(t) ==
    LET o == obj[t] IN
    /\ pc[t] = "signal"
    /\ ~SignalLoops(o)
    /\ lock' = [lock EXCEPT ![o] = NoThread]
    /\ pc' = [pc EXCEPT ![t] = "wake"]
    /\ obj' = [obj EXCEPT ![t] = NoObject]
    /\ UNCHANGED <<signalled, queue, owner, threadVars, timerVars, timeout,
                   wakeVars, callerVars, panic>>

(* the condition ki_wake_waiter asserts of the thread it is given *)
Custody(w) == state[w] = "Waiting" /\ status[w] = "Satisfied"

ki_wake_waiter(t) ==
    LET w == cur[t] IN
    /\ pc[t] = "wake"
    /\ w # NoThread
    /\ IF Custody(w)
       THEN /\ state' = [state EXCEPT ![w] = "Runnable"]
            /\ UNCHANGED panic
       ELSE /\ panic' = TRUE
            /\ UNCHANGED state
    /\ pc' = [pc EXCEPT ![t] = "advance"]
    /\ UNCHANGED <<objectVars, status, block, next, timerVars, obj, timeout,
                   wakeVars, callerVars>>

(* TAILQ_FOREACH reads the link of the wait block it has just woken         *)
ki_wake_waiters_next(t) ==
    /\ pc[t] = "advance"
    /\ cur' = [cur EXCEPT ![t] = next[cur[t]]]
    /\ pc' = [pc EXCEPT ![t] = "wake"]
    /\ UNCHANGED <<objectVars, threadVars, timerVars, obj, timeout, last,
                   callerVars, panic>>

ki_wake_waiters_done(t) ==
    /\ pc[t] = "wake"
    /\ cur[t] = NoThread
    /\ last' = [last EXCEPT ![t] = NoThread]
    /\ pc' = [pc EXCEPT ![t] = "run"]
    /\ UNCHANGED <<objectVars, threadVars, timerVars, obj, timeout, cur,
                   callerVars, panic>>

-----------------------------------------------------------------------------
(* timer_expiry_dpc on the CPU that armed the timer, which cannot run while *)
(* the thread is there at IPL dpc: first, under dpc_lock, the timer leaves  *)
(* the queue ...                                                            *)
timer_expiry_dequeue(t) ==
    /\ timer[t] = "InQueue"
    /\ away[t]
    /\ timer' = [timer EXCEPT ![t] = "Executing"]
    /\ UNCHANGED <<objectVars, threadVars, tblock, away, callVars, wakeVars,
                   callerVars, panic>>

(* ... then, under the timer's spinlock (which a canceller holds), its wait *)
(* is satisfied and the waiter woken.  The one waiter cannot run past       *)
(* ke_timer_cancel before the spinlock is dropped, so this is one step.     *)
timer_expiry_signal(t) ==
    /\ timer[t] = "Executing"
    /\ pc[t] # "cancelling"
    /\ timer' = [timer EXCEPT ![t] = "Disabled"]
    /\ tblock' = [tblock EXCEPT ![t] = IF status[t] = "Satisfied"
                                       THEN "Deactivated" ELSE "Acquired"]
    /\ status' = [status EXCEPT ![t] = "Satisfied"]
    /\ state' = [state EXCEPT ![t] = IF status[t] = "Waiting"
                                     THEN "Runnable" ELSE @]
    /\ UNCHANGED <<objectVars, block, next, away, callVars, wakeVars,
                   callerVars, panic>>

-----------------------------------------------------------------------------
(* the rest of a call a thread is in *)
Continue(t) ==
    \/ ke_wait_poll(t) \/ ke_wait_arm(t) \/ ke_wait_commit(t)
    \/ ke_timer_cancel_lock(t) \/ ke_timer_cancel(t) \/ ke_wait_finish(t)
    \/ ki_signal_satisfy(t) \/ ki_signal_skip(t) \/ ki_signal_done(t)
    \/ ki_wake_waiter(t) \/ ki_wake_waiters_next(t) \/ ki_wake_waiters_done(t)

Expiry(t) == timer_expiry_dequeue(t) \/ timer_expiry_signal(t)

ReleaseMutexes(t) == \E m \in Mutexes : ke_mutex_release(t, m)

Next ==
    /\ ~panic
    /\ \E t \in Threads :
          \/ \E o \in Objects : ke_wait_acquire(t, o)
          \/ \E o \in Objects, k \in TimeoutKinds : ke_wait_enqueue(t, o, k)
          \/ ReleaseMutexes(t)
          \/ \E s \in Semaphores : \/ ke_semaphore_release(t, s)
                                   \/ ke_semaphore_release_maxone(t, s)
                                   \/ ke_semaphore_reset(t, s)
          \/ \E e \in Events : ke_event_signal(t, e) \/ ke_event_clear(t, e)
          \/ Continue(t)
          \/ Expiry(t)

Spec == Init /\ [][Next]_vars

(* A thread inside a dispatcher call is at IPL dpc on some processor and    *)
(* keeps executing, and the clock keeps ticking.  That a thread releases a  *)
(* mutex it holds is what every caller in the tree does.                    *)
Fairness ==
    \A t \in Threads : /\ WF_vars(~panic /\ Continue(t))
                       /\ WF_vars(~panic /\ Expiry(t))
                       /\ WF_vars(~panic /\ ReleaseMutexes(t))

FairSpec == Spec /\ Fairness

-----------------------------------------------------------------------------
InWait(t) == pc[t] \in WaitPCs

(* the wait t is in has been satisfied by the object o itself *)
Granted(t, o) == InWait(t) /\ obj[t] = o /\ block[t] = "Acquired"

(* Two threads are never both told by ke_wait that they have the same      *)
(* mutex (ki_object_acquire, ke_mutex_release).                             *)
MutualExclusion ==
    \A m \in Mutexes : \A t, u \in Threads :
        m \in held[t] /\ m \in held[u] => t = u

(* A thread owns a mutex only if ke_wait said so or is still about to: in   *)
(* particular a ke_wait that returned kKernWaitStatusTimedOut acquired      *)
(* nothing, however its timer raced the release of the mutex.               *)
NoPhantomOwner ==
    \A m \in Mutexes : \A t \in Threads :
        owner[m] = t => m \in held[t] \/ Granted(t, m)

(* Every unit put into a semaphore is still in its count, or was taken by   *)
(* exactly one wait: none is lost or handed out twice when a release meets  *)
(* a timeout.                                                               *)
TokensConserved ==
    \A s \in Semaphores :
        balance[s] = signalled[s] + Cardinality({t \in Threads : Granted(t, s)})

(* No wakeup is lost: a thread asleep for an object is on its queue, and    *)
(* an object at rest that is signalled has no wait block left queued.       *)
NoLostWakeup ==
    /\ \A t \in Threads :
          state[t] = "Waiting" /\ status[t] = "Waiting" => Queued(obj[t], t)
    /\ \A o \in Objects :
          lock[o] = NoThread /\ signalled[o] > 0 => queue[o] = <<>>

(* The kasserts of ke_wait_multi's last loop: a wait that has slept or was  *)
(* cut short has been satisfied, and by exactly one of its object and its   *)
(* timer, even when both were signalled at once.                            *)
OneSatisfier ==
    \A t \in Threads :
        pc[t] = "finish" /\ state[t] = "Runnable" =>
            /\ status[t] = "Satisfied"
            /\ (block[t] = "Acquired") # (tblock[t] = "Acquired")

(* None of the kasserts of wait.c and mutex.c fails and no queue is         *)
(* unlinked twice.                                                          *)
NoAssertionFails == ~panic

(* The kassert of ki_wake_waiter, and the comment in timer_expiry_dpc: a    *)
(* thread whose wait block is on a wake queue stays in the signaller's      *)
(* custody until ki_wake_waiters gives the go-ahead.                        *)
WakesOnlyInCustody ==
    \A t \in Threads : pc[t] = "wake" /\ cur[t] # NoThread => Custody(cur[t])

(* A thread that was satisfied in its sleep is woken (ki_wake_waiters).     *)
SatisfiedIsWoken ==
    \A t \in Threads : Custody(t) ~> state[t] = "Runnable"

(* All that happens to the mutex m is that threads lock it and release it.  *)
OnlyLocks(m) == \A t \in Threads : uses[t] \subseteq {<<m, "forever">>}

(* Mutexes are handed over in turn: a thread queued for a mutex gets it,    *)
(* however often the others lock it again.                                  *)
MutexHandedOver ==
    \A t \in Threads, m \in Mutexes :
        Queued(m, t) /\ OnlyLocks(m) ~> m \in held[t]

(* ke_timer_cancel, which every wait with a timeout ends with, only spins   *)
(* for a short time, until the signalling of the timer is complete.         *)
TimerCancelReturns ==
    \A t \in Threads : pc[t] = "cancelling" ~> pc[t] # "cancelling"

-----------------------------------------------------------------------------
(* The inductive invariant behind the safety properties.                    *)

(* a thread holds the spinlock of the object it signals, and no other *)
LockInv ==
    \A t \in Threads :
        /\ pc[t] = "signal" => obj[t] \in Objects
        /\ \A o \in Objects : lock[o] = t <=> pc[t] = "signal" /\ obj[t] = o

(* a wait block is on a queue exactly while it is active, once, and on the  *)
(* queue of the object its thread waits for                                 *)
QueueInv ==
    /\ \A o \in Objects : IsInjective(queue[o])
    /\ \A o \in Objects, t \in Threads :
          Queued(o, t) <=> InWait(t) /\ obj[t] = o /\ block[t] = "Active"
    /\ \A t \in Threads : InWait(t) => obj[t] \in Objects

(* the wait block, the timer's wait block and wait_status agree *)
StatusOf(t) ==
    /\ InWait(t) /\ status[t] # "Satisfied" =>
          block[t] = "Active" /\ tblock[t] # "Acquired"
    /\ InWait(t) /\ status[t] = "Satisfied" =>
          (block[t] = "Acquired") # (tblock[t] = "Acquired")
    /\ pc[t] \in {"cancel", "cancelling", "finish"} => status[t] # "Preparing"
    /\ InWait(t) /\ status[t] = "Waiting" => state[t] = "Waiting"
    /\ state[t] = "Waiting" => pc[t] \in {"cancel", "finish"}
    /\ timer[t] # "Disabled" =>
          /\ tblock[t] = "Active" /\ timeout[t] = "timed"
          /\ pc[t] \in {"commit", "cancel", "cancelling"}
    /\ pc[t] = "arm" => timeout[t] = "timed"
    /\ pc[t] \notin {"commit", "cancel", "cancelling", "finish"} =>
          tblock[t] = "Deactivated"

StatusInv == \A t \in Threads : StatusOf(t)

(* a mutex is free, or has one owner who was told or will be *)
MutexInv ==
    \A m \in Mutexes :
        /\ signalled[m] \in {0, 1}
        /\ owner[m] # NoThread => signalled[m] = 0
        /\ \A t \in Threads : m \in held[t] \/ Granted(t, m) =>
              owner[m] = t /\ signalled[m] = 0
        /\ \A t \in Threads : m \in held[t] => ~Granted(t, m)

(* without polls, an owner was told or will be *)
PollFree == \A t \in Threads : \A o \in Objects : <<o, "poll">> \notin uses[t]

OwnerInv ==
    /\ \A t \in Threads : pc[t] = "poll" => <<obj[t], "poll">> \in uses[t]
    /\ PollFree => NoPhantomOwner

(* an object at rest has no satisfiable waiter *)
RestInv ==
    \A o \in Objects :
        lock[o] = NoThread /\ signalled[o] > 0 => queue[o] = <<>>

(* the cursor of ki_wake_waiters is past its last wait block only between   *)
(* two of them                                                              *)
CursorInv == \A t \in Threads : pc[t] = "advance" => cur[t] \in Threads

IInv == TypeOK /\ CursorInv /\ LockInv /\ QueueInv /\ StatusInv
        /\ MutexInv /\ OwnerInv /\ RestInv

=============================================================================
