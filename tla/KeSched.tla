------------------------------ MODULE KeSched ------------------------------
(***************************************************************************)
(* The scheduler: kern/sched.c, with the hardclock of kern/clock.c, thread *)
(* exit (executive/process.c) and the dispatch interrupt of the platform   *)
(* layer.  Waiting is reduced to what it asks of the scheduler: a thread   *)
(* goes to sleep with its own lock held, and is woken once (KeWait).       *)
(*                                                                         *)
(* A step is one critical section of a sched_lock or dpc_lock, or one      *)
(* access outside of them.  Interrupts above IPL dpc (DeviceInterrupt,     *)
(* ki_cpu_hardclock) come between any two steps of a CPU; the dispatch     *)
(* interrupt only when the CPU is at low IPL, running a thread.            *)
(* done_queue is the linked list it is in the code, as two locks of the    *)
(* same name guard it.  Memory of a released thread is not reused.         *)
(***************************************************************************)
EXTENDS Queues

CONSTANTS
    Cpus,           \* numbered, as kcpu_t::num; a CPU's number is also its
                    \* idle thread
    Threads,        \* the other threads
    First,          \* ex_init_thread
    Mortal,         \* the threads that ever exit
    Deferred,       \* the DPCs of device drivers and of the timers
    timer_expiry_dpc,   \* of a CPU
    NoCpu, NoThread

ASSUME CpusAssumption == Cpus \subseteq Nat /\ NoCpu \notin Cpus
ASSUME ThreadsAssumption ==
    /\ Threads \cap Cpus = {}
    /\ NoThread \notin Threads
    /\ First \in Threads
    /\ Mortal \subseteq Threads
    /\ "done_queue" \notin Threads
ASSUME BootAssumption == 0 \in Cpus
ASSUME DpcAssumption ==
    /\ timer_expiry_dpc \in [Cpus -> Deferred]
    /\ \A c \in Cpus : <<"done", c>> \notin Deferred

VARIABLES
    \* struct kcpu
    runqueue, curthread, old_thread, reschedule_reason, dpc_queue,
    \* struct kthread
    state, lock,
    idle_mask,
    dpc_cpu,                \* kdpc_t::cpu
    \* the machine
    pc,
    stack,                  \* the thread whose stack and registers are in use
    interrupt,              \* the dispatch interrupt is pending
    \* locals of the handler the CPU is in
    thread, chosen, ret,    \* live while the CPU is in it, reset as it leaves
    \* thread deletion
    next, prev, last,       \* the links of done_queue
    insert_lock,            \* done_lock of ki_reschedule
    reap_lock,              \* done_lock of done_thread_dpc
    released

IdleThread(c) == c
DoneDpc(c) == <<"done", c>>
Dpcs == Deferred \cup {DoneDpc(c) : c \in Cpus}
AllThreads == Threads \cup Cpus

cpuVars == <<runqueue, curthread, old_thread, reschedule_reason>>
threadVars == <<state, lock>>
dpcVars == <<dpc_queue, dpc_cpu, interrupt>>
localVars == <<thread, chosen, ret>>
doneVars == <<next, prev, last, insert_lock, reap_lock, released>>
vars == <<cpuVars, threadVars, dpcVars, localVars, doneVars, idle_mask, pc,
          stack>>

CpuTypes ==
    /\ runqueue \in [Cpus -> Seq(Threads)]
    /\ curthread \in [Cpus -> AllThreads]
    /\ old_thread \in [Cpus -> AllThreads]
    /\ reschedule_reason \in [Cpus -> {"None", "Preempted"}]
    /\ idle_mask \in SUBSET Cpus

ThreadTypes ==
    /\ state \in [AllThreads ->
                    {"Initial", "Runnable", "Running", "Waiting", "Done"}]
    /\ lock \in [AllThreads -> Cpus \cup {NoCpu}]

DpcTypes ==
    /\ dpc_queue \in [Cpus -> Seq(Dpcs)]
    /\ dpc_cpu \in [Dpcs -> Cpus \cup {NoCpu}]
    /\ interrupt \in [Cpus -> BOOLEAN]

MachineTypes ==
    /\ pc \in [Cpus -> {"run", "dispatch", "callback", "reap", "check", "preempt",
                        "reschedule", "link", "linked", "pick", "mask",
                        "switch", "switched", "wake", "resume", "kick",
                        "unlink", "unlinked", "release"}]
    /\ stack \in [Cpus -> AllThreads]
    /\ thread \in [Cpus -> Threads \cup {NoThread}]
    /\ chosen \in [Cpus -> Cpus]
    /\ ret \in [Cpus -> {"run", "dispatch"}]

DoneTypes ==
    /\ next \in [Threads \cup {"done_queue"} -> Threads \cup {NoThread}]
    /\ prev \in [Threads -> Threads \cup {"done_queue"}]
    /\ last \in Threads \cup {"done_queue"}
    /\ insert_lock \in Cpus \cup {NoCpu}
    /\ reap_lock \in Cpus \cup {NoCpu}
    /\ released \in SUBSET Threads

TypeOK == CpuTypes /\ ThreadTypes /\ DpcTypes /\ MachineTypes /\ DoneTypes

(* _start once smp_start has returned: every CPU is in its idle thread, and *)
(* the first is about to resume ex_init_thread.                             *)
Init ==
    /\ runqueue = [c \in Cpus |-> <<>>]
    /\ curthread = [c \in Cpus |-> IdleThread(c)]
    /\ old_thread = [c \in Cpus |-> IdleThread(c)]
    /\ reschedule_reason = [c \in Cpus |-> "None"]
    /\ idle_mask = Cpus
    /\ state = [t \in AllThreads |-> IF t \in Cpus THEN "Running"
                                                   ELSE "Initial"]
    /\ lock = [t \in AllThreads |-> NoCpu]
    /\ dpc_queue = [c \in Cpus |-> <<>>]
    /\ dpc_cpu = [d \in Dpcs |-> NoCpu]
    /\ interrupt = [c \in Cpus |-> FALSE]
    /\ pc = [c \in Cpus |-> IF c = 0 THEN "wake" ELSE "run"]
    /\ stack = [c \in Cpus |-> IdleThread(c)]
    /\ thread = [c \in Cpus |-> IF c = 0 THEN First ELSE NoThread]
    /\ chosen = [c \in Cpus |-> c]
    /\ ret = [c \in Cpus |-> "run"]
    /\ next = [t \in Threads \cup {"done_queue"} |-> NoThread]
    /\ prev = [t \in Threads |-> "done_queue"]
    /\ last = "done_queue"
    /\ insert_lock = NoCpu
    /\ reap_lock = NoCpu
    /\ released = {}

Goto(c, label) == pc' = [pc EXCEPT ![c] = label]

-----------------------------------------------------------------------------
(* Deferred procedure calls                                                *)

(* mutants of Enqueue: the DPC's cpu field is not compared, or the dispatch  *)
(* interrupt is not raised                                                  *)
EnqueueAgain(c, d, raise) ==
    /\ dpc_cpu' = [dpc_cpu EXCEPT ![d] = c]
    /\ dpc_queue' = [dpc_queue EXCEPT ![c] = Append(@, d)]
    /\ interrupt' = [interrupt EXCEPT ![c] = TRUE]
EnqueueSilent(c, d, raise) ==
    LET free == dpc_cpu[d] = NoCpu
    IN  /\ dpc_cpu' = [dpc_cpu EXCEPT ![d] = IF free THEN c ELSE @]
        /\ dpc_queue' = [dpc_queue EXCEPT ![c] = IF free THEN Append(@, d)
                                                         ELSE @]
        /\ interrupt' = [interrupt EXCEPT ![c] = @ \/ raise]

(* ke_dpc_enqueue at IPL dpc or above: put on this CPU's queue unless it is *)
(* on one.  raise: the caller raises the dispatch interrupt for its part.   *)
Enqueue(c, d, raise) ==
    LET free == dpc_cpu[d] = NoCpu
    IN  /\ dpc_cpu' = [dpc_cpu EXCEPT ![d] = IF free THEN c ELSE @]
        /\ dpc_queue' = [dpc_queue EXCEPT ![c] = IF free THEN Append(@, d)
                                                         ELSE @]
        /\ interrupt' = [interrupt EXCEPT ![c] = @ \/ raise \/ free]

(* a driver's interrupt handler defers its work *)
DeviceInterrupt(c, d) ==
    /\ Enqueue(c, d, FALSE)
    /\ UNCHANGED <<cpuVars, threadVars, localVars, doneVars, idle_mask, pc,
                   stack>>

(* the hardclock: the slice of the current thread may have run out, and a   *)
(* timer may be due                                                         *)
ki_cpu_hardclock(c, expired, want_timers) ==
    /\ reschedule_reason' = [reschedule_reason EXCEPT ![c] =
                                IF expired THEN "Preempted" ELSE @]
    /\ IF want_timers
       THEN Enqueue(c, timer_expiry_dpc[c], expired)
       ELSE /\ interrupt' = [interrupt EXCEPT ![c] = @ \/ expired]
            /\ UNCHANGED <<dpc_queue, dpc_cpu>>
    /\ UNCHANGED <<runqueue, curthread, old_thread, threadVars, localVars,
                   doneVars, idle_mask, pc, stack>>

(* ke_dpc_enqueue at low IPL: the callback is run on the spot *)
ke_dpc_enqueue(c) ==
    /\ pc[c] = "run"
    /\ curthread[c] \in Threads
    /\ Goto(c, "callback")
    /\ UNCHANGED <<cpuVars, threadVars, dpcVars, localVars, doneVars,
                   idle_mask, stack>>

(* the dispatch interrupt is taken: IPL is low *)
Interrupt(c) ==
    /\ pc[c] = "run"
    /\ interrupt[c]
    /\ interrupt' = [interrupt EXCEPT ![c] = FALSE]
    /\ ret' = [ret EXCEPT ![c] = "dispatch"]
    /\ Goto(c, "dispatch")
    /\ UNCHANGED <<cpuVars, threadVars, dpc_queue, dpc_cpu, thread, chosen,
                   doneVars, idle_mask, stack>>

(* ki_dispatch_dpcs takes the next DPC off the queue ... *)
DispatchNext(c) ==
    /\ pc[c] = "dispatch"
    /\ dpc_queue[c] # <<>>
    /\ LET d == Head(dpc_queue[c])
       IN  /\ dpc_cpu' = [dpc_cpu EXCEPT ![d] = NoCpu]
           /\ Goto(c, IF d = DoneDpc(c) THEN "reap" ELSE "callback")
    /\ dpc_queue' = [dpc_queue EXCEPT ![c] = Tail(@)]
    /\ UNCHANGED <<cpuVars, threadVars, interrupt, localVars, doneVars,
                   idle_mask, stack>>

(* ... or finds it empty *)
DispatchEmpty(c) ==
    /\ pc[c] = "dispatch"
    /\ dpc_queue[c] = <<>>
    /\ ret' = [ret EXCEPT ![c] = "run"]
    /\ Goto(c, "check")
    /\ UNCHANGED <<cpuVars, threadVars, dpcVars, thread, chosen, doneVars,
                   idle_mask, stack>>

(* mutant of DispatchCheck: reschedule_reason is not looked at *)
DispatchLeave(c) ==
    /\ pc[c] = "check"
    /\ Goto(c, "run")
    /\ UNCHANGED <<cpuVars, threadVars, dpcVars, localVars, doneVars,
                   idle_mask, stack>>

(* the end of ki_dispatch_dpcs *)
DispatchCheck(c) ==
    /\ pc[c] = "check"
    /\ Goto(c, IF reschedule_reason[c] = "None" THEN "run" ELSE "preempt")
    /\ UNCHANGED <<cpuVars, threadVars, dpcVars, localVars, doneVars,
                   idle_mask, stack>>

(* a driver's or the timer's callback is over *)
CallbackReturns(c) ==
    /\ pc[c] = "callback"
    /\ Goto(c, ret[c])
    /\ UNCHANGED <<cpuVars, threadVars, dpcVars, localVars, doneVars,
                   idle_mask, stack>>

-----------------------------------------------------------------------------
(* Making a thread runnable                                                *)

Queued(t) == \E c \in Cpus : OnQueue(runqueue[c], t)
Claimed(t) ==
    \E c \in Cpus : pc[c] \in {"wake", "resume", "kick"} /\ thread[c] = t

(* whom code on some CPU may wake: a sleeper whose wait it was first to     *)
(* satisfy, or a thread it has created                                      *)
Wakeable(t) ==
    /\ state[t] \in {"Waiting", "Initial"}
    /\ ~ Claimed(t)
    /\ ~ Queued(t)

(* code on this CPU is about to wake a thread *)
BeginWake(c, t) ==
    /\ Wakeable(t)
    /\ thread' = [thread EXCEPT ![c] = t]
    /\ Goto(c, "wake")
    /\ UNCHANGED <<cpuVars, threadVars, dpcVars, chosen, ret, doneVars,
                   idle_mask, stack>>

ThreadWakes(c, t) ==
    /\ pc[c] = "run"
    /\ curthread[c] \in Threads
    /\ BeginWake(c, t)

CallbackWakes(c, t) ==
    /\ pc[c] = "callback"
    /\ BeginWake(c, t)

(* the CPU a woken thread is given to: this one, or the first idle one *)
Choose(c) ==
    IF c \in idle_mask \/ idle_mask = {}
    THEN {c}
    ELSE {d \in idle_mask : \A e \in idle_mask : d <= e}

(* mutant of ki_wake_waiter: the thread's lock is not waited for *)
ki_wake_waiter_unlocked(c) ==
    LET t == thread[c]
    IN  /\ pc[c] = "wake"
        /\ lock' = [lock EXCEPT ![t] = c]
        /\ state' = [state EXCEPT ![t] = IF @ = "Waiting" THEN "Runnable"
                                                          ELSE @]
        /\ \E d \in Choose(c) : chosen' = [chosen EXCEPT ![c] = d]
        /\ Goto(c, "resume")
        /\ UNCHANGED <<cpuVars, dpcVars, thread, ret, doneVars,
                       idle_mask, stack>>

(* ki_wake_waiter and ke_thread_resume take the thread's lock;              *)
(* ki_thread_resume_locked reads idle_mask                                  *)
ki_wake_waiter(c) ==
    LET t == thread[c]
    IN  /\ pc[c] = "wake"
        /\ lock[t] = NoCpu
        /\ lock' = [lock EXCEPT ![t] = c]
        /\ state' = [state EXCEPT ![t] = IF @ = "Waiting" THEN "Runnable"
                                                          ELSE @]
        /\ \E d \in Choose(c) : chosen' = [chosen EXCEPT ![c] = d]
        /\ Goto(c, "resume")
        /\ UNCHANGED <<cpuVars, dpcVars, thread, ret, doneVars,
                       idle_mask, stack>>

(* ki_reschedule is in its critical section for more than one step *)
SchedLocked(c) == pc[c] \in {"link", "linked", "pick"}

(* the critical section of ki_thread_resume_locked *)
ki_thread_resume_locked(c) ==
    LET d == chosen[c]
    IN  /\ pc[c] = "resume"
        /\ ~ SchedLocked(d)
        /\ runqueue' = [runqueue EXCEPT ![d] = <<thread[c]>> \o @]
        /\ reschedule_reason' = [reschedule_reason EXCEPT ![d] = "Preempted"]
        /\ Goto(c, "kick")
        /\ UNCHANGED <<curthread, old_thread, threadVars, dpcVars, localVars,
                       doneVars, idle_mask, stack>>

(* mutant of ResumeInterrupt: the interrupt is raised on the waking CPU *)
ResumeInterruptHere(c) ==
    /\ pc[c] = "kick"
    /\ interrupt' = [interrupt EXCEPT ![c] = TRUE]
    /\ lock' = [lock EXCEPT ![thread[c]] = NoCpu]
    /\ thread' = [thread EXCEPT ![c] = NoThread]
    /\ chosen' = [chosen EXCEPT ![c] = c]
    /\ Goto(c, ret[c])
    /\ UNCHANGED <<cpuVars, state, dpc_queue, dpc_cpu, ret, doneVars,
                   idle_mask, stack>>

(* its end: the interrupt, here or on the other CPU; the lock is dropped *)
ResumeInterrupt(c) ==
    /\ pc[c] = "kick"
    /\ interrupt' = [interrupt EXCEPT ![chosen[c]] = TRUE]
    /\ lock' = [lock EXCEPT ![thread[c]] = NoCpu]
    /\ thread' = [thread EXCEPT ![c] = NoThread]
    /\ chosen' = [chosen EXCEPT ![c] = c]
    /\ Goto(c, ret[c])
    /\ UNCHANGED <<cpuVars, state, dpc_queue, dpc_cpu, ret, doneVars,
                   idle_mask, stack>>

-----------------------------------------------------------------------------
(* Giving up the CPU                                                       *)

(* ke_wait goes to sleep *)
Wait(c) ==
    LET t == curthread[c]
    IN  /\ pc[c] = "run"
        /\ t \in Threads
        /\ lock[t] = NoCpu
        /\ lock' = [lock EXCEPT ![t] = c]
        /\ state' = [state EXCEPT ![t] = "Waiting"]
        /\ Goto(c, "reschedule")
        /\ UNCHANGED <<cpuVars, dpcVars, localVars, doneVars, idle_mask,
                       stack>>

ps_exit_this_thread(c) ==
    LET t == curthread[c]
    IN  /\ pc[c] = "run"
        /\ t \in Mortal
        /\ lock[t] = NoCpu
        /\ lock' = [lock EXCEPT ![t] = c]
        /\ state' = [state EXCEPT ![t] = "Done"]
        /\ Goto(c, "reschedule")
        /\ UNCHANGED <<cpuVars, dpcVars, localVars, doneVars, idle_mask,
                       stack>>

(* ki_dispatch_dpcs preempts the current thread *)
Preempt(c) ==
    LET t == curthread[c]
    IN  /\ pc[c] = "preempt"
        /\ lock[t] = NoCpu
        /\ lock' = [lock EXCEPT ![t] = c]
        /\ Goto(c, "reschedule")
        /\ UNCHANGED <<cpuVars, state, dpcVars, localVars, doneVars,
                       idle_mask, stack>>

(* the rest of ki_reschedule's critical section, the old thread being on    *)
(* ready if it is to run again; if it is the one to run again, all of it    *)
Pick(c, ready) ==
    LET old == curthread[c]
        new == IF ready = <<>> THEN IdleThread(c) ELSE Head(ready)
    IN  /\ runqueue' = [runqueue EXCEPT ![c] = IF ready = <<>> THEN <<>>
                                                        ELSE Tail(ready)]
        /\ state' = [state EXCEPT ![old] = IF old \in Threads /\ @ = "Running"
                                          THEN "Runnable" ELSE @,
                                  ![new] = "Running"]
        /\ curthread' = [curthread EXCEPT ![c] = new]
        /\ old_thread' = [old_thread EXCEPT ![c] = old]
        /\ reschedule_reason' = [reschedule_reason EXCEPT ![c] = "None"]
        /\ lock' = [lock EXCEPT ![old] = IF new = old THEN NoCpu ELSE @]
        /\ Goto(c, IF new = old THEN "run" ELSE "mask")
        /\ UNCHANGED <<dpcVars, localVars, doneVars, idle_mask, stack>>

(* mutant of ki_reschedule: a sleeping thread too is put back on the queue *)
ki_reschedule_requeue(c) ==
    LET old == curthread[c]
    IN  /\ pc[c] = "reschedule"
        /\ state[old] # "Done"
        /\ Pick(c, IF old \in Threads THEN Append(runqueue[c], old)
                                     ELSE runqueue[c])

ki_reschedule(c) ==
    LET old == curthread[c]
    IN  /\ pc[c] = "reschedule"
        /\ state[old] # "Done"
        /\ Pick(c, IF old \in Threads /\ state[old] = "Running"
                   THEN Append(runqueue[c], old)
                   ELSE runqueue[c])

(* ki_reschedule inserts an exiting thread at the tail of done_queue: the   *)
(* new element's links, ...                                                 *)
ExitBegin(c) ==
    LET old == curthread[c]
    IN  /\ pc[c] = "reschedule"
        /\ state[old] = "Done"
        /\ insert_lock = NoCpu
        /\ insert_lock' = c
        /\ next' = [next EXCEPT ![old] = NoThread]
        /\ prev' = [prev EXCEPT ![old] = last]
        /\ Goto(c, "link")
        /\ UNCHANGED <<cpuVars, threadVars, dpcVars, localVars, last,
                       reap_lock, released, idle_mask, stack>>

(* ... the link of the last one, ... *)
ExitLink(c) ==
    /\ pc[c] = "link"
    /\ next' = [next EXCEPT ![last] = curthread[c]]
    /\ Goto(c, "linked")
    /\ UNCHANGED <<cpuVars, threadVars, dpcVars, localVars, prev, last,
                   insert_lock, reap_lock, released, idle_mask, stack>>

(* mutants of ExitLinked: the thread is released on the spot, or no DPC is   *)
(* queued                                                                   *)
ExitLinkedRelease(c) ==
    /\ pc[c] = "linked"
    /\ last' = curthread[c]
    /\ insert_lock' = NoCpu
    /\ released' = released \cup {curthread[c]}
    /\ Goto(c, "pick")
    /\ UNCHANGED <<cpuVars, threadVars, dpcVars, localVars, next, prev,
                   reap_lock, idle_mask, stack>>
ExitLinkedSilent(c) ==
    /\ pc[c] = "linked"
    /\ last' = curthread[c]
    /\ insert_lock' = NoCpu
    /\ Goto(c, "pick")
    /\ UNCHANGED <<cpuVars, threadVars, dpcVars, localVars, next, prev,
                   reap_lock, released, idle_mask, stack>>

(* ... and the tail; the DPC that will release the thread is queued *)
ExitLinked(c) ==
    /\ pc[c] = "linked"
    /\ last' = curthread[c]
    /\ insert_lock' = NoCpu
    /\ Enqueue(c, DoneDpc(c), FALSE)
    /\ Goto(c, "pick")
    /\ UNCHANGED <<cpuVars, threadVars, localVars, next, prev, reap_lock,
                   released, idle_mask, stack>>

ExitPick(c) == pc[c] = "pick" /\ Pick(c, runqueue[c])

(* past the critical section, idle_mask is brought up to date *)
SetIdle(c) ==
    /\ pc[c] = "mask"
    /\ idle_mask' = IF curthread[c] = IdleThread(c) THEN idle_mask \cup {c}
                                                   ELSE idle_mask \ {c}
    /\ Goto(c, "switch")
    /\ UNCHANGED <<cpuVars, threadVars, dpcVars, localVars, doneVars, stack>>

md_switch(c) ==
    /\ pc[c] = "switch"
    /\ stack' = [stack EXCEPT ![c] = curthread[c]]
    /\ Goto(c, "switched")
    /\ UNCHANGED <<cpuVars, threadVars, dpcVars, localVars, doneVars,
                   idle_mask>>

(* the new thread, where it left off or in its trampoline, drops the lock   *)
(* of the thread before it and goes on at low IPL; old_thread is dead       *)
Switched(c) ==
    /\ pc[c] = "switched"
    /\ lock' = [lock EXCEPT ![old_thread[c]] = NoCpu]
    /\ old_thread' = [old_thread EXCEPT ![c] = IdleThread(c)]
    /\ Goto(c, "run")
    /\ UNCHANGED <<runqueue, curthread, reschedule_reason, state, dpcVars,
                   localVars, doneVars, idle_mask, stack>>

-----------------------------------------------------------------------------
(* done_thread_dpc                                                         *)

(* takes the lock it calls done_lock; nothing to do *)
ReapNone(c) ==
    /\ pc[c] = "reap"
    /\ reap_lock = NoCpu
    /\ next["done_queue"] = NoThread
    /\ Goto(c, ret[c])
    /\ UNCHANGED <<cpuVars, threadVars, dpcVars, localVars, doneVars,
                   idle_mask, stack>>

(* or there is a first thread, and TAILQ_REMOVE begins: ... *)
ReapFirst(c) ==
    /\ pc[c] = "reap"
    /\ reap_lock = NoCpu
    /\ next["done_queue"] # NoThread
    /\ reap_lock' = c
    /\ thread' = [thread EXCEPT ![c] = next["done_queue"]]
    /\ Goto(c, "unlink")
    /\ UNCHANGED <<cpuVars, threadVars, dpcVars, chosen, ret, next, prev,
                   last, insert_lock, released, idle_mask, stack>>

(* ... the backward link of the one after it, or of the tail, ... *)
ReapUnlink(c) ==
    LET t == thread[c]
    IN  /\ pc[c] = "unlink"
        /\ IF next[t] # NoThread
           THEN /\ prev' = [prev EXCEPT ![next[t]] = prev[t]]
                /\ UNCHANGED last
           ELSE last' = prev[t] /\ UNCHANGED prev
        /\ Goto(c, "unlinked")
        /\ UNCHANGED <<cpuVars, threadVars, dpcVars, localVars, next,
                       insert_lock, reap_lock, released, idle_mask, stack>>

(* ... then the forward link of the one before it; the lock is dropped *)
ReapUnlinked(c) ==
    LET t == thread[c]
    IN  /\ pc[c] = "unlinked"
        /\ next' = [next EXCEPT ![prev[t]] = next[t]]
        /\ reap_lock' = NoCpu
        /\ Goto(c, "release")
        /\ UNCHANGED <<cpuVars, threadVars, dpcVars, localVars, prev, last,
                       insert_lock, released, idle_mask, stack>>

(* obj_release drops the last reference: stack and thread are freed *)
ReapRelease(c) ==
    /\ pc[c] = "release"
    /\ released' = released \cup {thread[c]}
    /\ thread' = [thread EXCEPT ![c] = NoThread]
    /\ Goto(c, "reap")
    /\ UNCHANGED <<cpuVars, threadVars, dpcVars, chosen, ret, next, prev,
                   last, insert_lock, reap_lock, idle_mask, stack>>

-----------------------------------------------------------------------------
(* what a CPU does next unless its thread decides otherwise *)
Forced(c) ==
    \/ Interrupt(c)
    \/ DispatchNext(c) \/ DispatchEmpty(c) \/ DispatchCheck(c)
    \/ CallbackReturns(c)
    \/ ki_wake_waiter(c) \/ ki_thread_resume_locked(c) \/ ResumeInterrupt(c)
    \/ Preempt(c) \/ ki_reschedule(c)
    \/ ExitBegin(c) \/ ExitLink(c) \/ ExitLinked(c) \/ ExitPick(c)
    \/ SetIdle(c) \/ md_switch(c) \/ Switched(c)
    \/ ReapNone(c) \/ ReapFirst(c) \/ ReapUnlink(c) \/ ReapUnlinked(c)
    \/ ReapRelease(c)

Voluntary(c) ==
    \/ Wait(c)
    \/ ps_exit_this_thread(c)
    \/ ke_dpc_enqueue(c)
    \/ \E t \in Threads : ThreadWakes(c, t) \/ CallbackWakes(c, t)

HighInterrupt(c) ==
    \/ \E d \in Deferred : DeviceInterrupt(c, d)
    \/ \E expired \in BOOLEAN, want_timers \in BOOLEAN :
           ki_cpu_hardclock(c, expired, want_timers)

Next == \E c \in Cpus : Forced(c) \/ Voluntary(c) \/ HighInterrupt(c)

Spec == Init /\ [][Next]_vars
FairSpec == Spec /\ \A c \in Cpus : WF_vars(Forced(c))

-----------------------------------------------------------------------------
(* No two CPUs ever execute on the stack of the same thread: a thread is    *)
(* not picked up by one CPU before the CPU it last ran on has switched away *)
(* from it.  ki_reschedule and ki_thread_resume_locked rely on the old      *)
(* thread's lock, which is dropped by the thread switched to.               *)
OneStack == \A c, d \in Cpus : stack[c] = stack[d] => c = d

(* A thread is at most once on the runqueue of one CPU, and on none while   *)
(* it is the current thread of a CPU: its one queue_link would be inserted  *)
(* twice, or it would be run twice.                                         *)
QueuedOnce ==
    \A c, d \in Cpus :
        /\ IsInjective(runqueue[c])
        /\ \A t \in Threads : OnQueue(runqueue[c], t) =>
              curthread[d] # t /\ (OnQueue(runqueue[d], t) => c = d)

(* the CPU is in ki_dispatch_dpcs before the place where it looks at what   *)
(* it has to do: at reschedule_reason, or at dpc_queue                      *)
Draining(c) ==
    \/ pc[c] = "dispatch"
    \/ /\ ret[c] = "dispatch"
       /\ pc[c] \in {"callback", "wake", "resume", "kick", "reap",
                     "unlink", "unlinked", "release"}
Rescheduling(c) ==
    pc[c] \in {"preempt", "reschedule", "link", "linked", "pick"}
Serving(c) == Draining(c) \/ pc[c] = "check" \/ Rescheduling(c)
Notified(c) ==
    \/ interrupt[c]
    \/ Serving(c)
    \/ \E d \in Cpus : pc[d] = "kick" /\ chosen[d] = c

(* An idle CPU that has been given a thread is told so: the dispatch        *)
(* interrupt is pending, about to be sent, or being served at a point from  *)
(* which ki_dispatch_dpcs still reschedules.                                *)
IdleCpuNotified ==
    \A c \in Cpus :
        /\ runqueue[c] # <<>>
        /\ curthread[c] = IdleThread(c)
        => reschedule_reason[c] = "Preempted" /\ Notified(c)

(* A DPC is on the queue its cpu field says and on no other, once: the      *)
(* compare-and-swap of ke_dpc_enqueue and the reset in ki_dispatch_dpcs run *)
(* under the locks of different CPUs.                                       *)
DpcQueuedOnce ==
    \A c \in Cpus :
        /\ IsInjective(dpc_queue[c])
        /\ \A d \in Dpcs : OnQueue(dpc_queue[c], d) <=> dpc_cpu[d] = c

(* No queued DPC is forgotten: the interrupt is pending or ki_dispatch_dpcs *)
(* has yet to find the queue empty.                                         *)
DpcNotified ==
    \A c \in Cpus : dpc_queue[c] # <<>> => interrupt[c] \/ Draining(c)

(* A thread is not released while a CPU is still on its stack or has its    *)
(* lock to drop: done_thread_dpc runs after the switch.                     *)
ReleasedOffCpu ==
    \A c \in Cpus :
        /\ stack[c] \notin released
        /\ pc[c] \in {"mask", "switch", "switched"} =>
             old_thread[c] \notin released

(* Only one CPU at a time changes done_queue, which both ki_reschedule and  *)
(* done_thread_dpc guard with a done_lock.                                  *)
DoneQueueExclusive ==
    \A c, d \in Cpus :
        /\ pc[c] \in {"link", "linked"}
        /\ pc[d] \in {"link", "linked", "unlink", "unlinked"}
        => c = d

Calm == <>[](\A c \in Cpus : dpc_queue[c] = <<>>)

(* An idle CPU that has been given a thread runs a thread, unless           *)
(* interrupts keep its DPC queue busy for ever.                             *)
IdleCpuRuns ==
    Calm => \A c \in Cpus :
        (runqueue[c] # <<>> /\ curthread[c] = IdleThread(c)) ~>
            (curthread[c] # IdleThread(c))

(* A thread that has exited is released.                                    *)
ExitedReleased ==
    Calm => \A t \in Mortal : (state[t] = "Done") ~> (t \in released)

-----------------------------------------------------------------------------
(* The invariant behind OneStack, QueuedOnce, IdleCpuNotified,              *)
(* DpcQueuedOnce and DpcNotified, in parts                                  *)

(* what the CPU's place in the code means for the threads *)
Phase ==
    [c \in Cpus |->
        IF pc[c] \in {"link", "linked", "pick"} THEN "exit"
        ELSE IF pc[c] \in {"mask", "switch"} THEN "switch"
        ELSE IF pc[c] \in {"wake", "resume", "kick", "reschedule", "switched"}
             THEN pc[c]
        ELSE "low"]

(* the locals of the handler the CPU is in *)
LocalInv ==
    \A c \in Cpus :
        /\ pc[c] \in {"wake", "resume", "kick", "unlink", "unlinked", "release"}
             => thread[c] \in Threads
        /\ pc[c] = "dispatch" => ret[c] = "dispatch"

(* the stack in use, and the thread lock the CPU holds *)
HoldInv ==
    \A c \in Cpus :
        /\ stack[c] = IF Phase[c] = "switch" THEN old_thread[c]
                                            ELSE curthread[c]
        /\ stack[c] \in Threads \cup {IdleThread(c)}
        /\ Phase[c] \in {"reschedule", "exit"} => lock[curthread[c]] = c
        /\ Phase[c] \in {"switch", "switched"} => lock[old_thread[c]] = c
        /\ Phase[c] \in {"resume", "kick"} => lock[thread[c]] = c

(* the current thread and its state *)
StateInv ==
    \A c \in Cpus :
        /\ state[IdleThread(c)] = "Running"
        /\ curthread[c] \in Threads \cup {IdleThread(c)}
        /\ Phase[c] = "exit" =>
             curthread[c] \in Threads /\ state[curthread[c]] = "Done"
        /\ curthread[c] \in Threads =>
             \/ state[curthread[c]] = "Running"
             \/ Phase[c] = "reschedule" /\ state[curthread[c]] = "Waiting"
             \/ Phase[c] \in {"reschedule", "exit"} /\ state[curthread[c]] = "Done"

(* a thread is on one CPU *)
PlaceInv ==
    \A c, d \in Cpus : c # d =>
        /\ curthread[c] # curthread[d]
        /\ stack[c] # stack[d]
        /\ Phase[c] = "switch" => curthread[d] # old_thread[c]

(* a thread on a runqueue is at rest, except that the CPU may still be      *)
(* switching away from it                                                   *)
QueueInv ==
    \A c \in Cpus, t \in Threads :
        OnQueue(runqueue[c], t) =>
            /\ state[t] \in {"Runnable", "Initial"}
            /\ \A d \in Cpus : stack[d] = t => d = c

(* a thread that has not begun to run is on no CPU *)
InitialInv ==
    \A t \in Threads, c \in Cpus :
        state[t] = "Initial" => curthread[c] # t /\ stack[c] # t

(* a thread that somebody is waking: by one, and not yet queued *)
WakeInv ==
    \A c \in Cpus :
        /\ Phase[c] = "wake" => state[thread[c]] \in {"Waiting", "Initial"}
        /\ Phase[c] \in {"wake", "resume"} =>
             \A d \in Cpus :
                 /\ ~ OnQueue(runqueue[d], thread[c])
                 /\ Phase[d] \in {"wake", "resume"} /\ thread[c] = thread[d] =>
                      c = d
        /\ Phase[c] = "resume" =>
             /\ state[thread[c]] \in {"Runnable", "Initial"}
             /\ \A d \in Cpus : curthread[d] # thread[c] /\ stack[d] # thread[c]

ThreadInv == HoldInv /\ StateInv /\ PlaceInv /\ QueuedOnce /\ QueueInv
             /\ InitialInv /\ WakeInv

(* whoever has to reschedule has been told to *)
NotifyInv ==
    \A c \in Cpus :
        /\ reschedule_reason[c] = "Preempted" => Notified(c)
        /\ runqueue[c] # <<>> /\ curthread[c] = IdleThread(c) =>
             reschedule_reason[c] = "Preempted"

DpcInv == DpcQueuedOnce /\ DpcNotified

IInv == TypeOK /\ LocalInv /\ ThreadInv /\ NotifyInv /\ DpcInv

-----------------------------------------------------------------------------
(* The invariant behind ReleasedOffCpu, when at most one thread ever exits *)
OneExits == \A s, t \in Mortal : s = t

(* done_thread_dpc of the CPU is queued or running *)
Reaping(c) ==
    \/ dpc_cpu[DoneDpc(c)] # NoCpu
    \/ pc[c] \in {"reap", "unlink", "unlinked", "release"}

(* the CPU is on the thread's stack, goes there, or has its lock to drop *)
OnThread(c, t) ==
    \/ stack[c] = t
    \/ curthread[c] = t
    \/ pc[c] \in {"mask", "switch", "switched"} /\ old_thread[c] = t

(* what is on done_queue has exited, on the CPU whose DPC will release it;   *)
(* no CPU is on a released thread                                            *)
ExitInv ==
    /\ \A t \in Threads : state[t] = "Done" => t \in Mortal
    /\ \A x \in Threads \cup {"done_queue"} :
          next[x] # NoThread => state[next[x]] = "Done"
    /\ \A c \in Cpus : pc[c] \in {"unlink", "unlinked", "release"} =>
          state[thread[c]] = "Done"
    /\ \A c \in Cpus : Reaping(c) =>
          \E t \in Mortal : /\ state[t] = "Done"
                            /\ \A d \in Cpus : d # c => ~ OnThread(d, t)
    /\ \A t \in released : /\ state[t] = "Done"
                           /\ \A c \in Cpus : ~ OnThread(c, t)
=============================================================================
