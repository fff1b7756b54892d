--------------------------- MODULE KeSchedProofs ---------------------------
(* Leaving the CPU, the choice of the next thread and the switch, and with   *)
(* them every step, preserve the invariant of the scheduler; the theorems    *)
(* about it.                                                                 *)
EXTENDS KeSchedSteps

USE CpusAssumption, ThreadsAssumption
USE DEF cpuVars, threadVars, dpcVars, localVars, doneVars, Goto

(* a thread goes to sleep *)
LEMMA WaitStep ==
    ASSUME IInv, NEW c \in Cpus, Wait(c)
    PROVE  IInv'
<1> USE DEF IInv, TypeOK
<1>1. CpuTypes' /\ DpcTypes' /\ DoneTypes'
    BY Zenon DEF CpuTypes, DpcTypes, DoneTypes, Wait
<1>2. ThreadTypes'
    BY Zenon DEF Wait, ThreadTypes, AllThreads, IdleThread, MachineTypes, CpuTypes
<1>3. MachineTypes'
    BY Zenon DEF Wait, MachineTypes, AllThreads, IdleThread, CpuTypes, DoneTypes
<1>4. LocalInv'
    BY Zenon DEF Wait, LocalInv, MachineTypes, DoneTypes
<1>5. /\ Phase[c] = "low"
      /\ Phase' = [Phase EXCEPT ![c] = "reschedule"]
    BY ZenonT(30) DEF Wait, Phase, MachineTypes
<1>6. /\ lock[curthread[c]] = NoCpu /\ curthread[c] \in Threads
      /\ lock' = [lock EXCEPT ![curthread[c]] = c]
      /\ state' = [state EXCEPT ![curthread[c]] = "Waiting"]
      /\ UNCHANGED <<curthread, old_thread, stack, runqueue, thread>>
    BY Zenon DEF Wait, ThreadTypes, CpuTypes
<1>7. ThreadInv'
    BY Zenon, <1>5, <1>6, GiveUpThreads
<1>8. KeepsNotices
    BY Zenon DEF KeepsNotices, Wait, Serving, Draining, Rescheduling,
       MachineTypes, DpcTypes, LocalInv
<1>9. NotifyInv'
    BY Zenon, <1>8, StillNotified
<1>10. DpcInv'
    BY Zenon, StillServed DEF KeepsDpcs, Wait, Draining, DpcTypes, MachineTypes,
       LocalInv
<1> QED
    BY Zenon, <1>1, <1>2, <1>3, <1>4, <1>7, <1>9, <1>10

(* a thread exits *)
LEMMA ps_exit_this_threadStep ==
    ASSUME IInv, NEW c \in Cpus, ps_exit_this_thread(c)
    PROVE  IInv'
<1> USE DEF IInv, TypeOK
<1>1. CpuTypes' /\ DpcTypes' /\ DoneTypes'
    BY Zenon DEF CpuTypes, DpcTypes, DoneTypes, ps_exit_this_thread
<1>2. ThreadTypes'
    BY Zenon DEF ps_exit_this_thread, ThreadTypes, AllThreads, IdleThread,
       MachineTypes, CpuTypes
<1>3. MachineTypes'
    BY Zenon DEF ps_exit_this_thread, MachineTypes, AllThreads, IdleThread, CpuTypes,
       DoneTypes
<1>4. LocalInv'
    BY Zenon DEF ps_exit_this_thread, LocalInv, MachineTypes, DoneTypes
<1>5. /\ Phase[c] = "low"
      /\ Phase' = [Phase EXCEPT ![c] = "reschedule"]
    BY ZenonT(30) DEF ps_exit_this_thread, Phase, MachineTypes
<1>6. /\ lock[curthread[c]] = NoCpu /\ curthread[c] \in Threads
      /\ lock' = [lock EXCEPT ![curthread[c]] = c]
      /\ state' = [state EXCEPT ![curthread[c]] = "Done"]
      /\ UNCHANGED <<curthread, old_thread, stack, runqueue, thread>>
    BY Zenon DEF ps_exit_this_thread, ThreadTypes, CpuTypes
<1>7. ThreadInv'
    BY Zenon, <1>5, <1>6, GiveUpThreads
<1>8. KeepsNotices
    BY Zenon DEF KeepsNotices, ps_exit_this_thread, Serving, Draining,
       Rescheduling, MachineTypes, DpcTypes, LocalInv
<1>9. NotifyInv'
    BY Zenon, <1>8, StillNotified
<1>10. DpcInv'
    BY Zenon, StillServed DEF KeepsDpcs, ps_exit_this_thread, Draining, DpcTypes,
       MachineTypes, LocalInv
<1> QED
    BY Zenon, <1>1, <1>2, <1>3, <1>4, <1>7, <1>9, <1>10

(* a thread is preempted *)
LEMMA PreemptStep ==
    ASSUME IInv, NEW c \in Cpus, Preempt(c)
    PROVE  IInv'
<1> USE DEF IInv, TypeOK
<1>1. CpuTypes' /\ DpcTypes' /\ DoneTypes'
    BY Zenon DEF CpuTypes, DpcTypes, DoneTypes, Preempt
<1>2. ThreadTypes'
    BY Zenon DEF Preempt, ThreadTypes, AllThreads, IdleThread, MachineTypes, CpuTypes
<1>3. MachineTypes'
    BY Zenon DEF Preempt, MachineTypes, AllThreads, IdleThread, CpuTypes, DoneTypes
<1>4. LocalInv'
    BY Zenon DEF Preempt, LocalInv, MachineTypes, DoneTypes
<1>5. /\ Phase[c] = "low"
      /\ Phase' = [Phase EXCEPT ![c] = "reschedule"]
    BY ZenonT(30) DEF Preempt, Phase, MachineTypes
<1>6. /\ lock[curthread[c]] = NoCpu
      /\ lock' = [lock EXCEPT ![curthread[c]] = c]
      /\ state' = [state EXCEPT ![curthread[c]] = state[curthread[c]]]
      /\ UNCHANGED <<curthread, old_thread, stack, runqueue, thread>>
    BY Zenon DEF Preempt, ThreadTypes, CpuTypes
<1>7. ThreadInv'
    BY Zenon, <1>5, <1>6, GiveUpThreads
<1>8. KeepsNotices
    BY Zenon DEF KeepsNotices, Preempt, Serving, Draining, Rescheduling,
       MachineTypes, DpcTypes, LocalInv
<1>9. NotifyInv'
    BY Zenon, <1>8, StillNotified
<1>10. DpcInv'
    BY Zenon, StillServed DEF KeepsDpcs, Preempt, Draining, DpcTypes, MachineTypes,
       LocalInv
<1> QED
    BY Zenon, <1>1, <1>2, <1>3, <1>4, <1>7, <1>9, <1>10

(* the switch *)
LEMMA md_switchStep ==
    ASSUME IInv, NEW c \in Cpus, md_switch(c)
    PROVE  IInv'
<1> USE DEF IInv, TypeOK
<1>1. CpuTypes' /\ ThreadTypes' /\ DpcTypes' /\ DoneTypes'
    BY Zenon DEF CpuTypes, ThreadTypes, DpcTypes, DoneTypes, md_switch
<1>2. MachineTypes'
    BY Zenon DEF md_switch, MachineTypes, AllThreads, IdleThread, CpuTypes, DoneTypes
<1>3. LocalInv'
    BY Zenon DEF md_switch, LocalInv, MachineTypes, DoneTypes
<1>4. /\ Phase[c] = "switch"
      /\ Phase' = [Phase EXCEPT ![c] = "switched"]
    BY Zenon DEF md_switch, Phase, MachineTypes
<1>5. ThreadInv'
    BY Zenon, <1>4, SwitchThreads DEF md_switch
<1>6. KeepsNotices
    BY Zenon DEF KeepsNotices, md_switch, Serving, Draining, Rescheduling,
       MachineTypes, DpcTypes, LocalInv
<1>7. NotifyInv'
    BY Zenon, <1>6, StillNotified
<1>8. DpcInv'
    BY Zenon, StillServed DEF KeepsDpcs, md_switch, Draining, DpcTypes, MachineTypes,
       LocalInv
<1> QED
    BY Zenon, <1>1, <1>2, <1>3, <1>5, <1>7, <1>8

(* after the switch *)
LEMMA SwitchedStep ==
    ASSUME IInv, NEW c \in Cpus, Switched(c)
    PROVE  IInv'
<1> USE DEF IInv, TypeOK
<1>1. CpuTypes'
    BY Zenon DEF Switched, CpuTypes, AllThreads, IdleThread
<1>2. ThreadTypes'
    BY Zenon DEF Switched, ThreadTypes, AllThreads, IdleThread, MachineTypes,
       CpuTypes
<1>3. DpcTypes' /\ DoneTypes'
    BY Zenon DEF DpcTypes, DoneTypes, Switched
<1>4. MachineTypes'
    BY Zenon DEF Switched, MachineTypes, AllThreads, IdleThread, CpuTypes, DoneTypes
<1>5. LocalInv'
    BY Zenon DEF Switched, LocalInv, MachineTypes, DoneTypes
<1>6. /\ Phase[c] = "switched"
      /\ Phase' = [Phase EXCEPT ![c] = "low"]
    BY ZenonT(30) DEF Switched, Phase, MachineTypes
<1>7. ThreadInv'
    BY Zenon, <1>6, SwitchedThreads DEF Switched
<1>8. KeepsNotices
    BY Zenon DEF KeepsNotices, Switched, Serving, Draining, Rescheduling,
       MachineTypes, DpcTypes, LocalInv
<1>9. NotifyInv'
    BY Zenon, <1>8, StillNotified
<1>10. DpcInv'
    BY Zenon, StillServed DEF KeepsDpcs, Switched, Draining, DpcTypes, MachineTypes,
       LocalInv
<1> QED
    BY Zenon, <1>1, <1>2, <1>3, <1>4, <1>5, <1>7, <1>9, <1>10

(* the thread's lock is taken *)
LEMMA ki_wake_waiterStep ==
    ASSUME IInv, NEW c \in Cpus, ki_wake_waiter(c)
    PROVE  IInv'
<1> USE DEF IInv, TypeOK
<1>1. PICK d \in Choose(c) : chosen' = [chosen EXCEPT ![c] = d]
    BY Zenon DEF ki_wake_waiter
<1> d \in Cpus
    BY Zenon DEF Choose, CpuTypes
<1>2. CpuTypes' /\ DpcTypes' /\ DoneTypes'
    BY Zenon DEF CpuTypes, DpcTypes, DoneTypes, ki_wake_waiter
<1>3. ThreadTypes'
    BY Zenon DEF ki_wake_waiter, ThreadTypes, AllThreads, IdleThread, MachineTypes,
       LocalInv, CpuTypes
<1>4. MachineTypes'
    BY Zenon, <1>1 DEF ki_wake_waiter, MachineTypes, AllThreads, IdleThread, CpuTypes,
       DoneTypes
<1>5. LocalInv'
    BY Zenon DEF ki_wake_waiter, LocalInv, MachineTypes, DoneTypes
<1>6. /\ Phase[c] = "wake"
      /\ Phase' = [Phase EXCEPT ![c] = "resume"]
    BY ZenonT(30) DEF ki_wake_waiter, Phase, MachineTypes
<1>7. ThreadInv'
    BY Zenon, <1>6, WakeThreads DEF ki_wake_waiter
<1>8. KeepsNotices
    BY SMTT(30) DEF KeepsNotices, ki_wake_waiter, Serving, Draining, Rescheduling,
       MachineTypes, DpcTypes, LocalInv
<1>9. NotifyInv'
    BY Zenon, <1>8, StillNotified
<1>10. DpcInv'
    BY Zenon, StillServed DEF KeepsDpcs, ki_wake_waiter, Draining, DpcTypes,
       MachineTypes, LocalInv
<1> QED
    BY Zenon, <1>2, <1>3, <1>4, <1>5, <1>7, <1>9, <1>10

(* ki_reschedule's choice: a queued thread if there is one.                 *)
LEMMA PickStep ==
    ASSUME IInv, NEW c \in Cpus,
           pc[c] \in {"reschedule", "pick"},
           Pick(c, Ready(c))
    PROVE  IInv'
<1> DEFINE old == curthread[c]
           ready == Ready(c)
           new == IF ready = <<>> THEN IdleThread(c) ELSE Head(ready)
           rest == IF ready = <<>> THEN <<>> ELSE Tail(ready)
<1>1. /\ Phase[c] \in {"reschedule", "exit"}
      /\ Phase' = [Phase EXCEPT ![c] = IF new = old THEN "low" ELSE "switch"]
    BY Zenon DEF Phase, Pick, IInv, TypeOK, MachineTypes
<1>2. /\ old \in Threads \cup {c} /\ old \in AllThreads
      /\ old \notin Threads => state[old] = "Running"
      /\ state \in [AllThreads -> {"Initial", "Runnable", "Running",
                                   "Waiting", "Done"}]
      /\ runqueue \in [Cpus -> Seq(Threads)]
    BY Zenon, ThreadFacts DEF StateInv, IdleThread
<1>3. /\ ready \in Seq(Threads) /\ IsInjective(ready)
      /\ \A x \in Threads : OnQueue(ready, x) <=>
             OnQueue(runqueue[c], x) \/ (x = old /\ state[x] = "Running")
    BY Zenon, ReadyFacts
<1>4. /\ rest \in Seq(Threads) /\ IsInjective(rest)
      /\ new \in Threads \cup {c}
      /\ new \in Threads => OnQueue(ready, new)
      /\ \A x \in Threads : OnQueue(rest, x) <=> OnQueue(ready, x) /\ x # new
      /\ new = c => rest = <<>>
  <2>1. CASE ready = <<>>
    BY <2>1, EmptyDistinct DEF IdleThread
  <2>2. CASE ready # <<>>
    <3>1. new = Head(ready) /\ rest = Tail(ready)
      BY Zenon, <2>2
    <3>2. /\ Tail(ready) \in Seq(Threads)
          /\ Head(ready) \in Threads /\ OnQueue(ready, Head(ready))
          /\ IsInjective(Tail(ready))
          /\ \A x \in Threads : OnQueue(Tail(ready), x) <=>
                               OnQueue(ready, x) /\ x # Head(ready)
      BY Zenon, <1>3, <2>2, TailDistinct
    <3>3. Head(ready) # c
      BY Zenon, <3>2
    <3> QED
      BY Zenon, <3>1, <3>2, <3>3
  <2> QED
    BY Zenon, <2>1, <2>2
<1>5. /\ runqueue' = [runqueue EXCEPT ![c] = rest]
      /\ state' = [state EXCEPT ![old] = IF old \in Threads /\ @ = "Running"
                                         THEN "Runnable" ELSE @,
                                ![new] = "Running"]
      /\ curthread' = [curthread EXCEPT ![c] = new]
      /\ old_thread' = [old_thread EXCEPT ![c] = old]
      /\ reschedule_reason' = [reschedule_reason EXCEPT ![c] = "None"]
      /\ lock' = [lock EXCEPT ![old] = IF new = old THEN NoCpu ELSE @]
      /\ pc' = [pc EXCEPT ![c] = IF new = old THEN "run" ELSE "mask"]
      /\ UNCHANGED <<dpc_queue, dpc_cpu, interrupt, thread, chosen, ret, next,
                     prev, last, insert_lock, reap_lock, released, idle_mask,
                     stack>>
    BY Zenon DEF Pick
<1> HIDE DEF new, rest
<1>6. /\ runqueue'[c] = rest
      /\ \A k \in Cpus \ {c} : runqueue'[k] = runqueue[k]
    BY Zenon, <1>2, <1>5
<1>7. TypeOK'
  <2> USE DEF IInv, TypeOK
  <2>1. CpuTypes'
    BY Zenon, <1>2, <1>4, <1>5 DEF CpuTypes, AllThreads
  <2>2. ThreadTypes'
    BY ZenonT(30), <1>2, <1>5 DEF ThreadTypes
  <2>3. DpcTypes' /\ DoneTypes'
    BY Zenon, <1>5 DEF DpcTypes, DoneTypes
  <2>4. MachineTypes'
    BY Zenon, <1>5 DEF MachineTypes
  <2> QED
    BY Zenon, <2>1, <2>2, <2>3, <2>4
<1>8. LocalInv'
    BY Zenon, <1>5 DEF IInv, TypeOK, MachineTypes, LocalInv
<1>9. ThreadInv'
  <2>1. CASE new = old
    <3>1. state[old] = "Running" /\ state' = state
      <4>1. CASE old \in Threads
        BY <1>2, <1>3, <1>4, <1>5, <2>1, <4>1, ThreadFacts DEF QueuedOnce
      <4>2. CASE old \notin Threads
        BY Zenon, <1>2, <1>5, <2>1, <4>2
      <4> QED
        BY Zenon, <4>1, <4>2
    <3>2. Phase[c] = "reschedule"
      BY ZenonT(30), <1>1, <3>1, ThreadFacts DEF StateInv
    <3>3. \A x \in Threads : OnQueue(rest, x) <=> OnQueue(runqueue[c], x)
      <4>1. \A x \in Threads : OnQueue(runqueue[c], x) => x # old
        BY Zenon, ThreadFacts DEF QueuedOnce
      <4>2. \A x \in Threads : OnQueue(rest, x) <=> OnQueue(ready, x) /\ x # old
        BY Zenon, <1>4, <2>1
      <4> QED
        BY Zenon, <1>3, <4>1, <4>2
    <3>4. curthread' = curthread
      BY Zenon, <1>5, <2>1, ThreadFacts
    <3> QED
      <4>1. /\ state[curthread[c]] = "Running" /\ state' = state
            /\ IsInjective(runqueue'[c])
            /\ \A k \in Cpus \ {c} : runqueue'[k] = runqueue[k]
        BY Zenon, <1>4, <1>6, <3>1
      <4>2. \A x \in Threads : OnQueue(runqueue'[c], x) <=> OnQueue(runqueue[c], x)
        BY Zenon, <1>6, <3>3
      <4>3. /\ lock' = [lock EXCEPT ![curthread[c]] = NoCpu]
            /\ old_thread' = [old_thread EXCEPT ![c] = curthread[c]]
            /\ Phase' = [Phase EXCEPT ![c] = "low"]
            /\ UNCHANGED <<curthread, stack, thread>>
        BY Zenon, <1>1, <1>5, <2>1, <3>4
      <4> QED
        BY Zenon, <3>2, <4>1, <4>2, <4>3, PickSameThreads
  <2>2. CASE new # old
    <3>1. \A x \in AllThreads : state'[x] =
               IF x = new THEN "Running"
               ELSE IF x \in Threads /\ x = old /\ state[x] = "Running"
                    THEN "Runnable"
               ELSE state[x]
      BY Zenon, <1>2, <1>5, <2>2
    <3>2. lock' = lock
      BY Zenon, <1>5, <2>2, ThreadFacts
    <3>3. new \in Threads => OnQueue(runqueue[c], new)
      BY Zenon, <1>3, <1>4, <2>2
    <3>4. \A x \in Threads : OnQueue(rest, x) <=>
               /\ x # new
               /\ \/ OnQueue(runqueue[c], x)
                  \/ x = curthread[c] /\ state[x] = "Running"
      <4> SUFFICES ASSUME NEW x \in Threads
                   PROVE  OnQueue(rest, x) <=>
                            /\ x # new
                            /\ \/ OnQueue(runqueue[c], x)
                               \/ x = old /\ state[x] = "Running"
        OBVIOUS
      <4>1. OnQueue(rest, x) <=> OnQueue(ready, x) /\ x # new
        BY Zenon, <1>4
      <4>2. OnQueue(ready, x) <=>
               OnQueue(runqueue[c], x) \/ (x = old /\ state[x] = "Running")
        BY Zenon, <1>3
      <4> QED
        BY Zenon, <4>1, <4>2
    <3>5. IsInjective(runqueue'[c])
      BY Zenon, <1>4, <1>6
    <3>6. \A x \in Threads : OnQueue(runqueue'[c], x) <=>
               /\ x # new
               /\ \/ OnQueue(runqueue[c], x)
                  \/ x = curthread[c] /\ state[x] = "Running"
      BY Zenon, <1>6, <3>4
    <3>7. /\ Phase' = [Phase EXCEPT ![c] = "switch"]
          /\ curthread' = [curthread EXCEPT ![c] = new]
          /\ old_thread' = [old_thread EXCEPT ![c] = curthread[c]]
          /\ UNCHANGED <<stack, thread, lock>>
      BY Zenon, <1>1, <1>5, <2>2, <3>2
    <3>8. new \in Threads \cup {c} /\ new # curthread[c]
      BY Zenon, <1>4, <2>2
    <3> QED
      <4>1. /\ Phase[c] \in {"reschedule", "exit"}
            /\ \A k \in Cpus \ {c} : runqueue'[k] = runqueue[k]
        BY Zenon, <1>1, <1>6
      <4>2. \A x \in AllThreads : state'[x] =
               IF x = new THEN "Running"
               ELSE IF x \in Threads /\ x = curthread[c] /\ state[x] = "Running"
                    THEN "Runnable"
               ELSE state[x]
        BY Zenon, <3>1
      <4> HIDE DEF old
      <4> QED
        BY ZenonT(30), <3>3, <3>5, <3>6, <3>7, <3>8, <4>1, <4>2, PickThreads
  <2> QED
    BY Zenon, <2>1, <2>2
<1>10. NotifyInv'
  <2>1. \A k \in Cpus \ {c} : Notified(k) => Notified(k)'
    BY Zenon, <1>5 DEF Notified, Serving, Draining, Rescheduling, IInv, TypeOK,
                MachineTypes
  <2>2. \A k \in Cpus \ {c} : /\ reschedule_reason'[k] = reschedule_reason[k]
                              /\ curthread'[k] = curthread[k]
    BY Zenon, <1>5 DEF IInv, TypeOK, CpuTypes
  <2>3. reschedule_reason'[c] = "None" /\ curthread'[c] = new
    BY Zenon, <1>5 DEF IInv, TypeOK, CpuTypes
  <2> QED
    BY Zenon, <1>4, <1>6, <2>1, <2>2, <2>3 DEF IInv, NotifyInv, IdleThread
<1>11. DpcInv'
    BY Zenon, <1>5, StillServed DEF KeepsDpcs, Draining, IInv, TypeOK, MachineTypes
<1> QED
    BY Zenon, <1>7, <1>8, <1>9, <1>10, <1>11 DEF IInv

(* ki_reschedule of a thread that lives *)
LEMMA ki_rescheduleStep ==
    ASSUME IInv, NEW c \in Cpus, ki_reschedule(c)
    PROVE  IInv'
<1>1. Pick(c, Ready(c))
    BY Zenon DEF ki_reschedule, Ready
<1>2. pc[c] \in {"reschedule", "pick"}
    BY Zenon DEF ki_reschedule
<1> QED
    BY Zenon, <1>1, <1>2, PickStep

(* ki_reschedule of a dead one *)
LEMMA ExitPickStep ==
    ASSUME IInv, NEW c \in Cpus, ExitPick(c)
    PROVE  IInv'
<1>1. Phase[c] = "exit"
    BY Zenon DEF ExitPick, Phase
<1>2. state[curthread[c]] = "Done"
    BY Zenon, <1>1, ThreadFacts DEF StateInv
<1>3. Pick(c, Ready(c))
    BY Zenon, <1>2 DEF ExitPick, Ready
<1>4. pc[c] \in {"reschedule", "pick"}
    BY Zenon DEF ExitPick
<1> QED
    BY Zenon, <1>3, <1>4, PickStep

(* the machine as _start leaves it *)
LEMMA InitInv == Init => IInv
<1> SUFFICES ASSUME Init PROVE IInv
    OBVIOUS
<1> USE BootAssumption DEF Init
<1>1. TypeOK
    BY DEF TypeOK, CpuTypes, ThreadTypes, DpcTypes, MachineTypes, DoneTypes,
           AllThreads, IdleThread
<1>2. LocalInv
    BY Zenon DEF LocalInv
<1>3. Phase = [c \in Cpus |-> IF c = 0 THEN "wake" ELSE "low"]
    BY Zenon DEF Phase
<1>4. \A c \in Cpus : IsInjective(runqueue[c]) /\ \A x : ~ OnQueue(runqueue[c], x)
    BY Zenon, EmptyDistinct
<1>5. ThreadInv
  <2>1. HoldInv /\ StateInv
    BY Zenon, <1>3 DEF HoldInv, StateInv, IdleThread, AllThreads
  <2>2. PlaceInv
    BY Zenon, <1>3 DEF PlaceInv, IdleThread
  <2>3. QueuedOnce /\ QueueInv
    BY Zenon, <1>4 DEF QueuedOnce, QueueInv
  <2>4. InitialInv
    BY Zenon DEF InitialInv, IdleThread
  <2>5. WakeInv
    BY Zenon, <1>3, <1>4 DEF WakeInv, AllThreads
  <2> QED
    BY Zenon, <2>1, <2>2, <2>3, <2>4, <2>5 DEF ThreadInv
<1>6. NotifyInv
    BY Zenon DEF NotifyInv
<1>7. DpcInv
    BY Zenon, EmptyDistinct DEF DpcInv, DpcQueuedOnce, DpcNotified
<1> QED
    BY Zenon, <1>1, <1>2, <1>5, <1>6, <1>7 DEF IInv

(* Every step of the scheduler preserves the invariant.                     *)
LEMMA NextInv == IInv /\ [Next]_vars => IInv'
<1> SUFFICES ASSUME IInv, [Next]_vars PROVE IInv'
    OBVIOUS
<1>1. ASSUME NEW c \in Cpus, Forced(c) PROVE IInv'
    BY Zenon, <1>1, InterruptStep, DispatchNextStep, DispatchEmptyStep,
       DispatchCheckStep, CallbackReturnsStep, ki_wake_waiterStep,
       ki_thread_resume_lockedStep, ResumeInterruptStep, PreemptStep,
       ki_rescheduleStep, ExitBeginStep, ExitLinkStep, ExitLinkedStep,
       ExitPickStep, SetIdleStep, md_switchStep, SwitchedStep, ReapNoneStep,
       ReapFirstStep, ReapUnlinkStep, ReapUnlinkedStep, ReapReleaseStep
    DEF Forced
<1>2. ASSUME NEW c \in Cpus, Voluntary(c) PROVE IInv'
    BY Zenon, <1>2, WaitStep, ps_exit_this_threadStep, ke_dpc_enqueueStep,
       BeginWakeStep DEF Voluntary, ThreadWakes, CallbackWakes
<1>3. ASSUME NEW c \in Cpus, HighInterrupt(c) PROVE IInv'
    BY Zenon, <1>3, DeviceInterruptStep, ki_cpu_hardclockStep DEF HighInterrupt
<1>4. CASE UNCHANGED vars
  <2>1. TypeOK' /\ LocalInv'
    BY Zenon, <1>4 DEF vars, IInv, TypeOK, LocalInv, CpuTypes, ThreadTypes, DpcTypes,
                MachineTypes, DoneTypes
  <2>2. Quiet
    BY Zenon, <1>4 DEF vars, Quiet, Phase
  <2>3. KeepsNotices
    BY Zenon, <1>4 DEF vars, KeepsNotices, Serving, Draining, Rescheduling
  <2>4. DpcInv'
    BY Zenon, <1>4, StillServed DEF vars, IInv, KeepsDpcs, Draining
  <2> QED
    BY Zenon, <2>1, <2>2, <2>3, <2>4, QuietStep
<1> QED
    BY Zenon, <1>1, <1>2, <1>3, <1>4 DEF Next

(* The invariant holds in every reachable state, for any number of CPUs,    *)
(* threads and DPCs.                                                        *)
THEOREM SchedInvariance == Spec => []IInv
BY InitInv, NextInv, PTL DEF Spec

(* No two CPUs ever execute on the same stack.                              *)
THEOREM StacksApart == Spec => []OneStack
<1>1. IInv => OneStack
    BY Zenon DEF IInv, ThreadInv, PlaceInv, OneStack
<1> QED
    BY <1>1, SchedInvariance, PTL

(* A thread is on one runqueue at most, once, and not while it runs.        *)
THEOREM RunqueuesApart == Spec => []QueuedOnce
<1>1. IInv => QueuedOnce
    BY Zenon DEF IInv, ThreadInv
<1> QED
    BY <1>1, SchedInvariance, PTL

(* ki_thread_resume_locked leaves no idle CPU unaware of a thread queued    *)
(* for it.                                                                  *)
THEOREM IdleNoticed == Spec => []IdleCpuNotified
<1>1. IInv => IdleCpuNotified
    BY Zenon DEF IInv, NotifyInv, IdleCpuNotified
<1> QED
    BY <1>1, SchedInvariance, PTL

(* A DPC is on one queue at most, and there once: ke_dpc_enqueue and        *)
(* ki_dispatch_dpcs agree on its cpu field.                                 *)
THEOREM DpcsApart == Spec => []DpcQueuedOnce
<1>1. IInv => DpcQueuedOnce
    BY Zenon DEF IInv, DpcInv
<1> QED
    BY <1>1, SchedInvariance, PTL

(* A queued DPC is not forgotten: ki_dispatch_dpcs is due on its CPU.       *)
THEOREM DpcsServed == Spec => []DpcNotified
<1>1. IInv => DpcNotified
    BY Zenon DEF IInv, DpcInv
<1> QED
    BY <1>1, SchedInvariance, PTL

-----------------------------------------------------------------------------
(* A step of the CPU c in which no thread comes to its end.                 *)
ExitsAside(c) ==
    /\ \A t \in released' \ released :
          t \in Threads /\ state[t] = "Done" /\ \A d \in Cpus : ~ OnThread(d, t)
    /\ \A x \in Threads \cup {"done_queue"} : next'[x] # NoThread =>
          next'[x] \in Threads /\ state[next'[x]] = "Done"
    /\ \A d \in Cpus : d # c => /\ pc'[d] = pc[d]
                                /\ thread'[d] = thread[d]
                                /\ stack'[d] = stack[d]
                                /\ curthread'[d] = curthread[d]
                                /\ old_thread'[d] = old_thread[d]
    /\ \A t \in Threads : /\ state'[t] = "Done" <=> state[t] = "Done"
                          /\ state[t] = "Done" /\ OnThread(c, t)' => OnThread(c, t)
    /\ \A d \in Cpus : dpc_cpu'[DoneDpc(d)] # NoCpu => dpc_cpu[DoneDpc(d)] # NoCpu
    /\ pc'[c] \in {"reap", "unlink", "unlinked", "release"} => Reaping(c)
    /\ pc'[c] \in {"unlink", "unlinked", "release"} =>
          thread'[c] \in Threads /\ state[thread'[c]] = "Done"

(* It preserves ExitInv.                                                    *)
LEMMA ExitsAsideStep ==
    ASSUME IInv, ExitInv, NEW c \in Cpus, ExitsAside(c)
    PROVE  ExitInv'
<1>1. /\ released \subseteq Threads
      /\ \A d \in Cpus : pc[d] \in {"unlink", "unlinked", "release"} =>
                            thread[d] \in Threads
    BY Zenon DEF IInv, TypeOK, DoneTypes, LocalInv
<1>2. \A t \in Threads : state'[t] = "Done" <=> state[t] = "Done"
    BY Zenon DEF ExitsAside
<1>3. ASSUME NEW d \in Cpus
      PROVE  /\ \A t \in Threads : state[t] = "Done" /\ OnThread(d, t)' => OnThread(d, t)
             /\ Reaping(d)' => Reaping(d)
             /\ pc'[d] \in {"unlink", "unlinked", "release"} =>
                   thread'[d] \in Threads /\ state[thread'[d]] = "Done"
  <2>1. CASE d = c
    BY Zenon, <2>1 DEF ExitsAside, Reaping
  <2>2. CASE d # c
    <3>1. pc[d] \in {"unlink", "unlinked", "release"} =>
             thread[d] \in Threads /\ state[thread[d]] = "Done"
      BY Zenon, <1>1 DEF ExitInv
    <3>2. pc'[d] = pc[d] /\ thread'[d] = thread[d]
      BY Zenon, <2>2 DEF ExitsAside
    <3>3. /\ \A t \in Threads : OnThread(d, t)' => OnThread(d, t)
          /\ Reaping(d)' => Reaping(d)
      BY Zenon, <2>2 DEF ExitsAside, OnThread, Reaping
    <3> QED
      BY Zenon, <3>1, <3>2, <3>3
  <2> QED
    BY Zenon, <2>1, <2>2
<1>4. \A x \in Threads \cup {"done_queue"} :
         next'[x] # NoThread => state'[next'[x]] = "Done"
    BY Zenon, <1>2 DEF ExitsAside
<1>5. \A t \in released' :
         t \in Threads /\ state[t] = "Done" /\ \A d \in Cpus : ~ OnThread(d, t)
    BY Zenon, <1>1 DEF ExitsAside, ExitInv
<1> HIDE DEF ExitsAside, IInv
<1>6. \A t \in Threads : state'[t] = "Done" => t \in Mortal
    BY Zenon, <1>2 DEF ExitInv
<1>7. \A d \in Cpus : pc'[d] \in {"unlink", "unlinked", "release"} =>
         state'[thread'[d]] = "Done"
    BY Zenon, <1>2, <1>3
<1>8. ASSUME NEW d \in Cpus, Reaping(d)'
      PROVE  \E t \in Mortal : /\ state'[t] = "Done"
                               /\ \A k \in Cpus : k # d => ~ OnThread(k, t)'
  <2>1. PICK t \in Mortal : /\ state[t] = "Done"
                            /\ \A k \in Cpus : k # d => ~ OnThread(k, t)
    BY Zenon, <1>3, <1>8 DEF ExitInv
  <2>2. t \in Threads
    BY Zenon
  <2> QED
    BY Zenon, <1>2, <1>3, <2>1, <2>2
<1>9. \A t \in released' : /\ state'[t] = "Done"
                           /\ \A d \in Cpus : ~ OnThread(d, t)'
    BY Zenon, <1>2, <1>3, <1>5
<1> QED
    BY Zenon, <1>4, <1>6, <1>7, <1>8, <1>9 DEF ExitInv

(* what done_queue links, and what is taken off it, has exited *)
LEMMA LinksFacts ==
    ASSUME IInv, ExitInv
    PROVE  /\ \A x \in Threads \cup {"done_queue"} : next[x] # NoThread =>
                 next[x] \in Threads /\ state[next[x]] = "Done"
           /\ \A d \in Cpus : pc[d] \in {"unlink", "unlinked", "release"} =>
                 thread[d] \in Threads /\ state[thread[d]] = "Done"
<1>1. next \in [Threads \cup {"done_queue"} -> Threads \cup {NoThread}]
    BY Zenon DEF IInv, TypeOK, DoneTypes
<1>2. ASSUME NEW x \in Threads \cup {"done_queue"}, next[x] # NoThread
      PROVE  next[x] \in Threads /\ state[next[x]] = "Done"
    BY Zenon, <1>1, <1>2 DEF ExitInv
<1>3. ASSUME NEW d \in Cpus, pc[d] \in {"unlink", "unlinked", "release"}
      PROVE  thread[d] \in Threads /\ state[thread[d]] = "Done"
    BY Zenon, <1>3 DEF IInv, LocalInv, ExitInv
<1> QED
    BY Zenon, <1>2, <1>3

(* the DPCs of drivers and timers are not the CPUs' done_thread_dpc *)
LEMMA DeferredExits ==
    ASSUME IInv, ExitInv, NEW c \in Cpus, HighInterrupt(c)
    PROVE  ExitInv'
<1>1. ASSUME NEW e \in Deferred, NEW raise, Enqueue(c, e, raise), NEW d \in Cpus
      PROVE  dpc_cpu'[DoneDpc(d)] = dpc_cpu[DoneDpc(d)]
    BY Zenon, <1>1, DpcAssumption DEF Enqueue, DoneDpc, IInv, TypeOK, DpcTypes, Dpcs
<1>2. \A d \in Cpus : dpc_cpu'[DoneDpc(d)] = dpc_cpu[DoneDpc(d)]
    BY Zenon, <1>1, DpcAssumption DEF HighInterrupt, DeviceInterrupt, ki_cpu_hardclock
<1>3. UNCHANGED <<next, released, pc, thread, stack, curthread, old_thread, state>>
    BY Zenon DEF HighInterrupt, DeviceInterrupt, ki_cpu_hardclock
<1>4. ExitsAside(c)
    BY Zenon, <1>2, <1>3, LinksFacts DEF ExitsAside, OnThread, Reaping
<1> QED
    BY Zenon, <1>4, ExitsAsideStep

(* what a CPU does without leaving its thread *)
LEMMA LowExits ==
    ASSUME IInv, ExitInv, NEW c \in Cpus,
           \/ ke_dpc_enqueue(c) \/ Interrupt(c) \/ DispatchEmpty(c)
           \/ DispatchCheck(c) \/ CallbackReturns(c)
           \/ ki_thread_resume_locked(c) \/ ResumeInterrupt(c)
           \/ Preempt(c) \/ ReapNone(c)
           \/ \E t \in Threads : ThreadWakes(c, t) \/ CallbackWakes(c, t)
    PROVE  ExitInv'
<1>1. /\ pc \in [Cpus -> {"run", "dispatch", "callback", "reap", "check", "preempt",
                          "reschedule", "link", "linked", "pick", "mask",
                          "switch", "switched", "wake", "resume", "kick",
                          "unlink", "unlinked", "release"}]
      /\ thread \in [Cpus -> Threads \cup {NoThread}]
      /\ ret[c] \in {"run", "dispatch"}
    BY Zenon DEF IInv, TypeOK, MachineTypes
<1>2. ExitsAside(c)
  <2>1. UNCHANGED <<next, released, stack, curthread, old_thread, state, dpc_cpu>>
    BY Zenon DEF ke_dpc_enqueue, Interrupt, DispatchEmpty, DispatchCheck,
       CallbackReturns, ki_thread_resume_locked, ResumeInterrupt, Preempt, ReapNone,
       ThreadWakes, CallbackWakes, BeginWake
  <2>2. pc'[c] \in {"callback", "dispatch", "check", "run", "preempt", "kick",
                    "reschedule", "wake"}
    BY Zenon, <1>1 DEF ke_dpc_enqueue, Interrupt, DispatchEmpty, DispatchCheck,
       CallbackReturns, ki_thread_resume_locked, ResumeInterrupt, Preempt, ReapNone,
       ThreadWakes, CallbackWakes, BeginWake, Goto
  <2>3. \A d \in Cpus : d # c => pc'[d] = pc[d] /\ thread'[d] = thread[d]
    <3>1. /\ \E x : pc' = [pc EXCEPT ![c] = x]
          /\ thread' = thread \/ \E x : thread' = [thread EXCEPT ![c] = x]
      BY Zenon DEF ke_dpc_enqueue, Interrupt, DispatchEmpty, DispatchCheck,
         CallbackReturns, ki_thread_resume_locked, ResumeInterrupt, Preempt, ReapNone,
         ThreadWakes, CallbackWakes, BeginWake, Goto
    <3> QED
      BY Zenon, <1>1, <3>1
  <2>4. pc'[c] \notin {"reap", "unlink", "unlinked", "release", "mask", "switch",
                       "switched"}
    BY <2>2
  <2> QED
    BY Zenon, <2>1, <2>3, <2>4, LinksFacts DEF ExitsAside, OnThread, Reaping
<1> QED
    BY Zenon, <1>2, ExitsAsideStep

(* the next DPC: done_thread_dpc if it was queued *)
LEMMA DispatchNextExits ==
    ASSUME IInv, ExitInv, NEW c \in Cpus, DispatchNext(c)
    PROVE  ExitInv'
<1> DEFINE first == Head(dpc_queue[c])
<1>1. first \in Dpcs /\ dpc_cpu[first] = c
    BY Zenon, TailDistinct DEF DispatchNext, IInv, TypeOK, DpcTypes, DpcInv, DpcQueuedOnce
<1>2. /\ UNCHANGED <<next, released, stack, curthread, old_thread, state, thread>>
      /\ \A d \in Cpus : d # c => pc'[d] = pc[d]
      /\ pc'[c] = IF first = DoneDpc(c) THEN "reap" ELSE "callback"
      /\ \A d \in Cpus : dpc_cpu'[DoneDpc(d)] # NoCpu => dpc_cpu[DoneDpc(d)] # NoCpu
    BY Zenon DEF DispatchNext, IInv, TypeOK, MachineTypes, DpcTypes, Dpcs
<1>3. first = DoneDpc(c) => Reaping(c)
    BY Zenon, <1>1 DEF Reaping
<1> HIDE DEF first
<1>4. /\ pc'[c] \notin {"unlink", "unlinked", "release", "mask", "switch", "switched"}
      /\ pc'[c] = "reap" => first = DoneDpc(c)
    BY <1>2
<1>5. ExitsAside(c)
    BY Zenon, <1>2, <1>3, <1>4, LinksFacts DEF ExitsAside, OnThread
<1> QED
    BY Zenon, <1>5, ExitsAsideStep

(* a thread is woken or goes to sleep *)
LEMMA WakeExits ==
    ASSUME IInv, ExitInv, NEW c \in Cpus, ki_wake_waiter(c) \/ Wait(c)
    PROVE  ExitInv'
<1>1. /\ UNCHANGED <<next, released, stack, curthread, old_thread, thread, dpc_cpu>>
      /\ \A d \in Cpus : d # c => pc'[d] = pc[d]
      /\ pc'[c] \in {"resume", "reschedule"}
    BY Zenon DEF ki_wake_waiter, Wait, IInv, TypeOK, MachineTypes
<1>2. \A t \in Threads : state'[t] = "Done" <=> state[t] = "Done"
  <2>1. CASE ki_wake_waiter(c)
    BY Zenon, <2>1 DEF ki_wake_waiter, IInv, TypeOK, ThreadTypes, AllThreads
  <2>2. CASE Wait(c)
    <3>1. Phase[c] = "low" /\ curthread[c] \in Threads
      BY Zenon, <2>2 DEF Wait, Phase
    <3>2. state[curthread[c]] = "Running"
      BY Zenon, <3>1, ThreadFacts DEF StateInv
    <3> QED
      BY Zenon, <2>2, <3>1, <3>2 DEF Wait, IInv, TypeOK, ThreadTypes, AllThreads
  <2> QED
    BY Zenon, <2>1, <2>2
<1>3. pc'[c] \notin {"reap", "unlink", "unlinked", "release", "mask", "switch",
                     "switched"}
    BY <1>1
<1>4. ExitsAside(c)
    BY Zenon, <1>1, <1>2, <1>3, LinksFacts DEF ExitsAside, OnThread
<1> QED
    BY Zenon, <1>4, ExitsAsideStep

(* the switch *)
LEMMA SwitchExits ==
    ASSUME IInv, ExitInv, NEW c \in Cpus, SetIdle(c) \/ md_switch(c) \/ Switched(c)
    PROVE  ExitInv'
<1>1. UNCHANGED <<next, released, curthread, thread, dpc_cpu, state>>
    BY Zenon DEF SetIdle, md_switch, Switched
<1>2. /\ \A d \in Cpus : d # c => /\ pc'[d] = pc[d] /\ stack'[d] = stack[d]
                                  /\ old_thread'[d] = old_thread[d]
      /\ pc[c] \in {"mask", "switch", "switched"}
      /\ pc'[c] \in {"switch", "switched", "run"}
      /\ stack'[c] \in {stack[c], curthread[c]}
      /\ pc'[c] # "run" => old_thread' = old_thread
  <2> USE DEF IInv, TypeOK, MachineTypes, CpuTypes
  <2>1. CASE SetIdle(c)
    BY Zenon, <2>1 DEF SetIdle
  <2>2. CASE md_switch(c)
    BY Zenon, <2>2 DEF md_switch
  <2>3. CASE Switched(c)
    BY Zenon, <2>3 DEF Switched
  <2> QED
    BY Zenon, <2>1, <2>2, <2>3
<1>3. /\ pc'[c] \notin {"reap", "unlink", "unlinked", "release"}
      /\ pc'[c] \in {"mask", "switch", "switched"} => old_thread' = old_thread
    BY <1>2
<1>4. \A t \in Threads : OnThread(c, t)' => OnThread(c, t)
    BY Zenon, <1>1, <1>2, <1>3 DEF OnThread
<1>5. ExitsAside(c)
    BY Zenon, <1>1, <1>2, <1>3, <1>4, LinksFacts DEF ExitsAside
<1> QED
    BY Zenon, <1>5, ExitsAsideStep

(* ki_reschedule's choice: no thread that has exited *)
LEMMA PickExits ==
    ASSUME IInv, ExitInv, NEW c \in Cpus, pc[c] \in {"reschedule", "pick"},
           Pick(c, Ready(c))
    PROVE  ExitInv'
<1> DEFINE old == curthread[c]
           ready == Ready(c)
           new == IF ready = <<>> THEN IdleThread(c) ELSE Head(ready)
<1>1. /\ old \in AllThreads /\ new \in AllThreads
      /\ new \in Threads => state[new] # "Done"
  <2>1. CASE ready = <<>>
    BY Zenon, <2>1, ThreadFacts, ThreadsAssumption DEF IdleThread
  <2>2. CASE ready # <<>>
    <3>1. Head(ready) \in Threads /\ OnQueue(ready, Head(ready))
      BY Zenon, <2>2, ReadyFacts, TailDistinct
    <3>2. state[Head(ready)] \in {"Runnable", "Initial", "Running"}
      BY Zenon, <3>1, ReadyFacts, ThreadFacts DEF QueueInv
    <3>3. state[Head(ready)] # "Done"
      BY <3>2
    <3> QED
      BY Zenon, <2>2, <3>1, <3>3, ThreadFacts
  <2> QED
    BY Zenon, <2>1, <2>2
<1>2. /\ state' = [state EXCEPT ![old] = IF old \in Threads /\ @ = "Running"
                                         THEN "Runnable" ELSE @,
                                ![new] = "Running"]
      /\ curthread' = [curthread EXCEPT ![c] = new]
      /\ old_thread' = [old_thread EXCEPT ![c] = old]
      /\ pc' = [pc EXCEPT ![c] = IF new = old THEN "run" ELSE "mask"]
      /\ UNCHANGED <<next, released, thread, dpc_cpu, stack>>
    BY Zenon DEF Pick, Goto
<1> HIDE DEF new, ready
<1>3. \A t \in Threads : state'[t] = "Done" <=> state[t] = "Done"
    BY Zenon, <1>1, <1>2, ThreadFacts
<1>4. /\ pc'[c] \in {"run", "mask"}
      /\ curthread'[c] = new /\ old_thread'[c] = old
      /\ \A d \in Cpus : d # c => /\ pc'[d] = pc[d]
                                  /\ curthread'[d] = curthread[d]
                                  /\ old_thread'[d] = old_thread[d]
  <2>1. pc'[c] \in {"run", "mask"} /\ \A d \in Cpus : d # c => pc'[d] = pc[d]
    BY Zenon, <1>2 DEF IInv, TypeOK, MachineTypes
  <2>2. /\ curthread \in [Cpus -> AllThreads]
        /\ old_thread \in [Cpus -> AllThreads]
    BY Zenon, ThreadFacts
  <2> QED
    BY Zenon, <1>2, <2>1, <2>2
<1>5. pc'[c] \notin {"reap", "unlink", "unlinked", "release"}
    BY <1>4
<1>6. \A t \in Threads : state[t] = "Done" /\ OnThread(c, t)' => OnThread(c, t)
  <2>1. stack'[c] = stack[c]
    BY Zenon, <1>2
  <2> QED
    BY Zenon, <1>1, <1>4, <2>1 DEF OnThread
<1>7. ExitsAside(c)
    BY Zenon, <1>2, <1>3, <1>4, <1>5, <1>6, LinksFacts DEF ExitsAside
<1> QED
    BY Zenon, <1>7, ExitsAsideStep

(* the links of done_queue are only moved, and the one added is to the      *)
(* thread that has exited                                                   *)
LEMMA LinkExits ==
    ASSUME IInv, ExitInv, NEW c \in Cpus,
           \/ ExitBegin(c) \/ ExitLink(c) \/ ReapFirst(c) \/ ReapUnlink(c)
           \/ ReapUnlinked(c)
    PROVE  ExitInv'
<1>1. UNCHANGED <<released, stack, curthread, old_thread, state, dpc_cpu>>
    BY Zenon DEF ExitBegin, ExitLink, ReapFirst, ReapUnlink, ReapUnlinked
<1>2. next \in [Threads \cup {"done_queue"} -> Threads \cup {NoThread}]
    BY Zenon DEF IInv, TypeOK, DoneTypes
<1>3. \A d \in Cpus : d # c => pc'[d] = pc[d] /\ thread'[d] = thread[d]
    BY Zenon DEF ExitBegin, ExitLink, ReapFirst, ReapUnlink, ReapUnlinked, IInv, TypeOK,
       MachineTypes
<1>4. CASE ExitBegin(c)
  <2>1. /\ pc'[c] = "link"
        /\ next' = [next EXCEPT ![curthread[c]] = NoThread]
    BY Zenon, <1>4 DEF ExitBegin, IInv, TypeOK, MachineTypes
  <2>2. \A x \in Threads \cup {"done_queue"} :
           next'[x] # NoThread => next'[x] = next[x]
    BY Zenon, <1>2, <2>1
  <2>3. ExitsAside(c)
    BY Zenon, <1>1, <1>3, <2>1, <2>2, LinksFacts DEF ExitsAside, OnThread
  <2> QED
    BY Zenon, <2>3, ExitsAsideStep
<1>5. CASE ExitLink(c)
  <2>1. /\ pc'[c] = "linked"
        /\ next' = [next EXCEPT ![last] = curthread[c]]
    BY Zenon, <1>5 DEF ExitLink, IInv, TypeOK, MachineTypes
  <2>2. curthread[c] \in Threads /\ state[curthread[c]] = "Done"
    BY Zenon, <1>5, ThreadFacts DEF ExitLink, Phase, StateInv
  <2>3. \A x \in Threads \cup {"done_queue"} :
           next'[x] # NoThread => next'[x] \in {next[x], curthread[c]}
    BY Zenon, <1>2, <2>1
  <2>4. ExitsAside(c)
    BY Zenon, <1>1, <1>3, <2>1, <2>2, <2>3, LinksFacts DEF ExitsAside, OnThread
  <2> QED
    BY Zenon, <2>4, ExitsAsideStep
<1>6. CASE ReapFirst(c)
  <2>1. /\ pc[c] = "reap" /\ pc'[c] = "unlink"
        /\ next' = next /\ next["done_queue"] # NoThread
        /\ thread'[c] = next["done_queue"]
    BY Zenon, <1>6 DEF ReapFirst, IInv, TypeOK, MachineTypes
  <2>2. ExitsAside(c)
    BY Zenon, <1>1, <1>3, <2>1, LinksFacts DEF ExitsAside, OnThread, Reaping
  <2> QED
    BY Zenon, <2>2, ExitsAsideStep
<1>7. CASE ReapUnlink(c)
  <2>1. /\ pc[c] = "unlink" /\ pc'[c] = "unlinked"
        /\ UNCHANGED <<next, thread>>
    BY Zenon, <1>7 DEF ReapUnlink, IInv, TypeOK, MachineTypes
  <2>2. ExitsAside(c)
    BY Zenon, <1>1, <1>3, <2>1, LinksFacts DEF ExitsAside, OnThread, Reaping
  <2> QED
    BY Zenon, <2>2, ExitsAsideStep
<1>8. CASE ReapUnlinked(c)
  <2>1. /\ pc[c] = "unlinked" /\ pc'[c] = "release" /\ thread' = thread
        /\ next' = [next EXCEPT ![prev[thread[c]]] = next[thread[c]]]
    BY Zenon, <1>8 DEF ReapUnlinked, IInv, TypeOK, MachineTypes
  <2>2. \A x \in Threads \cup {"done_queue"} :
           next'[x] # NoThread => next'[x] \in {next[x], next[thread[c]]}
    BY Zenon, <1>2, <2>1
  <2>3. thread[c] \in Threads
    BY Zenon, <2>1, LinksFacts
  <2>4. \A x \in Threads \cup {"done_queue"} : next'[x] # NoThread =>
           next'[x] \in Threads /\ state[next'[x]] = "Done"
    BY Zenon, <2>2, <2>3, LinksFacts
  <2>5. /\ Reaping(c)
        /\ thread'[c] \in Threads /\ state[thread'[c]] = "Done"
        /\ pc'[c] \notin {"mask", "switch", "switched"}
    BY Zenon, <2>1, <2>3, LinksFacts DEF Reaping
  <2>6. ExitsAside(c)
    BY Zenon, <1>1, <1>3, <2>4, <2>5 DEF ExitsAside, OnThread
  <2> QED
    BY Zenon, <2>6, ExitsAsideStep
<1> QED
    BY Zenon, <1>4, <1>5, <1>6, <1>7, <1>8

(* the thread that exits is the only one to do so: none is on done_queue,   *)
(* and no done_thread_dpc is about to look there                            *)
LEMMA ps_exit_this_threadExits ==
    ASSUME OneExits, IInv, ExitInv, NEW c \in Cpus, ps_exit_this_thread(c)
    PROVE  ExitInv'
<1> DEFINE t == curthread[c]
<1>1. /\ t \in Mortal /\ t \in Threads
      /\ state' = [state EXCEPT ![t] = "Done"]
      /\ pc[c] = "run" /\ pc'[c] = "reschedule"
      /\ \A d \in Cpus : d # c => pc'[d] = pc[d]
      /\ UNCHANGED <<next, released, thread, dpc_cpu>>
    BY Zenon, ThreadsAssumption DEF ps_exit_this_thread, IInv, TypeOK, MachineTypes
<1>2. state[t] = "Running"
    BY Zenon, <1>1, ThreadFacts DEF StateInv, Phase
<1>3. \A x \in Threads : state[x] # "Done"
  <2>1. "Running" # "Done"
    OBVIOUS
  <2> QED
    BY Zenon, <1>1, <1>2, <2>1 DEF ExitInv, OneExits
<1>4. /\ \A x \in Threads \cup {"done_queue"} : next[x] = NoThread
      /\ \A x \in released : FALSE
      /\ \A d \in Cpus : ~ Reaping(d)
  <2>1. released \subseteq Threads /\ Mortal \subseteq Threads
    BY Zenon, ThreadsAssumption DEF IInv, TypeOK, DoneTypes
  <2>2. \A x \in Threads \cup {"done_queue"} : next[x] = NoThread
    BY Zenon, <1>3, LinksFacts
  <2>3. \A x \in released : FALSE
    BY Zenon, <1>3, <2>1 DEF ExitInv
  <2>4. \A d \in Cpus : ~ Reaping(d)
    BY Zenon, <1>3, <2>1 DEF ExitInv
  <2> QED
    BY Zenon, <2>2, <2>3, <2>4
<1>5. \A d \in Cpus : ~ Reaping(d)'
    BY Zenon, <1>1, <1>4 DEF Reaping
<1>6. \A x \in Threads : state'[x] = "Done" => x \in Mortal
    BY Zenon, <1>1, <1>3, ThreadFacts
<1>7. \A d \in Cpus : pc'[d] \notin {"unlink", "unlinked", "release"}
    BY Zenon, <1>5 DEF Reaping
<1> QED
    BY Zenon, <1>1, <1>4, <1>5, <1>6, <1>7 DEF ExitInv

(* the CPU of the thread that exits is the only one on it *)
LEMMA ExitLinkedExits ==
    ASSUME IInv, ExitInv, NEW c \in Cpus, ExitLinked(c)
    PROVE  ExitInv'
<1> DEFINE t == curthread[c]
<1>1. /\ pc[c] = "linked" /\ Phase[c] = "exit"
      /\ pc'[c] = "pick"
      /\ \A d \in Cpus : d # c => pc'[d] = pc[d]
      /\ UNCHANGED <<next, released, thread, state, stack, curthread, old_thread>>
    BY Zenon DEF ExitLinked, Phase, IInv, TypeOK, MachineTypes
<1>2. t \in Threads /\ state[t] = "Done" /\ lock[t] = c /\ stack[c] = t
  <2>1. "exit" # "switch"
    OBVIOUS
  <2> QED
    BY Zenon, <1>1, <2>1, ThreadFacts DEF StateInv, HoldInv
<1>3. t \in Mortal
    BY Zenon, <1>2 DEF ExitInv
<1>4. ASSUME NEW d \in Cpus, d # c PROVE ~ OnThread(d, t)
  <2>1. stack[d] # t /\ curthread[d] # t
    BY Zenon, <1>2, <1>4, ThreadFacts DEF PlaceInv
  <2>2. pc[d] \in {"mask", "switch", "switched"} => lock[old_thread[d]] = d
    BY Zenon, ThreadFacts DEF HoldInv, Phase
  <2> QED
    BY Zenon, <1>2, <1>4, <2>1, <2>2 DEF OnThread
<1>5. \A d \in Cpus, x \in Threads : OnThread(d, x)' => OnThread(d, x)
  <2>1. \A d \in Cpus : pc'[d] \in {"mask", "switch", "switched"} => pc'[d] = pc[d]
    BY Zenon, <1>1
  <2> QED
    BY Zenon, <1>1, <2>1 DEF OnThread
<1>6. ASSUME NEW d \in Cpus, d # c, Reaping(d)' PROVE Reaping(d)
  <2>1. DoneDpc(d) # DoneDpc(c)
    BY <1>6 DEF DoneDpc
  <2>2. dpc_cpu'[DoneDpc(d)] = dpc_cpu[DoneDpc(d)]
    BY Zenon, <2>1 DEF ExitLinked, Enqueue, IInv, TypeOK, DpcTypes, Dpcs
  <2> QED
    BY Zenon, <1>1, <1>6, <2>2 DEF Reaping
<1>7. ASSUME NEW d \in Cpus, Reaping(d)'
      PROVE  \E x \in Mortal : /\ state'[x] = "Done"
                               /\ \A k \in Cpus : k # d => ~ OnThread(k, x)'
  <2>1. CASE d = c
    BY Zenon, <1>1, <1>2, <1>3, <1>4, <1>5, <2>1
  <2>2. CASE d # c
    BY Zenon, <1>1, <1>5, <1>6, <1>7, <2>2, ThreadsAssumption DEF ExitInv
  <2> QED
    BY Zenon, <2>1, <2>2
<1>8. \A x \in released' : /\ state'[x] = "Done"
                           /\ \A d \in Cpus : ~ OnThread(d, x)'
  <2>1. released \subseteq Threads
    BY Zenon DEF IInv, TypeOK, DoneTypes
  <2> QED
    BY Zenon, <1>1, <1>5, <2>1 DEF ExitInv
<1>9. \A d \in Cpus : pc'[d] \in {"unlink", "unlinked", "release"} =>
         state'[thread'[d]] = "Done"
    BY Zenon, <1>1, LinksFacts
<1> QED
    BY Zenon, <1>1, <1>7, <1>8, <1>9 DEF ExitInv

(* done_thread_dpc releases the one thread that has exited, which its CPU    *)
(* has left                                                                 *)
LEMMA ReapReleaseExits ==
    ASSUME OneExits, IInv, ExitInv, NEW c \in Cpus, ReapRelease(c)
    PROVE  ExitInv'
<1> DEFINE t == thread[c]
<1>1. /\ pc[c] = "release" /\ pc'[c] = "reap"
      /\ released' = released \cup {t}
      /\ \A d \in Cpus : d # c => pc'[d] = pc[d] /\ thread'[d] = thread[d]
      /\ UNCHANGED <<next, state, stack, curthread, old_thread, dpc_cpu>>
    BY Zenon DEF ReapRelease, IInv, TypeOK, MachineTypes
<1>2. t \in Threads /\ state[t] = "Done" /\ t \in Mortal
    BY Zenon, <1>1, LinksFacts DEF ExitInv
<1>3. \A d \in Cpus : d # c => ~ OnThread(d, t)
  <2>1. Reaping(c)
    BY Zenon, <1>1 DEF Reaping
  <2>2. PICK x \in Mortal : \A d \in Cpus : d # c => ~ OnThread(d, x)
    BY Zenon, <2>1 DEF ExitInv
  <2> QED
    BY Zenon, <1>2, <2>2 DEF OneExits
<1>4. ~ OnThread(c, t)
  <2>1. /\ Phase[c] \notin {"reschedule", "exit", "switch"}
        /\ pc[c] \notin {"mask", "switch", "switched"}
        /\ "Running" # "Done"
    BY <1>1 DEF Phase
  <2>2. curthread[c] # t
    BY Zenon, <1>2, <2>1, ThreadFacts DEF StateInv
  <2>3. stack[c] = curthread[c]
    BY Zenon, <2>1, ThreadFacts DEF HoldInv
  <2> QED
    BY Zenon, <2>1, <2>2, <2>3 DEF OnThread
<1>5. \A d \in Cpus : ~ OnThread(d, t)
    BY Zenon, <1>3, <1>4
<1>6. Reaping(c)
    BY Zenon, <1>1 DEF Reaping
<1>7. ExitsAside(c)
    BY Zenon, <1>1, <1>2, <1>5, <1>6, LinksFacts DEF ExitsAside, OnThread
<1> QED
    BY Zenon, <1>7, ExitsAsideStep

(* No thread has exited at first.                                           *)
LEMMA ExitInit == Init => ExitInv
<1> SUFFICES ASSUME Init PROVE ExitInv
    OBVIOUS
<1>1. /\ \A t \in Threads : state[t] = "Initial"
      /\ \A x \in Threads \cup {"done_queue"} : next[x] = NoThread
      /\ \A c \in Cpus : /\ pc[c] \in {"wake", "run"}
                         /\ dpc_cpu[DoneDpc(c)] = NoCpu
      /\ released = {}
    BY Zenon, ThreadsAssumption DEF Init, AllThreads, Dpcs
<1>2. \A t \in Threads : state[t] # "Done"
    BY <1>1
<1>3. \A c \in Cpus : pc[c] \notin {"reap", "unlink", "unlinked", "release"}
    BY <1>1
<1>4. \A c \in Cpus : ~ Reaping(c)
    BY Zenon, <1>1, <1>3 DEF Reaping
<1>5. \A t \in released : FALSE
    BY <1>1
<1> QED
    BY Zenon, <1>1, <1>2, <1>3, <1>4, <1>5 DEF ExitInv

(* Every step preserves ExitInv, if only one thread ever exits.             *)
LEMMA ExitNext == OneExits /\ IInv /\ ExitInv /\ [Next]_vars => ExitInv'
<1> SUFFICES ASSUME OneExits, IInv, ExitInv, [Next]_vars PROVE ExitInv'
    OBVIOUS
<1>1. ASSUME NEW c \in Cpus, Forced(c) PROVE ExitInv'
  <2>1. CASE \/ Interrupt(c) \/ DispatchEmpty(c) \/ DispatchCheck(c)
             \/ CallbackReturns(c) \/ ki_thread_resume_locked(c)
             \/ ResumeInterrupt(c) \/ Preempt(c) \/ ReapNone(c)
    BY Zenon, <2>1, LowExits
  <2>2. CASE ki_reschedule(c)
    <3>1. pc[c] \in {"reschedule", "pick"} /\ Pick(c, Ready(c))
      BY Zenon, <2>2 DEF ki_reschedule, Ready
    <3> QED
      BY Zenon, <3>1, PickExits
  <2>3. CASE ExitPick(c)
    <3>1. state[curthread[c]] = "Done"
      BY Zenon, <2>3, ThreadFacts DEF ExitPick, Phase, StateInv
    <3>2. pc[c] \in {"reschedule", "pick"} /\ Pick(c, Ready(c))
      BY Zenon, <2>3, <3>1 DEF ExitPick, Ready
    <3> QED
      BY Zenon, <3>2, PickExits
  <2> QED
    BY Zenon, <1>1, <2>1, <2>2, <2>3, DispatchNextExits, WakeExits, SwitchExits,
       LinkExits, ExitLinkedExits, ReapReleaseExits DEF Forced
<1>2. ASSUME NEW c \in Cpus, Voluntary(c) PROVE ExitInv'
    BY Zenon, <1>2, LowExits, WakeExits, ps_exit_this_threadExits DEF Voluntary
<1>3. ASSUME NEW c \in Cpus, HighInterrupt(c) PROVE ExitInv'
    BY Zenon, <1>3, DeferredExits
<1>4. CASE UNCHANGED vars
  <2>1. UNCHANGED <<next, released, stack, curthread, old_thread, state, thread,
                    pc, dpc_cpu>>
    BY Zenon, <1>4 DEF vars, cpuVars, threadVars, dpcVars, localVars, doneVars
  <2>2. ExitsAside(0)
    BY Zenon, <2>1, LinksFacts, BootAssumption DEF ExitsAside, OnThread, Reaping
  <2> QED
    BY Zenon, <2>2, BootAssumption, ExitsAsideStep
<1> QED
    BY Zenon, <1>1, <1>2, <1>3, <1>4 DEF Next

(* When one thread exits, done_thread_dpc releases it only after the CPU it *)
(* ran on has switched away from it and dropped its lock, for any number of *)
(* CPUs, threads and DPCs.                                                  *)
THEOREM ReleasedAfterSwitch == OneExits => (Spec => []ReleasedOffCpu)
<1> SUFFICES ASSUME OneExits PROVE Spec => []ReleasedOffCpu
    OBVIOUS
<1>1. IInv /\ ExitInv /\ [Next]_vars => ExitInv'
    BY ExitNext
<1>2. ExitInv => ReleasedOffCpu
    BY Zenon DEF ExitInv, ReleasedOffCpu, OnThread
<1> QED
    BY <1>1, <1>2, ExitInit, SchedInvariance, PTL DEF Spec
=============================================================================
