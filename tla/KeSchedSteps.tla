--------------------------- MODULE KeSchedSteps ----------------------------
(* What the steps of KeSched do to its threads: the part ThreadInv of the     *)
(* invariant, from what a step changes rather than from the step itself.      *)
(* Then interrupts, deferred procedure calls, the exit and deletion of        *)
(* threads and their waking preserve the invariant.                           *)
EXTENDS KeSched, QueueTheorems, TLAPS

USE DEF cpuVars, threadVars, dpcVars, localVars, doneVars, Goto

(* the values of Phase *)
Phases == {"low", "wake", "resume", "kick", "reschedule", "exit", "switch",
           "switched"}

(* Phase takes one of its values *)
LEMMA PhaseType == MachineTypes => Phase \in [Cpus -> Phases]
BY Zenon DEF Phase, MachineTypes, Phases

(* A step that changes neither a phase nor what the phases speak of.        *)
Quiet ==
    /\ Phase' = Phase
    /\ UNCHANGED <<curthread, old_thread, stack, state, lock, runqueue>>
    /\ \A d \in Cpus : Phase[d] \in {"wake", "resume", "kick"} =>
                         thread'[d] = thread[d]

(* It preserves ThreadInv.                                                  *)
LEMMA QuietThreads ==
    ASSUME ThreadInv, Quiet
    PROVE  ThreadInv'
<1> USE DEF Quiet, ThreadInv
<1>1. HoldInv'
    BY Zenon DEF HoldInv
<1>2. StateInv'
    BY Zenon DEF StateInv
<1>3. PlaceInv'
    BY Zenon DEF PlaceInv
<1>4. QueuedOnce' /\ QueueInv' /\ InitialInv'
    BY DEF QueuedOnce, QueueInv, InitialInv
<1>5. WakeInv'
    BY DEF WakeInv
<1> QED
    BY Zenon, <1>1, <1>2, <1>3, <1>4, <1>5


(* What the steps below use of the invariant.                               *)
LEMMA ThreadFacts ==
    ASSUME IInv
    PROVE  /\ Phase \in [Cpus -> Phases]
           /\ lock \in [AllThreads -> Cpus \cup {NoCpu}]
           /\ state \in [AllThreads -> {"Initial", "Runnable", "Running",
                                        "Waiting", "Done"}]
           /\ curthread \in [Cpus -> AllThreads]
           /\ old_thread \in [Cpus -> AllThreads]
           /\ stack \in [Cpus -> AllThreads]
           /\ runqueue \in [Cpus -> Seq(Threads)]
           /\ Threads \subseteq AllThreads /\ Cpus \subseteq AllThreads
           /\ \A k \in Cpus : Phase[k] \in {"wake", "resume", "kick"} =>
                                thread[k] \in Threads
           /\ HoldInv /\ StateInv /\ PlaceInv /\ QueuedOnce /\ QueueInv
           /\ InitialInv /\ WakeInv
<1>1. \A k \in Cpus : Phase[k] \in {"wake", "resume", "kick"} =>
                        thread[k] \in Threads
    BY Zenon DEF IInv, TypeOK, MachineTypes, LocalInv, Phase
<1> QED
    BY Zenon, <1>1, PhaseType DEF IInv, TypeOK, MachineTypes, CpuTypes, ThreadTypes,
                           AllThreads, ThreadInv

(* A CPU at low IPL takes the lock of its thread, which stays as it is,     *)
(* goes to sleep or exits.                                                  *)
LEMMA GiveUpThreads ==
    ASSUME IInv, NEW c \in Cpus, NEW s, Phase[c] = "low",
           lock[curthread[c]] = NoCpu,
           lock' = [lock EXCEPT ![curthread[c]] = c],
           \/ s = state[curthread[c]]
           \/ s \in {"Waiting", "Done"} /\ curthread[c] \in Threads,
           state' = [state EXCEPT ![curthread[c]] = s],
           Phase' = [Phase EXCEPT ![c] = "reschedule"],
           UNCHANGED <<curthread, old_thread, stack, runqueue, thread>>
    PROVE  ThreadInv'
<1> DEFINE t == curthread[c]
<1> USE ThreadFacts
<1>1. HoldInv'
    BY CpusAssumption DEF HoldInv
<1>2. state[t] = "Running"
    BY Zenon DEF StateInv
<1>3. StateInv'
    BY <1>2, ThreadsAssumption DEF StateInv, PlaceInv, IdleThread
<1>4. PlaceInv' /\ QueuedOnce'
    BY Zenon DEF PlaceInv, QueuedOnce
<1>5. QueueInv'
    BY <1>2 DEF QueueInv
<1>6. InitialInv'
    BY Zenon, <1>2 DEF InitialInv
<1>7. WakeInv'
  <2>1. \A k \in Cpus : Phase[k] \in {"wake", "resume"} => thread[k] # t /\ k # c
    BY Zenon, <1>2 DEF WakeInv
  <2> QED
    BY Zenon, <2>1 DEF WakeInv
<1> QED
    BY Zenon, <1>1, <1>3, <1>4, <1>5, <1>6, <1>7 DEF ThreadInv

(* The exit of a thread goes on to its second part.                         *)
LEMMA ExitBeginThreads ==
    ASSUME IInv, NEW c \in Cpus, Phase[c] = "reschedule",
           state[curthread[c]] = "Done",
           Phase' = [Phase EXCEPT ![c] = "exit"],
           UNCHANGED <<curthread, old_thread, stack, runqueue, thread, lock,
                       state>>
    PROVE  ThreadInv'
<1> USE ThreadFacts
<1>1. HoldInv'
    BY Zenon DEF HoldInv
<1>2. StateInv'
    BY Zenon DEF StateInv
<1>3. PlaceInv' /\ QueuedOnce' /\ QueueInv' /\ InitialInv'
    BY DEF PlaceInv, QueuedOnce, QueueInv, InitialInv
<1>4. WakeInv'
    BY Zenon DEF WakeInv
<1> QED
    BY Zenon, <1>1, <1>2, <1>3, <1>4 DEF ThreadInv

(* A CPU at low IPL sets out to wake a thread.                              *)
LEMMA BeginWakeThreads ==
    ASSUME IInv, NEW c \in Cpus, NEW t \in Threads, Phase[c] = "low",
           Wakeable(t),
           thread' = [thread EXCEPT ![c] = t],
           Phase' = [Phase EXCEPT ![c] = "wake"],
           UNCHANGED <<curthread, old_thread, stack, runqueue, lock, state>>
    PROVE  ThreadInv'
<1> USE ThreadFacts
<1>0. thread \in [Cpus -> Threads \cup {NoThread}]
    BY Zenon DEF IInv, TypeOK, MachineTypes
<1>1. HoldInv'
    BY Zenon, <1>0 DEF HoldInv
<1>2. StateInv'
    BY Zenon DEF StateInv
<1>3. PlaceInv' /\ QueuedOnce' /\ QueueInv' /\ InitialInv'
    BY DEF PlaceInv, QueuedOnce, QueueInv, InitialInv
<1>4. /\ state[t] \in {"Waiting", "Initial"}
      /\ \A k \in Cpus : ~ OnQueue(runqueue[k], t)
      /\ \A k \in Cpus : Phase[k] \in {"wake", "resume"} => thread[k] # t
    BY Zenon DEF Wakeable, Claimed, Queued, Phase, IInv, TypeOK, MachineTypes
<1>5. WakeInv'
    BY <1>0, <1>4 DEF WakeInv
<1> QED
    BY Zenon, <1>1, <1>2, <1>3, <1>5 DEF ThreadInv

(* It gets the thread's lock: no CPU can still be on the thread's stack.    *)
LEMMA WakeThreads ==
    ASSUME IInv, NEW c \in Cpus, Phase[c] = "wake", lock[thread[c]] = NoCpu,
           lock' = [lock EXCEPT ![thread[c]] = c],
           state' = [state EXCEPT ![thread[c]] =
                        IF @ = "Waiting" THEN "Runnable" ELSE @],
           Phase' = [Phase EXCEPT ![c] = "resume"],
           UNCHANGED <<curthread, old_thread, stack, runqueue, thread>>
    PROVE  ThreadInv'
<1> DEFINE t == thread[c]
<1> USE ThreadFacts
<1>1. /\ t \in Threads
      /\ state[t] \in {"Waiting", "Initial"}
      /\ \A k \in Cpus : ~ OnQueue(runqueue[k], t)
      /\ \A k \in Cpus \ {c} : Phase[k] \in {"wake", "resume"} => thread[k] # t
    BY Zenon DEF WakeInv
<1>2. \A k \in Cpus : curthread[k] # t /\ stack[k] # t
    BY <1>1, CpusAssumption DEF HoldInv, StateInv, InitialInv
<1>3. \A x \in AllThreads : x # t => state'[x] = state[x]
    OBVIOUS
<1>4. state'[t] \in {"Runnable", "Initial"}
    BY Zenon, <1>1
<1>5. HoldInv'
    BY <1>1, CpusAssumption DEF HoldInv
<1>6. StateInv'
    BY <1>1, <1>2, <1>3, ThreadsAssumption DEF StateInv, IdleThread
<1>7. PlaceInv' /\ QueuedOnce'
    BY Zenon DEF PlaceInv, QueuedOnce
<1>8. QueueInv'
    BY <1>1, <1>3 DEF QueueInv
<1>9. InitialInv'
    BY <1>1, <1>2, <1>3 DEF InitialInv
<1>10. WakeInv'
    BY <1>1, <1>2, <1>3, <1>4 DEF WakeInv
<1> QED
    BY Zenon, <1>5, <1>6, <1>7, <1>8, <1>9, <1>10 DEF ThreadInv

(* It puts the thread on the runqueue of a CPU.                             *)
LEMMA ResumeThreads ==
    ASSUME IInv, NEW c \in Cpus, NEW d \in Cpus, Phase[c] = "resume",
           IsInjective(runqueue'[d]),
           \A x \in Threads : OnQueue(runqueue'[d], x) <=>
                                OnQueue(runqueue[d], x) \/ x = thread[c],
           \A k \in Cpus \ {d} : runqueue'[k] = runqueue[k],
           Phase' = [Phase EXCEPT ![c] = "kick"],
           UNCHANGED <<curthread, old_thread, stack, lock, state, thread>>
    PROVE  ThreadInv'
<1> DEFINE t == thread[c]
<1> USE ThreadFacts
<1>1. /\ t \in Threads
      /\ state[t] \in {"Runnable", "Initial"}
      /\ \A k \in Cpus : /\ ~ OnQueue(runqueue[k], t)
                         /\ curthread[k] # t /\ stack[k] # t
      /\ \A k \in Cpus \ {c} : Phase[k] \in {"wake", "resume"} => thread[k] # t
    BY Zenon DEF WakeInv
<1>5. HoldInv'
    BY DEF HoldInv
<1>6. StateInv' /\ PlaceInv' /\ InitialInv'
    BY DEF StateInv, PlaceInv, InitialInv
<1>7. QueuedOnce'
  <2> SUFFICES ASSUME NEW k \in Cpus, NEW e \in Cpus
               PROVE  /\ IsInjective(runqueue'[k])
                      /\ \A x \in Threads : OnQueue(runqueue'[k], x) =>
                            curthread[e] # x /\ (OnQueue(runqueue'[e], x) => k = e)
    BY DEF QueuedOnce
  <2>1. IsInjective(runqueue'[k])
    BY Zenon DEF QueuedOnce
  <2>2. ASSUME NEW x \in Threads, OnQueue(runqueue'[k], x)
        PROVE  curthread[e] # x /\ (OnQueue(runqueue'[e], x) => k = e)
    <3>1. CASE x = t
      BY Zenon, <1>1, <2>2, <3>1
    <3>2. CASE x # t
      <4>1. /\ OnQueue(runqueue[k], x)
            /\ OnQueue(runqueue'[e], x) => OnQueue(runqueue[e], x)
        BY Zenon, <2>2, <3>2
      <4> QED
        BY Zenon, <4>1 DEF QueuedOnce
    <3> QED
      BY Zenon, <3>1, <3>2
  <2> QED
    BY Zenon, <2>1, <2>2
<1>8. QueueInv'
  <2> SUFFICES ASSUME NEW k \in Cpus, NEW x \in Threads, OnQueue(runqueue'[k], x)
               PROVE  /\ state[x] \in {"Runnable", "Initial"}
                      /\ \A e \in Cpus : stack[e] = x => e = k
    BY DEF QueueInv
  <2>1. CASE x = t
    BY Zenon, <1>1, <2>1
  <2>2. CASE x # t
    <3>1. OnQueue(runqueue[k], x)
      BY Zenon, <2>2
    <3> QED
      BY Zenon, <3>1 DEF QueueInv
  <2> QED
    BY Zenon, <2>1, <2>2
<1>9. WakeInv'
  <2> SUFFICES ASSUME NEW e \in Cpus
               PROVE  /\ Phase'[e] = "wake" => state[thread[e]] \in {"Waiting", "Initial"}
                      /\ Phase'[e] \in {"wake", "resume"} =>
                           \A k \in Cpus :
                              /\ ~ OnQueue(runqueue'[k], thread[e])
                              /\ /\ Phase'[k] \in {"wake", "resume"}
                                 /\ thread[e] = thread[k]
                                 => e = k
                      /\ Phase'[e] = "resume" =>
                           /\ state[thread[e]] \in {"Runnable", "Initial"}
                           /\ \A k \in Cpus : /\ curthread[k] # thread[e]
                                               /\ stack[k] # thread[e]
    BY DEF WakeInv
  <2>1. /\ Phase'[c] = "kick"
        /\ \A k \in Cpus \ {c} : Phase'[k] = Phase[k]
    OBVIOUS
  <2>2. CASE e = c
    BY Zenon, <2>1, <2>2
  <2>3. CASE e # c
    <3>1. ASSUME Phase[e] \in {"wake", "resume"}, NEW k \in Cpus
          PROVE  ~ OnQueue(runqueue'[k], thread[e])
      <4>1. thread[e] \in Threads /\ thread[e] # t /\ ~ OnQueue(runqueue[k], thread[e])
        BY Zenon, <1>1, <2>3, <3>1 DEF WakeInv
      <4> QED
        BY Zenon, <4>1
    <3> QED
      BY Zenon, <2>1, <2>3, <3>1 DEF WakeInv
  <2> QED
    BY Zenon, <2>2, <2>3
<1> QED
    BY Zenon, <1>5, <1>6, <1>7, <1>8, <1>9 DEF ThreadInv

(* It drops the thread's lock.                                              *)
LEMMA ResumedThreads ==
    ASSUME IInv, NEW c \in Cpus, Phase[c] = "kick",
           lock' = [lock EXCEPT ![thread[c]] = NoCpu],
           thread' = [thread EXCEPT ![c] = NoThread],
           Phase' = [Phase EXCEPT ![c] = "low"],
           UNCHANGED <<curthread, old_thread, stack, runqueue, state>>
    PROVE  ThreadInv'
<1> USE ThreadFacts
<1>1. thread \in [Cpus -> Threads \cup {NoThread}]
    BY Zenon DEF IInv, TypeOK, MachineTypes
<1>2. HoldInv'
    BY <1>1 DEF HoldInv
<1>3. StateInv'
    BY Zenon DEF StateInv
<1>4. PlaceInv' /\ QueuedOnce' /\ QueueInv' /\ InitialInv'
    BY DEF PlaceInv, QueuedOnce, QueueInv, InitialInv
<1>5. WakeInv'
    BY Zenon, <1>1 DEF WakeInv
<1> QED
    BY Zenon, <1>2, <1>3, <1>4, <1>5 DEF ThreadInv

(* The switch: the new thread's stack is nobody's.                          *)
LEMMA SwitchThreads ==
    ASSUME IInv, NEW c \in Cpus, Phase[c] = "switch",
           stack' = [stack EXCEPT ![c] = curthread[c]],
           Phase' = [Phase EXCEPT ![c] = "switched"],
           UNCHANGED <<curthread, old_thread, runqueue, state, lock, thread>>
    PROVE  ThreadInv'
<1> USE ThreadFacts
<1>1. HoldInv'
    BY DEF HoldInv, StateInv
<1>2. StateInv' /\ QueuedOnce'
    BY DEF StateInv, QueuedOnce
<1>3. \A k \in Cpus \ {c} : stack[k] # curthread[c]
    BY DEF HoldInv, PlaceInv
<1>4. PlaceInv'
    BY Zenon, <1>3 DEF PlaceInv
<1>5. QueueInv'
    BY DEF QueueInv, QueuedOnce
<1>6. InitialInv'
    BY Zenon DEF InitialInv
<1>7. WakeInv'
    BY Zenon DEF WakeInv
<1> QED
    BY Zenon, <1>1, <1>2, <1>4, <1>5, <1>6, <1>7 DEF ThreadInv

(* The new thread drops the old one's lock.                                 *)
LEMMA SwitchedThreads ==
    ASSUME IInv, NEW c \in Cpus, Phase[c] = "switched",
           lock' = [lock EXCEPT ![old_thread[c]] = NoCpu],
           old_thread' = [old_thread EXCEPT ![c] = IdleThread(c)],
           Phase' = [Phase EXCEPT ![c] = "low"],
           UNCHANGED <<curthread, stack, runqueue, state, thread>>
    PROVE  ThreadInv'
<1> USE ThreadFacts
<1>1. HoldInv'
    BY DEF HoldInv
<1>2. StateInv'
    BY Zenon DEF StateInv
<1>3. PlaceInv' /\ QueuedOnce' /\ QueueInv' /\ InitialInv'
    BY DEF PlaceInv, QueuedOnce, QueueInv, InitialInv
<1>4. WakeInv'
    BY Zenon DEF WakeInv
<1> QED
    BY Zenon, <1>1, <1>2, <1>3, <1>4 DEF ThreadInv

(* ki_reschedule has chosen a thread: the old one again, ...                *)
LEMMA PickSameThreads ==
    ASSUME IInv, NEW c \in Cpus, Phase[c] = "reschedule",
           state[curthread[c]] = "Running", state' = state,
           IsInjective(runqueue'[c]),
           \A x \in Threads : OnQueue(runqueue'[c], x) <=> OnQueue(runqueue[c], x),
           \A k \in Cpus \ {c} : runqueue'[k] = runqueue[k],
           lock' = [lock EXCEPT ![curthread[c]] = NoCpu],
           old_thread' = [old_thread EXCEPT ![c] = curthread[c]],
           Phase' = [Phase EXCEPT ![c] = "low"],
           UNCHANGED <<curthread, stack, thread>>
    PROVE  ThreadInv'
<1> USE ThreadFacts
<1>1. HoldInv'
    BY DEF HoldInv
<1>2. StateInv'
    BY Zenon DEF StateInv
<1>3. PlaceInv' /\ InitialInv'
    BY DEF PlaceInv, InitialInv
<1>4. QueuedOnce'
    BY ZenonT(30) DEF QueuedOnce
<1>5. QueueInv'
  <2> SUFFICES ASSUME NEW k \in Cpus, NEW x \in Threads, OnQueue(runqueue'[k], x)
               PROVE  /\ state[x] \in {"Runnable", "Initial"}
                      /\ \A e \in Cpus : stack[e] = x => e = k
    BY DEF QueueInv
  <2>1. OnQueue(runqueue[k], x)
    BY ZenonT(30)
  <2> QED
    BY Zenon, <2>1 DEF QueueInv
<1>6. WakeInv'
    BY DEF WakeInv
<1> QED
    BY Zenon, <1>1, <1>2, <1>3, <1>4, <1>5, <1>6 DEF ThreadInv

(* ... or another one, from its runqueue or its idle thread.                *)
LEMMA PickThreads ==
    ASSUME IInv, NEW c \in Cpus, Phase[c] \in {"reschedule", "exit"},
           NEW new \in Threads \cup {c}, new # curthread[c],
           new \in Threads => OnQueue(runqueue[c], new),
           IsInjective(runqueue'[c]),
           \A x \in Threads : OnQueue(runqueue'[c], x) <=>
               /\ x # new
               /\ \/ OnQueue(runqueue[c], x)
                  \/ x = curthread[c] /\ state[x] = "Running",
           \A k \in Cpus \ {c} : runqueue'[k] = runqueue[k],
           \A x \in AllThreads : state'[x] =
               IF x = new THEN "Running"
               ELSE IF x \in Threads /\ x = curthread[c] /\ state[x] = "Running"
                    THEN "Runnable"
               ELSE state[x],
           curthread' = [curthread EXCEPT ![c] = new],
           old_thread' = [old_thread EXCEPT ![c] = curthread[c]],
           Phase' = [Phase EXCEPT ![c] = "switch"],
           UNCHANGED <<stack, thread, lock>>
    PROVE  ThreadInv'
<1> DEFINE old == curthread[c]
<1> USE ThreadFacts
<1>1. /\ old \in Threads \cup {c} /\ stack[c] = old /\ lock[old] = c
      /\ \A k \in Cpus \ {c} : curthread[k] # old /\ stack[k] # old
    BY DEF HoldInv, StateInv, PlaceInv, IdleThread
<1>2. /\ \A k \in Cpus \ {c} : curthread[k] # new /\ stack[k] # new
      /\ new \in Threads => state[new] \in {"Runnable", "Initial"}
    BY SMTT(30), ThreadsAssumption DEF QueuedOnce, QueueInv, HoldInv, StateInv, IdleThread
<1>3. HoldInv'
    BY <1>1 DEF HoldInv
<1>4. StateInv'
    BY SMTT(30), <1>1, <1>2, ThreadsAssumption DEF StateInv, IdleThread
<1>5. PlaceInv'
    BY <1>1, <1>2 DEF PlaceInv, HoldInv
<1>6. QueuedOnce'
  <2>1. \A k \in Cpus : IsInjective(runqueue'[k])
    BY Zenon DEF QueuedOnce
  <2> SUFFICES ASSUME NEW k \in Cpus, NEW d \in Cpus, NEW x \in Threads,
                      OnQueue(runqueue'[k], x)
               PROVE  curthread'[d] # x /\ (OnQueue(runqueue'[d], x) => k = d)
    BY Zenon, <2>1 DEF QueuedOnce
  <2>2. x # new
    <3>1. CASE k = c
      BY Zenon, <3>1
    <3>2. CASE k # c
      <4>1. OnQueue(runqueue[k], x)
        BY Zenon, <3>2
      <4> QED
        BY <3>2, <4>1 DEF QueuedOnce
    <3> QED
      BY Zenon, <3>1, <3>2
  <2>3. CASE x = curthread[c]
    BY SMTT(30), <1>1, <2>2, <2>3 DEF QueuedOnce
  <2>4. CASE x # curthread[c]
    <3>1. /\ OnQueue(runqueue[k], x)
          /\ OnQueue(runqueue'[d], x) => OnQueue(runqueue[d], x)
      BY ZenonT(30), <2>4
    <3>2. d # c => curthread'[d] = curthread[d]
      BY Zenon
    <3> QED
      BY Zenon, <2>2, <3>1, <3>2 DEF QueuedOnce
  <2> QED
    BY Zenon, <2>3, <2>4
<1>7. QueueInv'
    BY SMTT(30), <1>1, <1>2 DEF QueueInv, QueuedOnce
<1>8. InitialInv'
    BY <1>1, <1>2 DEF InitialInv
<1>9. WakeInv'
    BY SMTT(30), <1>1, <1>2, ThreadsAssumption DEF WakeInv
<1> QED
    BY Zenon, <1>3, <1>4, <1>5, <1>6, <1>7, <1>8, <1>9 DEF ThreadInv

(* the run queue with the old thread on it if that is to run again *)
Ready(c) ==
    IF curthread[c] \in Threads /\ state[curthread[c]] = "Running"
    THEN Append(runqueue[c], curthread[c])
    ELSE runqueue[c]

(* It holds the queued threads and that one.                                *)
LEMMA ReadyFacts ==
    ASSUME IInv, NEW c \in Cpus
    PROVE  /\ Ready(c) \in Seq(Threads) /\ IsInjective(Ready(c))
           /\ \A x \in Threads : OnQueue(Ready(c), x) <=>
                 \/ OnQueue(runqueue[c], x)
                 \/ x = curthread[c] /\ state[x] = "Running"
<1> DEFINE old == curthread[c]
           ready == Ready(c)
<1>1. /\ runqueue[c] \in Seq(Threads) /\ IsInjective(runqueue[c])
      /\ \A x \in Threads : OnQueue(runqueue[c], x) => x # old
    BY Zenon, ThreadFacts DEF QueuedOnce
<1>2. CASE old \in Threads /\ state[old] = "Running"
  <2>1. ready = Append(runqueue[c], old)
    BY Zenon, <1>2 DEF Ready
  <2>2. ~ OnQueue(runqueue[c], old)
    BY Zenon, <1>1, <1>2
  <2>3. /\ Append(runqueue[c], old) \in Seq(Threads)
        /\ IsInjective(Append(runqueue[c], old))
        /\ \A x \in Threads : OnQueue(Append(runqueue[c], old), x) <=>
                             OnQueue(runqueue[c], x) \/ x = old
    BY Zenon, <1>1, <1>2, <2>2, AppendDistinct
  <2> QED
    BY Zenon, <1>2, <2>1, <2>3
<1>3. CASE ~ (old \in Threads /\ state[old] = "Running")
  <2>1. ready = runqueue[c]
    BY Zenon, <1>3 DEF Ready
  <2>2. \A x \in Threads : ~ (x = old /\ state[x] = "Running")
    BY Zenon, <1>3
  <2> QED
    BY Zenon, <1>1, <2>1, <2>2
<1> QED
    BY Zenon, <1>2, <1>3

(* A step that keeps every notice.                                          *)
KeepsNotices ==
    /\ UNCHANGED <<runqueue, curthread, reschedule_reason>>
    /\ \A k \in Cpus : interrupt[k] \/ Serving(k) => interrupt'[k] \/ Serving(k)'
    /\ \A k, d \in Cpus : pc[d] = "kick" /\ chosen[d] = k =>
                            interrupt'[k] \/ (pc'[d] = "kick" /\ chosen'[d] = k)

(* It preserves NotifyInv.                                                  *)
LEMMA StillNotified ==
    ASSUME NotifyInv, KeepsNotices
    PROVE  NotifyInv'
BY DEF KeepsNotices, NotifyInv, Notified

(* A step that leaves the queues of DPCs alone and their notices too.       *)
KeepsDpcs ==
    /\ UNCHANGED <<dpc_queue, dpc_cpu>>
    /\ \A k \in Cpus : dpc_queue[k] # <<>> /\ (interrupt[k] \/ Draining(k)) =>
                         interrupt'[k] \/ Draining(k)'

(* It preserves DpcInv.                                                     *)
LEMMA StillServed ==
    ASSUME DpcInv, KeepsDpcs
    PROVE  DpcInv'
<1>1. DpcQueuedOnce'
    BY Zenon DEF KeepsDpcs, DpcInv, DpcQueuedOnce
<1>2. DpcNotified'
    BY Zenon DEF KeepsDpcs, DpcInv, DpcNotified
<1> QED
    BY Zenon, <1>1, <1>2 DEF DpcInv

(* Most steps are of both kinds.                                            *)
LEMMA QuietStep ==
    ASSUME IInv, TypeOK', LocalInv', Quiet, KeepsNotices, DpcInv'
    PROVE  IInv'
BY Zenon, QuietThreads, StillNotified DEF IInv

(* ke_dpc_enqueue at IPL dpc or above.                                      *)
LEMMA EnqueueFacts ==
    ASSUME DpcTypes, DpcQueuedOnce, NEW c \in Cpus, NEW d \in Dpcs,
           NEW raise \in BOOLEAN, Enqueue(c, d, raise)
    PROVE  /\ DpcTypes' /\ DpcQueuedOnce'
           /\ \A k \in Cpus : interrupt[k] => interrupt'[k]
           /\ raise => interrupt'[c]
           /\ \A k \in Cpus : dpc_queue'[k] # <<>> =>
                                 dpc_queue[k] # <<>> \/ interrupt'[k]
<1>1. CASE dpc_cpu[d] = NoCpu
  <2>1. /\ dpc_cpu' = [dpc_cpu EXCEPT ![d] = c]
        /\ dpc_queue' = [dpc_queue EXCEPT ![c] = Append(dpc_queue[c], d)]
        /\ interrupt' = [interrupt EXCEPT ![c] = TRUE]
    BY Zenon, <1>1 DEF Enqueue, DpcTypes
  <2>2. /\ dpc_queue[c] \in Seq(Dpcs) /\ IsInjective(dpc_queue[c])
        /\ ~ OnQueue(dpc_queue[c], d)
    BY Zenon, <1>1, CpusAssumption DEF DpcTypes, DpcQueuedOnce
  <2>3. /\ Append(dpc_queue[c], d) \in Seq(Dpcs)
        /\ IsInjective(Append(dpc_queue[c], d))
        /\ \A x \in Dpcs : OnQueue(Append(dpc_queue[c], d), x) <=>
                             OnQueue(dpc_queue[c], x) \/ x = d
    BY Zenon, <2>2, AppendDistinct
  <2> HIDE DEF Enqueue
  <2>4. DpcTypes'
    BY Zenon, <2>1, <2>3 DEF DpcTypes
  <2>5. DpcQueuedOnce'
    BY <1>1, <2>1, <2>3, CpusAssumption DEF DpcTypes, DpcQueuedOnce
  <2> QED
    BY Zenon, <2>1, <2>4, <2>5 DEF DpcTypes
<1>2. CASE dpc_cpu[d] # NoCpu
  <2>1. /\ UNCHANGED <<dpc_cpu, dpc_queue>>
        /\ interrupt' = [interrupt EXCEPT ![c] = @ \/ raise]
    BY Zenon, <1>2 DEF Enqueue, DpcTypes
  <2> QED
    BY Zenon, <2>1 DEF DpcTypes, DpcQueuedOnce
<1> QED
    BY Zenon, <1>1, <1>2

USE CpusAssumption, ThreadsAssumption

(* a driver's interrupt *)
LEMMA DeviceInterruptStep ==
    ASSUME IInv, NEW c \in Cpus, NEW d \in Deferred, DeviceInterrupt(c, d)
    PROVE  IInv'
<1> USE DEF IInv, TypeOK
<1>1. /\ DpcTypes' /\ DpcQueuedOnce'
      /\ \A k \in Cpus : interrupt[k] => interrupt'[k]
      /\ \A k \in Cpus : dpc_queue'[k] # <<>> =>
                            dpc_queue[k] # <<>> \/ interrupt'[k]
    BY Zenon, EnqueueFacts DEF DeviceInterrupt, Dpcs, DpcInv
<1>2. CpuTypes' /\ ThreadTypes' /\ MachineTypes' /\ DoneTypes'
    BY Zenon DEF CpuTypes, ThreadTypes, MachineTypes, DoneTypes,
       DeviceInterrupt
<1>3. LocalInv'
    BY Zenon DEF DeviceInterrupt, LocalInv, MachineTypes, DoneTypes
<1>4. Quiet
    BY Zenon DEF Quiet, DeviceInterrupt, Phase, MachineTypes
<1>5. KeepsNotices
    BY Zenon, <1>1 DEF KeepsNotices, DeviceInterrupt, Serving, Draining,
       Rescheduling, MachineTypes, DpcTypes, LocalInv
<1>6. DpcInv'
    BY Zenon, <1>1 DEF DeviceInterrupt, DpcInv, DpcNotified, Draining, MachineTypes,
       LocalInv
<1> QED
    BY Zenon, <1>1, <1>2, <1>3, <1>4, <1>5, <1>6, QuietStep

(* the hardclock *)
LEMMA ki_cpu_hardclockStep ==
    ASSUME IInv, NEW c \in Cpus, NEW expired \in BOOLEAN,
           NEW want_timers \in BOOLEAN, ki_cpu_hardclock(c, expired, want_timers)
    PROVE  IInv'
<1> USE DEF IInv, TypeOK
<1>1. /\ DpcTypes' /\ DpcQueuedOnce'
      /\ \A k \in Cpus : interrupt[k] => interrupt'[k]
      /\ \A k \in Cpus : dpc_queue'[k] # <<>> =>
                            dpc_queue[k] # <<>> \/ interrupt'[k]
      /\ expired => interrupt'[c]
  <2>1. CASE want_timers
    BY Zenon, <2>1, EnqueueFacts, DpcAssumption DEF ki_cpu_hardclock,
       Dpcs, DpcInv
  <2>2. CASE ~ want_timers
    <3>1. /\ UNCHANGED <<dpc_queue, dpc_cpu>>
          /\ interrupt' = [interrupt EXCEPT ![c] = @ \/ expired]
      BY Zenon, <2>2 DEF ki_cpu_hardclock
    <3>2. DpcTypes'
      BY Zenon, <3>1 DEF DpcTypes
    <3>3. DpcQueuedOnce'
      BY Zenon, <3>1 DEF DpcInv, DpcQueuedOnce
    <3> QED
      BY Zenon, <3>1, <3>2, <3>3 DEF DpcTypes
  <2> QED
    BY Zenon, <2>1, <2>2
<1>2. CpuTypes'
    BY Zenon DEF ki_cpu_hardclock, CpuTypes, AllThreads, IdleThread
<1>3. ThreadTypes' /\ MachineTypes' /\ DoneTypes'
    BY Zenon DEF ThreadTypes, MachineTypes, DoneTypes, ki_cpu_hardclock
<1>4. LocalInv'
    BY Zenon DEF ki_cpu_hardclock, LocalInv, MachineTypes, DoneTypes
<1>5. Quiet
    BY Zenon DEF Quiet, ki_cpu_hardclock, Phase, MachineTypes
<1>6. ThreadInv'
    BY Zenon, <1>5, QuietThreads
<1>7. NotifyInv'
    BY <1>1 DEF ki_cpu_hardclock, NotifyInv, Notified, Serving, Draining,
       Rescheduling, CpuTypes
<1>8. DpcInv'
    BY Zenon, <1>1 DEF ki_cpu_hardclock, DpcInv, DpcNotified, Draining, MachineTypes,
       LocalInv
<1> QED
    BY Zenon, <1>1, <1>2, <1>3, <1>4, <1>6, <1>7, <1>8

(* a DPC run on the spot *)
LEMMA ke_dpc_enqueueStep ==
    ASSUME IInv, NEW c \in Cpus, ke_dpc_enqueue(c)
    PROVE  IInv'
<1> USE DEF IInv, TypeOK
<1>1. CpuTypes' /\ ThreadTypes' /\ DpcTypes' /\ DoneTypes'
    BY Zenon DEF CpuTypes, ThreadTypes, DpcTypes, DoneTypes, ke_dpc_enqueue
<1>2. MachineTypes'
    BY Zenon DEF ke_dpc_enqueue, MachineTypes, AllThreads, IdleThread, CpuTypes,
       DoneTypes
<1>3. LocalInv'
    BY Zenon DEF ke_dpc_enqueue, LocalInv, MachineTypes, DoneTypes
<1>4. Quiet
    BY Zenon DEF Quiet, ke_dpc_enqueue, Phase, MachineTypes
<1>5. KeepsNotices
    BY Zenon DEF KeepsNotices, ke_dpc_enqueue, Serving, Draining, Rescheduling,
       MachineTypes, DpcTypes, LocalInv
<1>6. DpcInv'
    BY Zenon, StillServed DEF KeepsDpcs, ke_dpc_enqueue, Draining, DpcTypes,
       MachineTypes, LocalInv
<1> QED
    BY Zenon, <1>1, <1>2, <1>3, <1>4, <1>5, <1>6, QuietStep

(* the dispatch interrupt *)
LEMMA InterruptStep ==
    ASSUME IInv, NEW c \in Cpus, Interrupt(c)
    PROVE  IInv'
<1> USE DEF IInv, TypeOK
<1>1. CpuTypes' /\ ThreadTypes' /\ DpcTypes' /\ DoneTypes'
    BY Zenon DEF CpuTypes, ThreadTypes, DpcTypes, DoneTypes, Interrupt
<1>2. MachineTypes'
    BY Zenon DEF Interrupt, MachineTypes, AllThreads, IdleThread, CpuTypes, DoneTypes
<1>3. LocalInv'
    BY Zenon DEF Interrupt, LocalInv, MachineTypes, DoneTypes
<1>4. Quiet
    BY Zenon DEF Quiet, Interrupt, Phase, MachineTypes
<1>5. KeepsNotices
    BY Zenon DEF KeepsNotices, Interrupt, Serving, Draining, Rescheduling,
       MachineTypes, DpcTypes, LocalInv
<1>6. DpcInv'
    BY Zenon, StillServed DEF KeepsDpcs, Interrupt, Draining, DpcTypes, MachineTypes,
       LocalInv
<1> QED
    BY Zenon, <1>1, <1>2, <1>3, <1>4, <1>5, <1>6, QuietStep

(* the next DPC *)
LEMMA DispatchNextStep ==
    ASSUME IInv, NEW c \in Cpus, DispatchNext(c)
    PROVE  IInv'
<1> USE DEF IInv, TypeOK
<1>1. /\ Head(dpc_queue[c]) \in Dpcs /\ Tail(dpc_queue[c]) \in Seq(Dpcs)
      /\ OnQueue(dpc_queue[c], Head(dpc_queue[c]))
      /\ IsInjective(Tail(dpc_queue[c]))
      /\ \A x \in Dpcs : OnQueue(Tail(dpc_queue[c]), x) <=>
             OnQueue(dpc_queue[c], x) /\ x # Head(dpc_queue[c])
    BY Zenon, TailDistinct DEF DispatchNext, DpcInv, DpcTypes, DpcQueuedOnce
<1>2. CpuTypes' /\ ThreadTypes' /\ DoneTypes'
    BY Zenon DEF CpuTypes, ThreadTypes, DoneTypes, DispatchNext
<1>3. DpcTypes'
    BY Zenon, <1>1 DEF DispatchNext, DpcTypes
<1>4. MachineTypes'
    BY Zenon, <1>1 DEF DispatchNext, MachineTypes, AllThreads, IdleThread, CpuTypes,
       DoneTypes
<1>5. LocalInv'
    BY Zenon DEF DispatchNext, LocalInv, MachineTypes, DoneTypes
<1>6. Quiet
    BY Zenon DEF Quiet, DispatchNext, Phase, MachineTypes
<1>7. KeepsNotices
    BY Zenon DEF KeepsNotices, DispatchNext, Serving, Draining, Rescheduling,
       MachineTypes, DpcTypes, LocalInv
<1>8. DpcQueuedOnce'
  <2> SUFFICES ASSUME NEW k \in Cpus
               PROVE  /\ IsInjective(dpc_queue'[k])
                      /\ \A d \in Dpcs : OnQueue(dpc_queue'[k], d) <=> dpc_cpu'[d] = k
    BY Zenon DEF DpcQueuedOnce
  <2> DEFINE first == Head(dpc_queue[c])
  <2>1. \A d \in Dpcs : dpc_cpu'[d] = IF d = first THEN NoCpu ELSE dpc_cpu[d]
    BY Zenon DEF DispatchNext, DpcTypes
  <2>2. dpc_queue'[k] = IF k = c THEN Tail(dpc_queue[c]) ELSE dpc_queue[k]
    BY Zenon DEF DispatchNext, DpcTypes
  <2>3. dpc_cpu[first] = c /\ NoCpu # k
    BY Zenon, <1>1, CpusAssumption DEF DpcInv, DpcQueuedOnce
  <2>4. /\ IsInjective(dpc_queue[k])
        /\ \A d \in Dpcs : OnQueue(dpc_queue[k], d) <=> dpc_cpu[d] = k
    BY Zenon DEF DpcInv, DpcQueuedOnce
  <2> HIDE DEF first, IInv, TypeOK
  <2>5. CASE k = c
    BY Zenon, <1>1, <2>1, <2>2, <2>3, <2>4, <2>5 DEF first
  <2>6. CASE k # c
    BY Zenon, <2>1, <2>2, <2>3, <2>4, <2>6
  <2> QED
    BY Zenon, <2>5, <2>6
<1>9. DpcNotified'
    BY Zenon DEF DispatchNext, DpcInv, DpcNotified, DpcTypes, Draining, MachineTypes,
       LocalInv
<1> QED
    BY Zenon, <1>2, <1>3, <1>4, <1>5, <1>6, <1>7, <1>8, <1>9,
       QuietStep DEF DpcInv

(* no more DPCs *)
LEMMA DispatchEmptyStep ==
    ASSUME IInv, NEW c \in Cpus, DispatchEmpty(c)
    PROVE  IInv'
<1> USE DEF IInv, TypeOK
<1>1. CpuTypes' /\ ThreadTypes' /\ DpcTypes' /\ DoneTypes'
    BY Zenon DEF CpuTypes, ThreadTypes, DpcTypes, DoneTypes, DispatchEmpty
<1>2. MachineTypes'
    BY Zenon DEF DispatchEmpty, MachineTypes, AllThreads, IdleThread, CpuTypes,
       DoneTypes
<1>3. LocalInv'
    BY Zenon DEF DispatchEmpty, LocalInv, MachineTypes, DoneTypes
<1>4. Quiet
    BY Zenon DEF Quiet, DispatchEmpty, Phase, MachineTypes
<1>5. KeepsNotices
    BY Zenon DEF KeepsNotices, DispatchEmpty, Serving, Draining, Rescheduling,
       MachineTypes, DpcTypes, LocalInv
<1>6. DpcInv'
    BY Zenon, StillServed DEF KeepsDpcs, DispatchEmpty, Draining, DpcTypes,
       MachineTypes, LocalInv
<1> QED
    BY Zenon, <1>1, <1>2, <1>3, <1>4, <1>5, <1>6, QuietStep

(* the end of ki_dispatch_dpcs *)
LEMMA DispatchCheckStep ==
    ASSUME IInv, NEW c \in Cpus, DispatchCheck(c)
    PROVE  IInv'
<1> USE DEF IInv, TypeOK
<1>1. CpuTypes' /\ ThreadTypes' /\ DpcTypes' /\ DoneTypes'
    BY Zenon DEF CpuTypes, ThreadTypes, DpcTypes, DoneTypes, DispatchCheck
<1>2. MachineTypes'
    BY Zenon DEF DispatchCheck, MachineTypes, AllThreads, IdleThread, CpuTypes,
       DoneTypes
<1>3. LocalInv'
    BY Zenon DEF DispatchCheck, LocalInv, MachineTypes, DoneTypes
<1>4. Quiet
    BY Zenon DEF Quiet, DispatchCheck, Phase, MachineTypes
<1>5. ThreadInv'
    BY Zenon, <1>4, QuietThreads
<1>6. NotifyInv'
  <2> SUFFICES ASSUME NEW k \in Cpus
               PROVE  reschedule_reason[k] = "Preempted" => Notified(k)'
    BY Zenon DEF NotifyInv, DispatchCheck
  <2>1. CASE k = c
    <3>1. pc'[c] = IF reschedule_reason[c] = "None" THEN "run" ELSE "preempt"
      BY Zenon DEF DispatchCheck, MachineTypes
    <3>2. reschedule_reason[c] = "Preempted" => pc'[c] = "preempt"
      BY <3>1
    <3> QED
      BY Zenon, <2>1, <3>2 DEF Notified, Serving, Rescheduling
  <2>2. CASE k # c
    <3>1. /\ reschedule_reason[k] = "Preempted" => Notified(k)
          /\ interrupt' = interrupt /\ chosen' = chosen
          /\ pc'[k] = pc[k] /\ ret'[k] = ret[k]
      BY Zenon, <2>2 DEF DispatchCheck, NotifyInv, MachineTypes
    <3>2. \A d \in Cpus : pc[d] = "kick" => pc'[d] = "kick"
      BY Zenon DEF DispatchCheck, MachineTypes
    <3> QED
      BY Zenon, <3>1, <3>2 DEF Notified, Serving, Draining, Rescheduling
  <2> QED
    BY Zenon, <2>1, <2>2
<1>7. DpcInv'
    BY Zenon, StillServed DEF KeepsDpcs, DispatchCheck, Draining, DpcTypes,
       MachineTypes, LocalInv
<1> QED
    BY Zenon, <1>1, <1>2, <1>3, <1>5, <1>6, <1>7

(* a callback is over *)
LEMMA CallbackReturnsStep ==
    ASSUME IInv, NEW c \in Cpus, CallbackReturns(c)
    PROVE  IInv'
<1> USE DEF IInv, TypeOK
<1>1. CpuTypes' /\ ThreadTypes' /\ DpcTypes' /\ DoneTypes'
    BY Zenon DEF CpuTypes, ThreadTypes, DpcTypes, DoneTypes, CallbackReturns
<1>2. MachineTypes'
    BY Zenon DEF CallbackReturns, MachineTypes, AllThreads, IdleThread, CpuTypes,
       DoneTypes
<1>3. LocalInv'
    BY Zenon DEF CallbackReturns, LocalInv, MachineTypes, DoneTypes
<1>4. Quiet
    BY Zenon DEF Quiet, CallbackReturns, Phase, MachineTypes
<1>5. KeepsNotices
    BY Zenon DEF KeepsNotices, CallbackReturns, Serving, Draining, Rescheduling,
       MachineTypes, DpcTypes, LocalInv
<1>6. DpcInv'
    BY Zenon, StillServed DEF KeepsDpcs, CallbackReturns, Draining, DpcTypes,
       MachineTypes, LocalInv
<1> QED
    BY Zenon, <1>1, <1>2, <1>3, <1>4, <1>5, <1>6, QuietStep

(* done_thread_dpc has nothing to do *)
LEMMA ReapNoneStep ==
    ASSUME IInv, NEW c \in Cpus, ReapNone(c)
    PROVE  IInv'
<1> USE DEF IInv, TypeOK
<1>1. CpuTypes' /\ ThreadTypes' /\ DpcTypes' /\ DoneTypes'
    BY Zenon DEF CpuTypes, ThreadTypes, DpcTypes, DoneTypes, ReapNone
<1>2. MachineTypes'
    BY Zenon DEF ReapNone, MachineTypes, AllThreads, IdleThread, CpuTypes, DoneTypes
<1>3. LocalInv'
    BY Zenon DEF ReapNone, LocalInv, MachineTypes, DoneTypes
<1>4. Quiet
    BY Zenon DEF Quiet, ReapNone, Phase, MachineTypes
<1>5. KeepsNotices
    BY Zenon DEF KeepsNotices, ReapNone, Serving, Draining, Rescheduling,
       MachineTypes, DpcTypes, LocalInv
<1>6. DpcInv'
    BY Zenon, StillServed DEF KeepsDpcs, ReapNone, Draining, DpcTypes, MachineTypes,
       LocalInv
<1> QED
    BY Zenon, <1>1, <1>2, <1>3, <1>4, <1>5, <1>6, QuietStep

(* done_thread_dpc takes a thread *)
LEMMA ReapFirstStep ==
    ASSUME IInv, NEW c \in Cpus, ReapFirst(c)
    PROVE  IInv'
<1> USE DEF IInv, TypeOK
<1>1. CpuTypes' /\ ThreadTypes' /\ DpcTypes'
    BY Zenon DEF CpuTypes, ThreadTypes, DpcTypes, ReapFirst
<1>2. MachineTypes'
    BY Zenon DEF ReapFirst, MachineTypes, AllThreads, IdleThread, CpuTypes, DoneTypes
<1>3. DoneTypes'
    BY Zenon DEF ReapFirst, DoneTypes, LocalInv, MachineTypes, CpuTypes
<1>4. LocalInv'
    BY Zenon DEF ReapFirst, LocalInv, MachineTypes, DoneTypes
<1>5. Quiet
    BY Zenon DEF Quiet, ReapFirst, Phase, MachineTypes
<1>6. KeepsNotices
    BY Zenon DEF KeepsNotices, ReapFirst, Serving, Draining, Rescheduling,
       MachineTypes, DpcTypes, LocalInv
<1>7. DpcInv'
    BY Zenon, StillServed DEF KeepsDpcs, ReapFirst, Draining, DpcTypes, MachineTypes,
       LocalInv
<1> QED
    BY Zenon, <1>1, <1>2, <1>3, <1>4, <1>5, <1>6, <1>7, QuietStep

(* off the list, first half *)
LEMMA ReapUnlinkStep ==
    ASSUME IInv, NEW c \in Cpus, ReapUnlink(c)
    PROVE  IInv'
<1> USE DEF IInv, TypeOK
<1>1. CpuTypes' /\ ThreadTypes' /\ DpcTypes'
    BY Zenon DEF CpuTypes, ThreadTypes, DpcTypes, ReapUnlink
<1>2. MachineTypes'
    BY Zenon DEF ReapUnlink, MachineTypes, AllThreads, IdleThread, CpuTypes,
       DoneTypes
<1>3. DoneTypes'
    BY SMTT(30) DEF ReapUnlink, DoneTypes, LocalInv, MachineTypes, CpuTypes
<1>4. LocalInv'
    BY Zenon DEF ReapUnlink, LocalInv, MachineTypes, DoneTypes
<1>5. Quiet
    BY Zenon DEF Quiet, ReapUnlink, Phase, MachineTypes
<1>6. KeepsNotices
    BY Zenon DEF KeepsNotices, ReapUnlink, Serving, Draining, Rescheduling,
       MachineTypes, DpcTypes, LocalInv
<1>7. DpcInv'
    BY Zenon, StillServed DEF KeepsDpcs, ReapUnlink, Draining, DpcTypes, MachineTypes,
       LocalInv
<1> QED
    BY Zenon, <1>1, <1>2, <1>3, <1>4, <1>5, <1>6, <1>7, QuietStep

(* off the list, second half *)
LEMMA ReapUnlinkedStep ==
    ASSUME IInv, NEW c \in Cpus, ReapUnlinked(c)
    PROVE  IInv'
<1> USE DEF IInv, TypeOK
<1>1. CpuTypes' /\ ThreadTypes' /\ DpcTypes'
    BY Zenon DEF CpuTypes, ThreadTypes, DpcTypes, ReapUnlinked
<1>2. MachineTypes'
    BY Zenon DEF ReapUnlinked, MachineTypes, AllThreads, IdleThread, CpuTypes,
       DoneTypes
<1>3. DoneTypes'
    BY Zenon DEF ReapUnlinked, DoneTypes, LocalInv, MachineTypes, CpuTypes
<1>4. LocalInv'
    BY Zenon DEF ReapUnlinked, LocalInv, MachineTypes, DoneTypes
<1>5. Quiet
    BY Zenon DEF Quiet, ReapUnlinked, Phase, MachineTypes
<1>6. KeepsNotices
    BY Zenon DEF KeepsNotices, ReapUnlinked, Serving, Draining, Rescheduling,
       MachineTypes, DpcTypes, LocalInv
<1>7. DpcInv'
    BY Zenon, StillServed DEF KeepsDpcs, ReapUnlinked, Draining, DpcTypes,
       MachineTypes, LocalInv
<1> QED
    BY Zenon, <1>1, <1>2, <1>3, <1>4, <1>5, <1>6, <1>7, QuietStep

(* the thread is freed *)
LEMMA ReapReleaseStep ==
    ASSUME IInv, NEW c \in Cpus, ReapRelease(c)
    PROVE  IInv'
<1> USE DEF IInv, TypeOK
<1>1. CpuTypes' /\ ThreadTypes' /\ DpcTypes'
    BY Zenon DEF CpuTypes, ThreadTypes, DpcTypes, ReapRelease
<1>2. MachineTypes'
    BY Zenon DEF ReapRelease, MachineTypes, AllThreads, IdleThread, CpuTypes,
       DoneTypes
<1>3. DoneTypes'
    BY DEF ReapRelease, DoneTypes, LocalInv, MachineTypes, CpuTypes
<1>4. LocalInv'
    BY Zenon DEF ReapRelease, LocalInv, MachineTypes, DoneTypes
<1>5. Quiet
    BY Zenon DEF Quiet, ReapRelease, Phase, MachineTypes
<1>6. KeepsNotices
    BY Zenon DEF KeepsNotices, ReapRelease, Serving, Draining, Rescheduling,
       MachineTypes, DpcTypes, LocalInv
<1>7. DpcInv'
    BY Zenon, StillServed DEF KeepsDpcs, ReapRelease, Draining, DpcTypes,
       MachineTypes, LocalInv
<1> QED
    BY Zenon, <1>1, <1>2, <1>3, <1>4, <1>5, <1>6, <1>7, QuietStep

(* idle_mask *)
LEMMA SetIdleStep ==
    ASSUME IInv, NEW c \in Cpus, SetIdle(c)
    PROVE  IInv'
<1> USE DEF IInv, TypeOK
<1>1. CpuTypes'
    BY Zenon DEF SetIdle, CpuTypes, AllThreads, IdleThread
<1>2. ThreadTypes' /\ DpcTypes' /\ DoneTypes'
    BY Zenon DEF ThreadTypes, DpcTypes, DoneTypes, SetIdle
<1>3. MachineTypes'
    BY Zenon DEF SetIdle, MachineTypes, AllThreads, IdleThread, CpuTypes, DoneTypes
<1>4. LocalInv'
    BY Zenon DEF SetIdle, LocalInv, MachineTypes, DoneTypes
<1>5. Quiet
    BY Zenon DEF Quiet, SetIdle, Phase, MachineTypes
<1>6. KeepsNotices
    BY Zenon DEF KeepsNotices, SetIdle, Serving, Draining, Rescheduling,
       MachineTypes, DpcTypes, LocalInv
<1>7. DpcInv'
    BY Zenon, StillServed DEF KeepsDpcs, SetIdle, Draining, DpcTypes, MachineTypes,
       LocalInv
<1> QED
    BY Zenon, <1>1, <1>2, <1>3, <1>4, <1>5, <1>6, <1>7, QuietStep

(* the link of the last thread *)
LEMMA ExitLinkStep ==
    ASSUME IInv, NEW c \in Cpus, ExitLink(c)
    PROVE  IInv'
<1> USE DEF IInv, TypeOK
<1>1. curthread[c] \in Threads
    BY Zenon DEF ExitLink, ThreadInv, StateInv, Phase
<1>2. CpuTypes' /\ ThreadTypes' /\ DpcTypes'
    BY Zenon DEF CpuTypes, ThreadTypes, DpcTypes, ExitLink
<1>3. MachineTypes'
    BY Zenon DEF ExitLink, MachineTypes, AllThreads, IdleThread, CpuTypes, DoneTypes
<1>4. DoneTypes'
    BY Zenon, <1>1 DEF ExitLink, DoneTypes, LocalInv, MachineTypes, CpuTypes
<1>5. LocalInv'
    BY Zenon DEF ExitLink, LocalInv, MachineTypes, DoneTypes
<1>6. Quiet
    BY Zenon DEF Quiet, ExitLink, Phase, MachineTypes
<1>7. KeepsNotices
    BY Zenon DEF KeepsNotices, ExitLink, Serving, Draining, Rescheduling,
       MachineTypes, DpcTypes, LocalInv
<1>8. DpcInv'
    BY Zenon, StillServed DEF KeepsDpcs, ExitLink, Draining, DpcTypes, MachineTypes,
       LocalInv
<1> QED
    BY Zenon, <1>2, <1>3, <1>4, <1>5, <1>6, <1>7, <1>8, QuietStep

(* the tail, and the DPC *)
LEMMA ExitLinkedStep ==
    ASSUME IInv, NEW c \in Cpus, ExitLinked(c)
    PROVE  IInv'
<1> USE DEF IInv, TypeOK
<1>1. /\ DpcTypes' /\ DpcQueuedOnce'
      /\ \A k \in Cpus : interrupt[k] => interrupt'[k]
      /\ \A k \in Cpus : dpc_queue'[k] # <<>> =>
                            dpc_queue[k] # <<>> \/ interrupt'[k]
    BY Zenon, EnqueueFacts DEF ExitLinked, Dpcs, DpcInv
<1>2. curthread[c] \in Threads
    BY Zenon DEF ExitLinked, ThreadInv, StateInv, Phase
<1>3. CpuTypes' /\ ThreadTypes'
    BY Zenon DEF CpuTypes, ThreadTypes, ExitLinked
<1>4. MachineTypes'
    BY Zenon DEF ExitLinked, MachineTypes, AllThreads, IdleThread, CpuTypes,
       DoneTypes
<1>5. DoneTypes'
    BY Zenon, <1>2 DEF ExitLinked, DoneTypes, LocalInv, MachineTypes, CpuTypes
<1>6. LocalInv'
    BY Zenon DEF ExitLinked, LocalInv, MachineTypes, DoneTypes
<1>7. Quiet
    BY Zenon DEF Quiet, ExitLinked, Phase, MachineTypes
<1>8. KeepsNotices
    BY Zenon, <1>1 DEF KeepsNotices, ExitLinked, Serving, Draining, Rescheduling,
       MachineTypes, DpcTypes, LocalInv
<1>9. DpcInv'
    BY Zenon, <1>1 DEF ExitLinked, DpcInv, DpcNotified, Draining, MachineTypes,
       LocalInv
<1> QED
    BY Zenon, <1>1, <1>3, <1>4, <1>5, <1>6, <1>7, <1>8, <1>9, QuietStep

(* a dead thread meets ki_reschedule *)
LEMMA ExitBeginStep ==
    ASSUME IInv, NEW c \in Cpus, ExitBegin(c)
    PROVE  IInv'
<1> USE DEF IInv, TypeOK
<1>1. CpuTypes' /\ ThreadTypes' /\ DpcTypes'
    BY Zenon DEF CpuTypes, ThreadTypes, DpcTypes, ExitBegin
<1>2. MachineTypes'
    BY Zenon DEF ExitBegin, MachineTypes, AllThreads, IdleThread, CpuTypes, DoneTypes
<1>3. DoneTypes'
    BY Zenon DEF ExitBegin, DoneTypes, LocalInv, MachineTypes, CpuTypes
<1>4. LocalInv'
    BY Zenon DEF ExitBegin, LocalInv, MachineTypes, DoneTypes
<1>5. /\ Phase[c] = "reschedule"
      /\ Phase' = [Phase EXCEPT ![c] = "exit"]
    BY Zenon DEF ExitBegin, Phase, MachineTypes
<1>6. ThreadInv'
    BY Zenon, <1>5, ExitBeginThreads DEF ExitBegin
<1>7. KeepsNotices
    BY Zenon DEF KeepsNotices, ExitBegin, Serving, Draining, Rescheduling,
       MachineTypes, DpcTypes, LocalInv
<1>8. NotifyInv'
    BY Zenon, <1>7, StillNotified
<1>9. DpcInv'
    BY Zenon, StillServed DEF KeepsDpcs, ExitBegin, Draining, DpcTypes, MachineTypes,
       LocalInv
<1> QED
    BY Zenon, <1>1, <1>2, <1>3, <1>4, <1>6, <1>8, <1>9

(* somebody wakes a thread *)
LEMMA BeginWakeStep ==
    ASSUME IInv, NEW c \in Cpus, NEW t \in Threads, BeginWake(c, t),
           pc[c] \in {"run", "callback"}
    PROVE  IInv'
<1> USE DEF IInv, TypeOK
<1>1. CpuTypes' /\ ThreadTypes' /\ DpcTypes' /\ DoneTypes'
    BY Zenon DEF CpuTypes, ThreadTypes, DpcTypes, DoneTypes, BeginWake
<1>2. MachineTypes'
    BY Zenon DEF BeginWake, MachineTypes, AllThreads, IdleThread, CpuTypes, DoneTypes
<1>3. LocalInv'
    BY Zenon DEF BeginWake, LocalInv, MachineTypes, DoneTypes
<1>4. /\ Phase[c] = "low"
      /\ Phase' = [Phase EXCEPT ![c] = "wake"]
    BY Zenon DEF BeginWake, Phase, MachineTypes
<1>5. ThreadInv'
    BY Zenon, <1>4, BeginWakeThreads DEF BeginWake
<1>6. KeepsNotices
    BY Zenon DEF KeepsNotices, BeginWake, Serving, Draining, Rescheduling,
       MachineTypes, DpcTypes, LocalInv
<1>7. NotifyInv'
    BY Zenon, <1>6, StillNotified
<1>8. DpcInv'
    BY Zenon, StillServed DEF KeepsDpcs, BeginWake, Draining, DpcTypes, MachineTypes,
       LocalInv
<1> QED
    BY Zenon, <1>1, <1>2, <1>3, <1>5, <1>7, <1>8

(* the thread is queued *)
LEMMA ki_thread_resume_lockedStep ==
    ASSUME IInv, NEW c \in Cpus, ki_thread_resume_locked(c)
    PROVE  IInv'
<1> USE DEF IInv, TypeOK
<1> DEFINE d == chosen[c]
           q == <<thread[c]>> \o runqueue[d]
<1>1. Phase[c] = "resume" /\ thread[c] \in Threads /\ d \in Cpus
    BY Zenon DEF ki_thread_resume_locked, Phase, MachineTypes, LocalInv
<1>2. /\ q \in Seq(Threads) /\ q # <<>> /\ IsInjective(q)
      /\ \A x \in Threads : OnQueue(q, x) <=> OnQueue(runqueue[d], x) \/ x = thread[c]
  <2>1. /\ IsInjective(runqueue[d]) /\ ~ OnQueue(runqueue[d], thread[c])
        /\ runqueue[d] \in Seq(Threads)
    BY Zenon, <1>1 DEF ThreadInv, QueuedOnce, WakeInv, CpuTypes
  <2> QED
    BY Zenon, <1>1, <2>1, PushDistinct
<1>3. runqueue' = [runqueue EXCEPT ![d] = q]
    BY Zenon, <1>1 DEF ki_thread_resume_locked, CpuTypes
<1> HIDE DEF q
<1>4. /\ runqueue'[d] = q
      /\ \A k \in Cpus \ {d} : runqueue'[k] = runqueue[k]
    BY Zenon, <1>1, <1>3 DEF CpuTypes
<1>5. CpuTypes'
  <2>1. runqueue' \in [Cpus -> Seq(Threads)]
    BY Zenon, <1>2, <1>3 DEF CpuTypes
  <2>2. reschedule_reason' \in [Cpus -> {"None", "Preempted"}]
    BY Zenon DEF ki_thread_resume_locked, CpuTypes
  <2>3. /\ curthread' = curthread /\ old_thread' = old_thread
        /\ idle_mask' = idle_mask
    BY Zenon DEF ki_thread_resume_locked
  <2> QED
    BY Zenon, <2>1, <2>2, <2>3 DEF CpuTypes, AllThreads
<1>6. ThreadTypes' /\ DpcTypes' /\ DoneTypes'
    BY Zenon DEF ThreadTypes, DpcTypes, DoneTypes, ki_thread_resume_locked
<1>7. MachineTypes'
    BY Zenon DEF ki_thread_resume_locked, MachineTypes, AllThreads, IdleThread,
       CpuTypes, DoneTypes
<1>8. LocalInv'
    BY Zenon DEF ki_thread_resume_locked, LocalInv, MachineTypes, DoneTypes
<1>9. /\ Phase[c] = "resume"
      /\ Phase' = [Phase EXCEPT ![c] = "kick"]
    BY Zenon DEF ki_thread_resume_locked, Phase, MachineTypes
<1>10. ThreadInv'
    BY ZenonT(30), <1>1, <1>2, <1>3, <1>4, <1>9, ResumeThreads
    DEF ki_thread_resume_locked
<1>11. NotifyInv'
    BY SMTT(30), <1>1, <1>2, <1>3, <1>4 DEF ki_thread_resume_locked, NotifyInv, Notified,
       Serving, Draining, Rescheduling, CpuTypes, DpcTypes, MachineTypes
<1>12. DpcInv'
    BY Zenon, StillServed DEF KeepsDpcs, ki_thread_resume_locked, Draining, DpcTypes,
       MachineTypes, LocalInv
<1> QED
    BY Zenon, <1>5, <1>6, <1>7, <1>8, <1>10, <1>11, <1>12

(* the interrupt is raised *)
LEMMA ResumeInterruptStep ==
    ASSUME IInv, NEW c \in Cpus, ResumeInterrupt(c)
    PROVE  IInv'
<1> USE DEF IInv, TypeOK
<1>1. CpuTypes' /\ DoneTypes'
    BY Zenon DEF CpuTypes, DoneTypes, ResumeInterrupt
<1>2. ThreadTypes'
    BY Zenon DEF ResumeInterrupt, ThreadTypes, AllThreads, IdleThread, MachineTypes,
       LocalInv, CpuTypes
<1>3. DpcTypes'
    BY Zenon DEF ResumeInterrupt, DpcTypes
<1>4. MachineTypes'
    BY Zenon DEF ResumeInterrupt, MachineTypes, AllThreads, IdleThread, CpuTypes,
       DoneTypes
<1>5. LocalInv'
    BY Zenon DEF ResumeInterrupt, LocalInv, MachineTypes, DoneTypes
<1>6. /\ Phase[c] = "kick"
      /\ Phase' = [Phase EXCEPT ![c] = "low"]
    BY Zenon DEF ResumeInterrupt, Phase, MachineTypes
<1>7. ThreadInv'
    BY Zenon, <1>6, ResumedThreads DEF ResumeInterrupt
<1>8. KeepsNotices
    BY Zenon DEF KeepsNotices, ResumeInterrupt, Serving, Draining, Rescheduling,
       MachineTypes, DpcTypes, LocalInv
<1>9. NotifyInv'
    BY Zenon, <1>8, StillNotified
<1>10. DpcInv'
    BY Zenon, StillServed DEF KeepsDpcs, ResumeInterrupt, Draining, DpcTypes,
       MachineTypes, LocalInv
<1> QED
    BY Zenon, <1>1, <1>2, <1>3, <1>4, <1>5, <1>7, <1>9, <1>10
=============================================================================
