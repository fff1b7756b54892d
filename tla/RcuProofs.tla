------------------------------ MODULE RcuProofs ------------------------------
(* With at most two CPUs a callback waits for every reader.                   *)
EXTENDS Rcu, QueueTheorems, TLAPS

(* the state after initialisation satisfies the invariant *)
LEMMA InitInv == Init => IInv
<1> SUFFICES ASSUME Init PROVE IInv
    OBVIOUS
<1>1. TypeOK
    <2>1. StateTypes
        BY Zenon DEF Init, StateTypes
    <2>2. ListTypes
        BY DEF Init, ListTypes
    <2>3. panic \in BOOLEAN
        BY Zenon DEF Init
    <2>4. RunTypes
        BY <2>3, CallsAssumption DEF Init, RunTypes, CallsAssumption
    <2> QED BY Zenon, <2>1, <2>2, <2>4 DEF TypeOK
<1>2. \A c \in Cpus : /\ next_callbacks[c] = <<>> /\ current_callbacks[c] = <<>>
                      /\ past_callbacks[c] = <<>>
    BY Zenon DEF Init
<1>3. ListInv
    BY Zenon, <1>2, EmptyDistinct DEF ListInv, On
<1>4. reading = [c \in Cpus |-> {}]
    BY Zenon DEF Init
<1> QED
    BY Zenon, <1>1, <1>3, <1>4
       DEF IInv, CurrentInv, NextInv, PastInv, ReadInv, GracePeriod

(* The variables keep their types, with any number of CPUs.                  *)
LEMMA TypeStep == TypeOK /\ [Next]_vars => TypeOK'
<1> SUFFICES ASSUME TypeOK, [Next]_vars PROVE TypeOK'
    OBVIOUS
<1> USE DEF TypeOK, stateVars, listVars
<1>1. CASE UNCHANGED vars
    BY Zenon, <1>1 DEF vars, StateTypes, ListTypes, RunTypes
<1>2. ASSUME NEW c \in Cpus, ke_rcu_read_lock(c) \/ ke_rcu_read_unlock(c)
      PROVE  TypeOK'
    BY Zenon, <1>2
       DEF ke_rcu_read_lock, ke_rcu_read_unlock, StateTypes, ListTypes, RunTypes
<1>3. ASSUME NEW c \in Cpus, ki_rcu_quiet(c) PROVE TypeOK'
    <2>1. StateTypes'
        BY <1>3 DEF ki_rcu_quiet, EndGeneration, start_generation, StateTypes
    <2>2. ListTypes' /\ RunTypes'
        BY Zenon, <1>3 DEF ki_rcu_quiet, ListTypes, RunTypes
    <2> QED BY Zenon, <2>1, <2>2
<1>4. ASSUME NEW c \in Cpus, ki_rcu_quiet_retire(c) PROVE TypeOK'
    <2>1. past_callbacks[c] \o current_callbacks[c] \in Seq(Entries)
        BY Zenon, ConcatElements DEF ListTypes
    <2>2. <<>> \in Seq(Entries)
        OBVIOUS
    <2> QED BY Zenon, <1>4, <2>1, <2>2
           DEF ki_rcu_quiet_retire, StateTypes, ListTypes, RunTypes
<1>5. ASSUME NEW c \in Cpus, ki_rcu_quiet_register(c) PROVE TypeOK'
    <2>1. /\ current_callbacks[c] \o next_callbacks[c] \in Seq(Entries)
          /\ <<>> \in Seq(Entries)
        BY ConcatElements DEF ListTypes
    <2>2. ListTypes'
        BY Zenon, <1>5, <2>1 DEF ki_rcu_quiet_register, ListTypes
    <2>3. \/ UNCHANGED <<quiesced, generation, highest_generation, cpu_generation, panic>>
          \/ /\ cpu_generation' = [cpu_generation EXCEPT ![c] = generation + 1]
             /\ quiesced' \in {quiesced, Cpus}
             /\ generation' \in {generation, generation + 1}
             /\ highest_generation' \in {generation + 1, generation + 2}
             /\ panic' = (highest_generation > generation + 1) \/ panic' = panic
        BY Zenon, <1>5
           DEF ki_rcu_quiet_register, RegisterGeneration, start_generation
    <2>4. StateTypes'
        BY <2>3 DEF StateTypes
    <2>5. panic' \in BOOLEAN
        <3>1. (highest_generation > generation + 1) \in BOOLEAN
            OBVIOUS
        <3> QED BY Zenon, <2>3, <3>1 DEF RunTypes
    <2> QED BY Zenon, <1>5, <2>2, <2>4, <2>5 DEF ki_rcu_quiet_register, RunTypes
<1>6. ASSUME NEW c \in Cpus,
             process_past_callbacks(c) \/ process_past_callbacks_done(c)
      PROVE  TypeOK'
    BY Zenon, <1>6
       DEF process_past_callbacks, process_past_callbacks_done, StateTypes,
           ListTypes, RunTypes
<1>7. ASSUME NEW c \in Cpus, callback(c) PROVE TypeOK'
    <2>1. Tail(past_callbacks[c]) \in Seq(Entries)
        BY <1>7 DEF callback, ListTypes
    <2> QED BY Zenon, <1>7, <2>1 DEF callback, StateTypes, ListTypes, RunTypes
<1>8. ASSUME NEW c \in Cpus, NEW e \in Entries, ke_rcu_call(c, e) PROVE TypeOK'
    <2>1. Append(next_callbacks[c], e) \in Seq(Entries)
        BY DEF ListTypes
    <2>2. calls' \in 0 .. MaxCalls
        BY <1>8, CallsAssumption DEF ke_rcu_call, RunTypes
    <2> QED BY Zenon, <1>8, <2>1, <2>2
           DEF ke_rcu_call, StateTypes, ListTypes, RunTypes
<1>9. ASSUME NEW e \in Entries, Publish(e) PROVE TypeOK'
    BY Zenon, <1>9 DEF Publish, StateTypes, ListTypes, RunTypes
<1> QED
    BY Zenon, <1>1, <1>2, <1>3, <1>4, <1>5, <1>6, <1>7, <1>8, <1>9
       DEF Next, Quiet, Process

(* every step keeps the promise of a generation *)
LEMMA PromiseStep == TypeOK /\ GenerationPromised /\ [Next]_vars => GenerationPromised'
<1> SUFFICES ASSUME TypeOK, GenerationPromised, [Next]_vars
             PROVE  GenerationPromised'
    OBVIOUS
<1> USE DEF TypeOK, stateVars, listVars
<1>1. CASE UNCHANGED <<current_callbacks, quiesced, generation,
                       highest_generation, cpu_generation>>
    BY Zenon, <1>1 DEF GenerationPromised
<1>2. ASSUME NEW c \in Cpus, ki_rcu_quiet(c) PROVE GenerationPromised'
    <2> SUFFICES ASSUME NEW d \in Cpus, current_callbacks[d] # <<>>
                 PROVE  \/ generation' > cpu_generation[d]
                        \/ /\ quiesced' # {}
                           /\ \/ cpu_generation[d] = generation'
                              \/ /\ cpu_generation[d] = generation' + 1
                                 /\ highest_generation' > generation'
        BY Zenon, <1>2 DEF ki_rcu_quiet, GenerationPromised
    <2>1. \/ generation > cpu_generation[d]
          \/ /\ quiesced # {}
             /\ \/ cpu_generation[d] = generation
                \/ /\ cpu_generation[d] = generation + 1
                   /\ highest_generation > generation
        BY Zenon DEF GenerationPromised
    <2>2. \/ /\ generation' = generation /\ highest_generation' = highest_generation
             /\ quiesced # {} => quiesced' # {}
          \/ generation + 1 <= highest_generation /\ generation' = generation + 2
          \/ ~(generation + 1 <= highest_generation) /\ generation' = generation + 1
        BY <1>2 DEF ki_rcu_quiet, EndGeneration, start_generation, StateTypes
    <2> QED BY <2>1, <2>2 DEF StateTypes
<1>3. ASSUME NEW c \in Cpus, ki_rcu_quiet_retire(c) PROVE GenerationPromised'
    <2>1. /\ UNCHANGED <<quiesced, generation, highest_generation, cpu_generation>>
          /\ \A d \in Cpus : \/ current_callbacks'[d] = current_callbacks[d]
                             \/ current_callbacks'[d] = <<>>
        BY Zenon, <1>3 DEF ki_rcu_quiet_retire, ListTypes
    <2> QED BY Zenon, <2>1 DEF GenerationPromised
<1>4. ASSUME NEW c \in Cpus, ki_rcu_quiet_register(c), RegisterGeneration(c),
             \A d \in Cpus : d # c => current_callbacks'[d] = current_callbacks[d]
      PROVE  GenerationPromised'
    <2>1. /\ cpu_generation'[c] = generation + 1
          /\ \A d \in Cpus : d # c => cpu_generation'[d] = cpu_generation[d]
          /\ \/ /\ quiesced # {} /\ quiesced' = quiesced
                /\ generation' = generation /\ highest_generation' = generation + 2
             \/ /\ quiesced = {} /\ quiesced' = Cpus
                /\ generation' = generation + 1
        BY Zenon, <1>4 DEF RegisterGeneration, start_generation, StateTypes
    <2> SUFFICES ASSUME NEW d \in Cpus, current_callbacks'[d] # <<>>
                 PROVE  \/ generation' > cpu_generation'[d]
                        \/ /\ quiesced' # {}
                           /\ \/ cpu_generation'[d] = generation'
                              \/ /\ cpu_generation'[d] = generation' + 1
                                 /\ highest_generation' > generation'
        BY Zenon DEF GenerationPromised
    <2>2. CASE d = c
        BY <2>1, <2>2 DEF StateTypes
    <2>3. CASE d # c
        <3>1. \/ generation > cpu_generation[d]
              \/ /\ quiesced # {}
                 /\ \/ cpu_generation[d] = generation
                    \/ cpu_generation[d] = generation + 1
            BY Zenon, <1>4, <2>3 DEF GenerationPromised
        <3> QED BY <2>1, <2>3, <3>1 DEF StateTypes
    <2> QED BY Zenon, <2>2, <2>3
<1>5. ASSUME NEW c \in Cpus, ki_rcu_quiet_register(c) PROVE GenerationPromised'
    BY Zenon, <1>1, <1>4, <1>5 DEF ki_rcu_quiet_register, ListTypes
<1>6. CASE \E c \in Cpus : Quiet(c)
    BY Zenon, <1>2, <1>3, <1>5, <1>6 DEF Quiet
<1>7. CASE ~ \E c \in Cpus : Quiet(c)
    BY Zenon, <1>1, <1>7
       DEF Next, vars, ke_rcu_read_lock, ke_rcu_read_unlock, ke_rcu_call, Publish,
           Process, process_past_callbacks, callback, process_past_callbacks_done
<1> QED BY Zenon, <1>6, <1>7

(* Every step leaves the line of a CPU's callbacks alone, takes its first    *)
(* one or adds one at its end.                                               *)
LEMMA OrderStep ==
    ASSUME TypeOK, [Next]_vars, NEW d \in Cpus
    PROVE  \/ Line(d)' = Line(d)
           \/ Line(d) # <<>> /\ Line(d)' = Tail(Line(d))
           \/ \E e \in Entries : Line(d)' = Append(Line(d), e)
<1> USE DEF TypeOK, ListTypes, stateVars, listVars
<1> DEFINE past == past_callbacks[d]
           current == current_callbacks[d]
           next == next_callbacks[d]
<1>1. past \in Seq(Entries) /\ current \in Seq(Entries) /\ next \in Seq(Entries)
    BY Zenon
<1>2. past \o current \in Seq(Entries)
    BY Zenon, <1>1, ConcatElements
<1>3. ASSUME NEW c \in Cpus, ki_rcu_quiet_retire(c)
      PROVE  Line(d)' = Line(d)
    <2>1. \/ UNCHANGED <<past, current, next>>
          \/ past' = past \o current /\ current' = <<>> /\ next' = next
        BY Zenon, <1>3 DEF ki_rcu_quiet_retire
    <2>2. (past \o current) \o <<>> = past \o current
        BY Zenon, <1>2, ConcatEmpty
    <2> QED BY Zenon, <2>1, <2>2 DEF Line
<1>4. ASSUME NEW c \in Cpus, ki_rcu_quiet_register(c)
      PROVE  Line(d)' = Line(d)
    <2>1. \/ UNCHANGED <<past, current, next>>
          \/ /\ current = <<>> /\ current' = current \o next
             /\ next' = <<>> /\ past' = past
        BY Zenon, <1>4 DEF ki_rcu_quiet_register
    <2>2. /\ past \o <<>> = past /\ <<>> \o next = next
          /\ (past \o next) \o <<>> = past \o next
        BY Zenon, <1>1, ConcatEmpty, ConcatElements
    <2> QED BY Zenon, <2>1, <2>2 DEF Line
<1>5. ASSUME NEW c \in Cpus, callback(c)
      PROVE  \/ Line(d)' = Line(d)
             \/ Line(d) # <<>> /\ Line(d)' = Tail(Line(d))
    <2>1. \/ UNCHANGED <<past, current, next>>
          \/ /\ past # <<>> /\ past' = Tail(past)
             /\ current' = current /\ next' = next
        BY Zenon, <1>5 DEF callback
    <2>2. past # <<>> => /\ past \o current # <<>>
                         /\ Tail(past) \o current = Tail(past \o current)
        BY Zenon, <1>1, TailConcat
    <2>3. past # <<>> => /\ (past \o current) \o next # <<>>
                         /\ Tail(past \o current) \o next =
                               Tail((past \o current) \o next)
        BY Zenon, <1>1, <1>2, <2>2, TailConcat
    <2> QED BY Zenon, <2>1, <2>2, <2>3 DEF Line
<1>6. ASSUME NEW c \in Cpus, NEW e \in Entries, ke_rcu_call(c, e)
      PROVE  Line(d)' = Line(d) \/ Line(d)' = Append(Line(d), e)
    <2>1. \/ UNCHANGED <<past, current, next>>
          \/ next' = Append(next, e) /\ current' = current /\ past' = past
        BY Zenon, <1>6 DEF ke_rcu_call
    <2>2. (past \o current) \o Append(next, e) = Append((past \o current) \o next, e)
        <3>1. \A q, r \in Seq(Entries) : q \o Append(r, e) = Append(q \o r, e)
            BY AppendConcat
        <3> QED BY Zenon, <1>1, <1>2, <3>1
    <2> QED BY Zenon, <2>1, <2>2 DEF Line
<1>7. CASE \/ \E c \in Cpus : \/ ki_rcu_quiet_retire(c) \/ ki_rcu_quiet_register(c)
                              \/ callback(c)
           \/ \E c \in Cpus, e \in Entries : ke_rcu_call(c, e)
    BY Zenon, <1>3, <1>4, <1>5, <1>6, <1>7
<1>8. CASE ~ \/ \E c \in Cpus : \/ ki_rcu_quiet_retire(c) \/ ki_rcu_quiet_register(c)
                                \/ callback(c)
             \/ \E c \in Cpus, e \in Entries : ke_rcu_call(c, e)
    <2>1. UNCHANGED <<past_callbacks, current_callbacks, next_callbacks>>
        BY Zenon, <1>8
           DEF Next, vars, ke_rcu_read_lock, ke_rcu_read_unlock, Publish, Quiet,
               ki_rcu_quiet, Process, process_past_callbacks,
               process_past_callbacks_done
    <2> QED BY Zenon, <2>1 DEF Line
<1> QED BY Zenon, <1>7, <1>8

(* a read section reaches only what is live, and nothing on a list is *)
LEMMA LockStep ==
    ASSUME IInv, TypeOK', NEW c \in Cpus, ke_rcu_read_lock(c)
    PROVE  IInv'
<1> USE DEF IInv, ke_rcu_read_lock, stateVars, listVars
<1>1. ListInv'
    BY Zenon DEF ListInv, On
<1>2. \A d \in Cpus : \A e \in reading'[d] :
         e \in reading[d] \/ (d = c /\ e \in Entries /\ stage[e] = "live")
    BY Zenon DEF TypeOK, RunTypes
<1>3. \A d \in Cpus : \A e \in Entries : stage[e] = "live" => ~On(d, e)
    BY Zenon DEF ListInv
<1>4. CurrentInv' /\ NextInv' /\ PastInv'
    BY Zenon, <1>2, <1>3 DEF CurrentInv, NextInv, PastInv, On
<1>5. ReadInv'
    BY Zenon DEF ReadInv, TypeOK, RunTypes
<1>6. GracePeriod'
    BY Zenon, <1>2 DEF GracePeriod
<1> QED BY Zenon, <1>1, <1>4, <1>5, <1>6

(* leaving a read section only takes readers away *)
LEMMA UnlockStep ==
    ASSUME IInv, TypeOK', NEW c \in Cpus, ke_rcu_read_unlock(c)
    PROVE  IInv'
<1> USE DEF IInv, ke_rcu_read_unlock, stateVars, listVars
<1>1. ListInv'
    BY Zenon DEF ListInv, On
<1>2. \A d \in Cpus : \A e \in reading'[d] : e \in reading[d]
    BY Zenon DEF TypeOK, RunTypes
<1>3. CurrentInv' /\ NextInv' /\ PastInv'
    BY Zenon, <1>2 DEF CurrentInv, NextInv, PastInv
<1>4. ReadInv'
    BY Zenon DEF ReadInv, TypeOK, RunTypes
<1>5. GracePeriod'
    BY Zenon, <1>2 DEF GracePeriod
<1> QED BY Zenon, <1>1, <1>3, <1>4, <1>5

(* ke_rcu_call puts a datum that is on no list on the next list *)
LEMMA CallStep ==
    ASSUME IInv, TypeOK', NEW c \in Cpus, NEW e \in Entries, ke_rcu_call(c, e)
    PROVE  IInv'
<1> USE DEF IInv, ke_rcu_call, stateVars
<1>1. /\ next_callbacks[c] \in Seq(Entries) /\ IsInjective(next_callbacks[c])
      /\ \A d \in Cpus : ~On(d, e)
    BY Zenon DEF ListInv, TypeOK, ListTypes
<1>2. /\ Append(next_callbacks[c], e) \in Seq(Entries)
      /\ IsInjective(Append(next_callbacks[c], e))
      /\ \A x \in Entries : OnQueue(Append(next_callbacks[c], e), x)
                            <=> OnQueue(next_callbacks[c], x) \/ x = e
    BY <1>1, AppendDistinct DEF On
<1>3. /\ next_callbacks'[c] = Append(next_callbacks[c], e)
      /\ \A d \in Cpus : d # c => next_callbacks'[d] = next_callbacks[d]
    BY Zenon DEF TypeOK, ListTypes
<1>4. /\ \A d \in Cpus : IsInjective(next_callbacks'[d])
      /\ \A d \in Cpus, x \in Entries :
            OnQueue(next_callbacks[d], x)' <=>
               OnQueue(next_callbacks[d], x) \/ (d = c /\ x = e)
    <2>1. ASSUME NEW d \in Cpus
          PROVE  /\ IsInjective(next_callbacks'[d])
                 /\ \A x \in Entries :
                       OnQueue(next_callbacks[d], x)' <=>
                          OnQueue(next_callbacks[d], x) \/ (d = c /\ x = e)
        <3>1. CASE d = c
            BY Zenon, <1>2, <1>3, <3>1
        <3>2. CASE d # c
            BY Zenon, <1>3, <3>2 DEF ListInv
        <3> QED BY Zenon, <3>1, <3>2
    <2> QED BY Zenon, <2>1
<1>5. /\ stage'[e] = "retired"
      /\ \A x \in Entries : x # e => stage'[x] = stage[x]
    BY Zenon DEF TypeOK, RunTypes
<1>6. ListInv'
    BY <1>1, <1>4, <1>5 DEF ListInv, On
<1>7. CurrentInv' /\ PastInv' /\ ReadInv'
    BY Zenon DEF CurrentInv, PastInv, ReadInv
<1>8. NextInv'
    BY Zenon, <1>4 DEF NextInv, TypeOK, RunTypes
<1>9. \A d \in Cpus : reading[d] \subseteq Entries
    BY Zenon DEF TypeOK, RunTypes
<1>10. GracePeriod'
    BY Zenon, <1>5, <1>9 DEF GracePeriod
<1> QED BY Zenon, <1>6, <1>7, <1>8, <1>10

(* a reclaimed datum is on no list and read by nobody *)
LEMMA PublishStep ==
    ASSUME IInv, TypeOK', NEW e \in Entries, Publish(e)
    PROVE  IInv'
<1> USE DEF IInv, Publish, stateVars, listVars
<1>1. /\ stage'[e] = "live" /\ stage[e] = "reclaimed"
      /\ \A x \in Entries : x # e => stage'[x] = stage[x]
    BY Zenon DEF TypeOK, RunTypes
<1>2. ListInv'
    BY Zenon, <1>1 DEF ListInv, On
<1>3. CurrentInv' /\ NextInv' /\ PastInv' /\ ReadInv'
    BY Zenon DEF CurrentInv, NextInv, PastInv, ReadInv
<1>4. \A d \in Cpus : reading[d] \subseteq Entries
    BY Zenon DEF TypeOK, RunTypes
<1>5. GracePeriod'
    BY Zenon, <1>1, <1>4 DEF GracePeriod
<1> QED BY Zenon, <1>2, <1>3, <1>5

(* A CPU that quiesces reads nothing.  Of two CPUs, the other one is then    *)
(* the only one that can still hold up the generation.                       *)
LEMMA QuietStep ==
    ASSUME IInv, TypeOK', AtMostTwo, NEW c \in Cpus, ki_rcu_quiet(c)
    PROVE  IInv'
<1> USE DEF IInv, listVars
<1>1. /\ pc[c] = "run" /\ reading[c] = {}
      /\ pc' = [pc EXCEPT ![c] = "retire"]
      /\ UNCHANGED <<cpu_generation, listVars, dpc, stage, reading, calls, panic>>
    BY Zenon DEF ki_rcu_quiet
<1> USE <1>1
<1>2. \/ quiesced' = quiesced \ {c} /\ quiesced' # {} /\ generation' = generation
      \/ quiesced = {c} /\ quiesced' \in {{}, Cpus}
      \/ c \notin quiesced /\ quiesced' = quiesced /\ generation' = generation
    BY Zenon DEF ki_rcu_quiet, EndGeneration, start_generation, stateVars
<1>3. ListInv' /\ PastInv' /\ GracePeriod'
    BY Zenon DEF ListInv, On, PastInv, GracePeriod
<1>4. ReadInv'
    BY Zenon DEF ReadInv, TypeOK, RunTypes
<1>5. \A d \in Cpus : reading[d] # {} => d # c
    OBVIOUS
<1>6. CurrentInv'
    <2> SUFFICES ASSUME NEW b \in Cpus, NEW d \in Cpus, NEW e \in reading[d],
                        OnQueue(current_callbacks[b], e)
                 PROVE  b # d /\ d \in quiesced' /\ generation' <= cpu_generation[b]
        BY Zenon DEF CurrentInv
    <2>1. b # d /\ d \in quiesced /\ generation <= cpu_generation[b] /\ d # c
        BY Zenon, <1>5 DEF CurrentInv
    <2> QED BY <1>2, <2>1
<1>7. NextInv'
    <2> SUFFICES ASSUME NEW b \in Cpus, NEW d \in Cpus, NEW e \in reading[d],
                        pc'[b] \in {"retire", "register"},
                        OnQueue(next_callbacks[b], e)
                 PROVE  b # d /\ (quiesced' = {} \/ d \in quiesced')
        BY Zenon DEF NextInv
    <2>1. d # c
        BY Zenon, <1>5
    <2>2. CASE b = c
        <3>1. quiesced \subseteq Cpus /\ quiesced' \subseteq Cpus
            BY Zenon DEF TypeOK, StateTypes
        <3>2. \A x \in Cpus : x # c => x = d
            BY Zenon, <2>1 DEF AtMostTwo
        <3> QED BY Zenon, <1>2, <2>1, <2>2, <3>1, <3>2
    <2>3. CASE b # c
        <3>1. b # d
            BY Zenon, <2>3 DEF NextInv, TypeOK, RunTypes
        <3> QED BY Zenon, <2>1, <2>3, <3>1 DEF AtMostTwo
    <2> QED BY Zenon, <2>2, <2>3
<1> QED BY Zenon, <1>3, <1>4, <1>6, <1>7

(* a current callback whose generation is over has no reader left *)
LEMMA RetireStep ==
    ASSUME IInv, TypeOK', NEW c \in Cpus, ki_rcu_quiet_retire(c)
    PROVE  IInv'
<1> USE DEF IInv, stateVars
<1>1. /\ pc[c] = "retire" /\ pc' = [pc EXCEPT ![c] = "register"]
      /\ UNCHANGED <<stateVars, cpu_generation, next_callbacks, stage, reading,
                     calls, panic>>
    BY Zenon DEF ki_rcu_quiet_retire
<1> USE <1>1
<1>2. CASE ~(current_callbacks[c] # <<>> /\ GenerationOver(c))
    <2>1. UNCHANGED <<past_callbacks, current_callbacks, dpc>>
        BY <1>2, Zenon DEF ki_rcu_quiet_retire
    <2>2. ListInv' /\ CurrentInv' /\ PastInv' /\ GracePeriod'
        BY Zenon, <2>1 DEF ListInv, On, CurrentInv, PastInv, GracePeriod
    <2>3. NextInv' /\ ReadInv'
        BY Zenon, <2>1 DEF NextInv, ReadInv, TypeOK, RunTypes
    <2> QED BY Zenon, <2>2, <2>3
<1>3. CASE current_callbacks[c] # <<>> /\ GenerationOver(c)
    <2> DEFINE q == past_callbacks[c] \o current_callbacks[c]
    <2>1. /\ past_callbacks' = [past_callbacks EXCEPT ![c] = q]
          /\ current_callbacks' = [current_callbacks EXCEPT ![c] = <<>>]
          /\ dpc' = [dpc EXCEPT ![c] = TRUE]
        BY <1>3, Zenon DEF ki_rcu_quiet_retire
    <2>2. /\ past_callbacks[c] \in Seq(Entries) /\ IsInjective(past_callbacks[c])
          /\ current_callbacks[c] \in Seq(Entries)
          /\ IsInjective(current_callbacks[c])
          /\ \A x \in Entries : ~(OnQueue(past_callbacks[c], x)
                                   /\ OnQueue(current_callbacks[c], x))
        BY Zenon DEF ListInv, TypeOK, ListTypes
    <2>3. /\ q \in Seq(Entries) /\ IsInjective(q)
          /\ \A x \in Entries : OnQueue(q, x) <=>
                OnQueue(past_callbacks[c], x) \/ OnQueue(current_callbacks[c], x)
        BY Zenon, <2>2, ConcatDistinct
    <2> HIDE DEF q
    <2>4. /\ past_callbacks'[c] = q /\ current_callbacks'[c] = <<>>
          /\ \A d \in Cpus : d # c => /\ past_callbacks'[d] = past_callbacks[d]
                                      /\ current_callbacks'[d] = current_callbacks[d]
        BY Zenon, <2>1 DEF TypeOK, ListTypes
    <2>5. /\ \A x \in Entries : ~OnQueue(current_callbacks'[c], x)
          /\ IsInjective(current_callbacks'[c])
        BY Zenon, <2>4, EmptyDistinct
    <2>6. \A d \in Cpus : \A x \in Entries : On(d, x)' <=> On(d, x)
        <3>1. ASSUME NEW d \in Cpus, NEW x \in Entries
              PROVE  On(d, x)' <=> On(d, x)
            <4>1. CASE d = c
                BY Zenon, <2>3, <2>4, <2>5, <4>1 DEF On
            <4>2. CASE d # c
                BY Zenon, <2>4, <4>2 DEF On
            <4> QED BY Zenon, <4>1, <4>2
        <3> QED BY Zenon, <3>1
    <2>7. ListInv'
        <3>1. ASSUME NEW d \in Cpus
              PROVE  /\ IsInjective(next_callbacks'[d])
                     /\ IsInjective(current_callbacks'[d])
                     /\ IsInjective(past_callbacks'[d])
            BY Zenon, <2>3, <2>4, <2>5 DEF ListInv
        <3>2. ASSUME NEW d \in Cpus, NEW e \in Entries
              PROVE  /\ OnQueue(next_callbacks'[d], e) =>
                           /\ ~OnQueue(current_callbacks'[d], e)
                           /\ ~OnQueue(past_callbacks'[d], e)
                     /\ OnQueue(current_callbacks'[d], e) =>
                           ~OnQueue(past_callbacks'[d], e)
            <4>1. CASE d = c
                BY Zenon, <2>3, <2>4, <2>5, <4>1 DEF ListInv
            <4>2. CASE d # c
                BY Zenon, <2>4, <4>2 DEF ListInv
            <4> QED BY Zenon, <4>1, <4>2
        <3> QED BY Zenon, <2>6, <3>1, <3>2 DEF ListInv
    <2>8. CurrentInv'
        <3> SUFFICES ASSUME NEW b \in Cpus, NEW d \in Cpus, NEW e \in reading[d],
                            OnQueue(current_callbacks'[b], e)
                     PROVE  b # d /\ d \in quiesced /\ generation <= cpu_generation[b]
            BY Zenon DEF CurrentInv
        <3>1. b # c
            BY Zenon, <2>4, EmptyDistinct
        <3> QED BY Zenon, <2>4, <3>1 DEF CurrentInv
    <2>9. PastInv'
        <3> SUFFICES ASSUME NEW b \in Cpus, NEW d \in Cpus, NEW e \in reading[d],
                            OnQueue(past_callbacks'[b], e)
                     PROVE  FALSE
            BY Zenon DEF PastInv
        <3>1. b = c
            BY Zenon, <2>4 DEF PastInv
        <3>2. e \in Entries
            BY Zenon DEF TypeOK, RunTypes
        <3>3. OnQueue(current_callbacks[c], e)
            BY Zenon, <2>3, <2>4, <3>1, <3>2 DEF PastInv
        <3>4. generation <= cpu_generation[c]
            BY Zenon, <3>3 DEF CurrentInv
        <3> QED BY <1>3, <3>4 DEF GenerationOver, TypeOK, StateTypes
    <2>10. NextInv' /\ ReadInv' /\ GracePeriod'
        BY Zenon DEF NextInv, ReadInv, GracePeriod, TypeOK, RunTypes
    <2> QED BY Zenon, <2>7, <2>8, <2>9, <2>10
<1> QED BY Zenon, <1>2, <1>3

(* The callbacks registered wait for a reader either in a generation begun   *)
(* now, which every CPU must quiesce in, or in the one after the generation  *)
(* in progress, in which that reader has yet to quiesce.                     *)
LEMMA RegisterStep ==
    ASSUME IInv, TypeOK', NEW c \in Cpus, ki_rcu_quiet_register(c)
    PROVE  IInv'
<1> USE DEF IInv
<1>1. /\ pc[c] = "register" /\ pc' = [pc EXCEPT ![c] = "run"]
      /\ UNCHANGED <<past_callbacks, dpc, stage, reading, calls>>
    BY Zenon DEF ki_rcu_quiet_register
<1> USE <1>1
<1>2. ReadInv' /\ PastInv' /\ GracePeriod'
    BY Zenon DEF ReadInv, PastInv, GracePeriod, TypeOK, RunTypes
<1>3. CASE ~(current_callbacks[c] = <<>> /\ next_callbacks[c] # <<>>)
    <2>1. UNCHANGED <<current_callbacks, next_callbacks, cpu_generation, quiesced,
                      generation, highest_generation, panic>>
        BY <1>3, Zenon DEF ki_rcu_quiet_register, stateVars
    <2>2. ListInv' /\ CurrentInv'
        BY Zenon, <2>1 DEF ListInv, On, CurrentInv
    <2>3. NextInv'
        BY Zenon, <2>1 DEF NextInv, TypeOK, RunTypes
    <2> QED BY Zenon, <1>2, <2>2, <2>3
<1>4. CASE current_callbacks[c] = <<>> /\ next_callbacks[c] # <<>>
    <2> DEFINE q == current_callbacks[c] \o next_callbacks[c]
    <2>1. /\ current_callbacks' = [current_callbacks EXCEPT ![c] = q]
          /\ next_callbacks' = [next_callbacks EXCEPT ![c] = <<>>]
          /\ RegisterGeneration(c)
        BY Zenon, <1>4 DEF ki_rcu_quiet_register
    <2>2. /\ cpu_generation' = [cpu_generation EXCEPT ![c] = generation + 1]
          /\ \/ /\ quiesced # {} /\ quiesced' = quiesced
                /\ generation' = generation
                /\ highest_generation' = generation + 2
             \/ /\ quiesced = {} /\ quiesced' = Cpus
                /\ generation' = generation + 1
                /\ highest_generation' = generation + 1
        BY Zenon, <2>1 DEF RegisterGeneration, start_generation
    <2>3. /\ current_callbacks[c] \in Seq(Entries) /\ IsInjective(current_callbacks[c])
          /\ next_callbacks[c] \in Seq(Entries) /\ IsInjective(next_callbacks[c])
          /\ \A x \in Entries : ~(OnQueue(current_callbacks[c], x)
                                   /\ OnQueue(next_callbacks[c], x))
        BY Zenon DEF ListInv, TypeOK, ListTypes
    <2>4. /\ q \in Seq(Entries) /\ IsInjective(q)
          /\ \A x \in Entries : OnQueue(q, x) <=>
                OnQueue(current_callbacks[c], x) \/ OnQueue(next_callbacks[c], x)
        BY Zenon, <2>3, ConcatDistinct
    <2>5. \A x \in Entries : OnQueue(q, x) <=> OnQueue(next_callbacks[c], x)
        BY Zenon, <1>4, <2>4, EmptyDistinct
    <2> HIDE DEF q
    <2>6. /\ current_callbacks'[c] = q /\ next_callbacks'[c] = <<>>
          /\ cpu_generation'[c] = generation + 1
          /\ \A d \in Cpus : d # c => /\ current_callbacks'[d] = current_callbacks[d]
                                      /\ next_callbacks'[d] = next_callbacks[d]
                                      /\ cpu_generation'[d] = cpu_generation[d]
        BY Zenon, <2>1, <2>2 DEF TypeOK, ListTypes, StateTypes
    <2>7. /\ \A x \in Entries : ~OnQueue(next_callbacks'[c], x)
          /\ IsInjective(next_callbacks'[c])
        BY Zenon, <2>6, EmptyDistinct
    <2>8. /\ \A x \in Entries : ~OnQueue(current_callbacks[c], x)
        BY Zenon, <1>4, EmptyDistinct
    <2>9. \A d \in Cpus : \A x \in Entries : On(d, x)' <=> On(d, x)
        <3>1. ASSUME NEW d \in Cpus, NEW x \in Entries
              PROVE  On(d, x)' <=> On(d, x)
            <4>1. CASE d = c
                BY Zenon, <2>5, <2>6, <2>7, <2>8, <4>1 DEF On
            <4>2. CASE d # c
                BY Zenon, <2>6, <4>2 DEF On
            <4> QED BY Zenon, <4>1, <4>2
        <3> QED BY Zenon, <3>1
    <2>10. ListInv'
        <3>1. ASSUME NEW d \in Cpus
              PROVE  /\ IsInjective(next_callbacks'[d])
                     /\ IsInjective(current_callbacks'[d])
                     /\ IsInjective(past_callbacks'[d])
            BY Zenon, <2>4, <2>6, <2>7 DEF ListInv
        <3>2. ASSUME NEW d \in Cpus, NEW e \in Entries
              PROVE  /\ OnQueue(next_callbacks'[d], e) =>
                           /\ ~OnQueue(current_callbacks'[d], e)
                           /\ ~OnQueue(past_callbacks'[d], e)
                     /\ OnQueue(current_callbacks'[d], e) =>
                           ~OnQueue(past_callbacks'[d], e)
            <4>1. CASE d = c
                BY Zenon, <2>5, <2>6, <2>7, <4>1 DEF ListInv
            <4>2. CASE d # c
                BY Zenon, <2>6, <4>2 DEF ListInv
            <4> QED BY Zenon, <4>1, <4>2
        <3> QED BY Zenon, <2>9, <3>1, <3>2 DEF ListInv
    <2>11. CurrentInv'
        <3> SUFFICES ASSUME NEW b \in Cpus, NEW d \in Cpus, NEW e \in reading[d],
                            OnQueue(current_callbacks'[b], e)
                     PROVE  /\ b # d /\ d \in quiesced'
                            /\ generation' <= cpu_generation'[b]
            BY Zenon DEF CurrentInv
        <3>1. e \in Entries
            BY Zenon DEF TypeOK, RunTypes
        <3>2. CASE b = c
            <4>1. c # d /\ (quiesced = {} \/ d \in quiesced)
                BY Zenon, <2>5, <2>6, <3>1, <3>2 DEF NextInv
            <4>2. generation' <= generation + 1
                BY <2>2 DEF TypeOK, StateTypes
            <4> QED BY Zenon, <2>2, <2>6, <3>2, <4>1, <4>2
        <3>3. CASE b # c
            <4>1. b # d /\ d \in quiesced /\ generation <= cpu_generation[b]
                BY Zenon, <2>6, <3>3 DEF CurrentInv
            <4> QED BY Zenon, <2>2, <2>6, <3>3, <4>1
        <3> QED BY Zenon, <3>2, <3>3
    <2>12. NextInv'
        <3> SUFFICES ASSUME NEW b \in Cpus, NEW d \in Cpus, NEW e \in reading[d],
                            pc'[b] \in {"retire", "register"},
                            OnQueue(next_callbacks'[b], e)
                     PROVE  b # d /\ (quiesced' = {} \/ d \in quiesced')
            BY Zenon DEF NextInv
        <3>1. b # c /\ pc'[b] = pc[b]
            BY Zenon DEF TypeOK, RunTypes
        <3> QED BY Zenon, <2>2, <2>6, <3>1 DEF NextInv
    <2> QED BY Zenon, <1>2, <2>10, <2>11, <2>12
<1> QED BY Zenon, <1>3, <1>4

(* the DPC begins *)
LEMMA ProcessStep ==
    ASSUME IInv, TypeOK', NEW c \in Cpus, process_past_callbacks(c)
    PROVE  IInv'
<1> USE DEF IInv, process_past_callbacks, stateVars, listVars
<1>1. ListInv' /\ CurrentInv' /\ PastInv' /\ GracePeriod'
    BY Zenon DEF ListInv, On, CurrentInv, PastInv, GracePeriod
<1>2. NextInv' /\ ReadInv'
    BY Zenon DEF NextInv, ReadInv, TypeOK, RunTypes
<1> QED BY Zenon, <1>1, <1>2

(* the DPC ends *)
LEMMA DoneStep ==
    ASSUME IInv, TypeOK', NEW c \in Cpus, process_past_callbacks_done(c)
    PROVE  IInv'
<1> USE DEF IInv, process_past_callbacks_done, stateVars, listVars
<1>1. ListInv' /\ CurrentInv' /\ PastInv' /\ GracePeriod'
    BY Zenon DEF ListInv, On, CurrentInv, PastInv, GracePeriod
<1>2. NextInv' /\ ReadInv'
    BY Zenon DEF NextInv, ReadInv, TypeOK, RunTypes
<1> QED BY Zenon, <1>1, <1>2

(* the callback that runs is on no list afterwards, and no one reads its     *)
(* datum                                                                     *)
LEMMA CallbackStep ==
    ASSUME IInv, TypeOK', NEW c \in Cpus, callback(c)
    PROVE  IInv'
<1> USE DEF IInv
<1> DEFINE q == past_callbacks[c]
           h == Head(q)
<1>1. /\ q # <<>> /\ past_callbacks' = [past_callbacks EXCEPT ![c] = Tail(q)]
      /\ stage' = [stage EXCEPT ![h] = "reclaimed"]
      /\ UNCHANGED <<quiesced, generation, highest_generation, cpu_generation,
                     next_callbacks, current_callbacks, dpc, pc, reading, calls,
                     panic>>
    BY Zenon DEF callback, stateVars
<1> USE <1>1
<1>2. q \in Seq(Entries) /\ IsInjective(q)
    BY Zenon DEF TypeOK, ListTypes, ListInv
<1>3. /\ Tail(q) \in Seq(Entries) /\ IsInjective(Tail(q))
      /\ h \in Entries /\ OnQueue(q, h)
      /\ \A x \in Entries : OnQueue(Tail(q), x) <=> OnQueue(q, x) /\ x # h
    BY Zenon, <1>2, TailDistinct
<1> HIDE DEF h
<1>4. /\ past_callbacks'[c] = Tail(q)
      /\ \A d \in Cpus : d # c => past_callbacks'[d] = past_callbacks[d]
      /\ stage'[h] = "reclaimed"
      /\ \A x \in Entries : x # h => stage'[x] = stage[x]
    BY Zenon, <1>3 DEF TypeOK, ListTypes, RunTypes
<1>5. On(c, h)
    BY Zenon, <1>3 DEF On
<1>6. \A d \in Cpus : \A x \in Entries : On(d, x)' => On(d, x) /\ x # h
    <2>1. ASSUME NEW d \in Cpus, NEW x \in Entries, On(d, x)'
          PROVE  On(d, x) /\ x # h
        <3>1. CASE d = c
            BY <1>3, <1>4, <2>1, <3>1 DEF On, ListInv
        <3>2. CASE d # c
            <4>1. On(d, x)
                BY Zenon, <1>4, <2>1, <3>2 DEF On
            <4> QED BY <1>3, <1>5, <3>2, <4>1 DEF ListInv
        <3> QED BY Zenon, <3>1, <3>2
    <2> QED BY Zenon, <2>1
<1>7. ListInv'
    <2>1. ASSUME NEW d \in Cpus
          PROVE  /\ IsInjective(next_callbacks'[d])
                 /\ IsInjective(current_callbacks'[d])
                 /\ IsInjective(past_callbacks'[d])
        BY Zenon, <1>3, <1>4 DEF ListInv
    <2>2. ASSUME NEW d \in Cpus, NEW e \in Entries
          PROVE  /\ OnQueue(next_callbacks'[d], e) =>
                       /\ ~OnQueue(current_callbacks'[d], e)
                       /\ ~OnQueue(past_callbacks'[d], e)
                 /\ OnQueue(current_callbacks'[d], e) =>
                       ~OnQueue(past_callbacks'[d], e)
        BY <1>3, <1>4 DEF ListInv
    <2>3. ASSUME NEW d \in Cpus, NEW e \in Entries, On(d, e)'
          PROVE  stage'[e] = "retired"
        BY Zenon, <1>4, <1>6, <2>3 DEF ListInv
    <2>4. ASSUME NEW a \in Cpus, NEW b \in Cpus, NEW e \in Entries,
                 On(a, e)', On(b, e)'
          PROVE  a = b
        BY Zenon, <1>6, <2>4 DEF ListInv
    <2> QED BY Zenon, <2>1, <2>2, <2>3, <2>4 DEF ListInv
<1>8. CurrentInv' /\ NextInv' /\ ReadInv'
    BY Zenon DEF CurrentInv, NextInv, ReadInv
<1>9. PastInv'
    <2> SUFFICES ASSUME NEW b \in Cpus, NEW d \in Cpus, NEW e \in reading[d],
                        OnQueue(past_callbacks'[b], e)
                 PROVE  FALSE
        BY Zenon DEF PastInv
    <2>1. e \in Entries
        BY Zenon DEF TypeOK, RunTypes
    <2> QED BY Zenon, <1>3, <1>4, <2>1 DEF PastInv
<1>10. GracePeriod'
    <2> SUFFICES ASSUME NEW d \in Cpus, NEW e \in reading[d]
                 PROVE  stage'[e] # "reclaimed"
        BY Zenon DEF GracePeriod
    <2>1. e \in Entries
        BY Zenon DEF TypeOK, RunTypes
    <2>2. e # h
        BY Zenon, <1>3 DEF PastInv
    <2> QED BY Zenon, <1>4, <2>1, <2>2 DEF GracePeriod
<1> QED BY Zenon, <1>7, <1>8, <1>9, <1>10

(* every step of a system of at most two CPUs preserves the invariant *)
LEMMA NextStep == AtMostTwo /\ IInv /\ [Next]_vars => IInv'
<1> SUFFICES ASSUME AtMostTwo, IInv, [Next]_vars PROVE IInv'
    OBVIOUS
<1>1. TypeOK'
    BY Zenon, TypeStep DEF IInv
<1>2. CASE UNCHANGED vars
    <2> USE <1>2 DEF vars, stateVars, listVars, IInv
    <2>1. ListInv' /\ CurrentInv' /\ NextInv'
        BY Zenon DEF ListInv, On, CurrentInv, NextInv
    <2>2. PastInv' /\ ReadInv' /\ GracePeriod'
        BY Zenon DEF PastInv, ReadInv, GracePeriod
    <2> QED BY Zenon, <1>1, <2>1, <2>2
<1>3. ASSUME NEW c \in Cpus, ke_rcu_read_lock(c) \/ ke_rcu_read_unlock(c)
      PROVE  IInv'
    BY Zenon, <1>1, <1>3, LockStep, UnlockStep
<1>4. ASSUME NEW c \in Cpus, Quiet(c) PROVE IInv'
    BY Zenon, <1>1, <1>4, QuietStep, RetireStep, RegisterStep DEF Quiet
<1>5. ASSUME NEW c \in Cpus, Process(c) PROVE IInv'
    BY Zenon, <1>1, <1>5, ProcessStep, CallbackStep, DoneStep DEF Process
<1>6. ASSUME NEW c \in Cpus, NEW e \in Entries, ke_rcu_call(c, e) PROVE IInv'
    BY Zenon, <1>1, <1>6, CallStep
<1>7. ASSUME NEW e \in Entries, Publish(e) PROVE IInv'
    BY Zenon, <1>1, <1>7, PublishStep
<1> QED BY Zenon, <1>2, <1>3, <1>4, <1>5, <1>6, <1>7 DEF Next

(* Every variable keeps its type, with any number of CPUs, data and calls.   *)
THEOREM TypeCorrect == Spec => []TypeOK
<1>1. Init => TypeOK
    BY Zenon, InitInv DEF IInv
<1>2. TypeOK /\ [Next]_vars => TypeOK'
    BY Zenon, TypeStep
<1> QED BY <1>1, <1>2, PTL DEF Spec

(* With any number of CPUs, callbacks wait for a generation that is over, in *)
(* progress, or will be started by the CPU that ends the one in progress.    *)
THEOREM GenerationsCome == Spec => []GenerationPromised
<1>1. Init => TypeOK /\ GenerationPromised
    BY Zenon, InitInv DEF IInv, Init, GenerationPromised
<1>2. TypeOK /\ GenerationPromised /\ [Next]_vars => TypeOK' /\ GenerationPromised'
    BY Zenon, TypeStep, PromiseStep
<1> QED BY <1>1, <1>2, PTL DEF Spec

(* With any number of CPUs, the callbacks of a CPU run once each, in the     *)
(* order of its calls of ke_rcu_call.                                        *)
THEOREM CallbacksInOrder == Spec => RunsInOrder
<1> DEFINE Kept == \A c \in Cpus : \/ Line(c)' = Line(c)
                                   \/ Line(c) # <<>> /\ Line(c)' = Tail(Line(c))
                                   \/ \E e \in Entries : Line(c)' = Append(Line(c), e)
<1>1. TypeOK /\ [Next]_vars => [Kept]_vars
    BY Zenon, OrderStep
<1>2. Spec => [][Kept]_vars
    BY <1>1, TypeCorrect, PTL DEF Spec
<1> QED BY <1>2 DEF RunsInOrder

(* On a machine with at most two CPUs, no datum given to ke_rcu_call is      *)
(* reclaimed while a read section entered before that call can reach it,     *)
(* whatever the number of data and of calls.                                 *)
THEOREM GracePeriodKept == AtMostTwo => (Spec => []GracePeriod)
<1>1. ASSUME AtMostTwo PROVE Spec => []GracePeriod
    <2>1. Init => IInv
        BY Zenon, InitInv
    <2>2. IInv /\ [Next]_vars => IInv'
        BY Zenon, <1>1, NextStep
    <2>3. IInv => GracePeriod
        BY Zenon DEF IInv
    <2> QED BY <2>1, <2>2, <2>3, PTL DEF Spec
<1> QED BY Zenon, <1>1
=============================================================================
