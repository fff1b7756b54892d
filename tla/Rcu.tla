-------------------------------- MODULE Rcu --------------------------------
(***************************************************************************)
(* Read-copy-update: kern/rcu.c.  A CPU passes through ki_rcu_quiet on     *)
(* every reschedule; a callback given to ke_rcu_call moves through the     *)
(* CPU's next, current and past lists and runs from a DPC when the         *)
(* generation it was put in is over.                                       *)
(*                                                                         *)
(* A step is one critical section of rcu.lock or one access outside it.    *)
(* All of a CPU's own lists are touched at IPL dpc on that CPU, so they    *)
(* need no lock; readers are at IPL dpc too, so neither ki_rcu_quiet nor   *)
(* the DPC of their own CPU runs inside a read section.                    *)
(***************************************************************************)
EXTENDS Naturals, Sequences, Queues

CONSTANTS
    Cpus,
    Entries,        \* krcu_entry_t's, each embedded in the datum it retires
    MaxCalls        \* bound on the calls of ke_rcu_call

ASSUME CallsAssumption == MaxCalls \in Nat

VARIABLES
    \* struct rcu_state
    quiesced,               \* CPUs whose bit is set: they have yet to quiesce
    generation, highest_generation,
    \* struct ki_rcu_per_cpu_data
    cpu_generation, next_callbacks, current_callbacks, past_callbacks,
    dpc,                    \* past_callbacks_dpc is on the CPU's DPC queue
    pc,                     \* where the CPU is in ki_rcu_quiet or in its DPC
    \* the data and its readers
    stage,                  \* of a datum: live, retired or reclaimed
    reading,                \* the data the CPU's read section can reach
    calls,
    panic                   \* the kassert of ki_rcu_quiet failed

stateVars == <<quiesced, generation, highest_generation>>
listVars == <<next_callbacks, current_callbacks, past_callbacks>>
vars == <<stateVars, cpu_generation, listVars, dpc, pc, stage, reading, calls,
          panic>>

StateTypes ==
    /\ quiesced \in SUBSET Cpus
    /\ generation \in Nat
    /\ highest_generation \in Nat
    /\ cpu_generation \in [Cpus -> Nat]

ListTypes ==
    /\ next_callbacks \in [Cpus -> Seq(Entries)]
    /\ current_callbacks \in [Cpus -> Seq(Entries)]
    /\ past_callbacks \in [Cpus -> Seq(Entries)]

RunTypes ==
    /\ dpc \in [Cpus -> BOOLEAN]
    /\ pc \in [Cpus -> {"run", "retire", "register", "process"}]
    /\ stage \in [Entries -> {"live", "retired", "reclaimed"}]
    /\ reading \in [Cpus -> SUBSET Entries]
    /\ calls \in 0 .. MaxCalls
    /\ panic \in BOOLEAN

TypeOK == StateTypes /\ ListTypes /\ RunTypes

(* ki_rcu_per_cpu_init, and the initialiser of rcu *)
Init ==
    /\ quiesced = {}
    /\ generation = 0
    /\ highest_generation = 0
    /\ cpu_generation = [c \in Cpus |-> 0]
    /\ next_callbacks = [c \in Cpus |-> <<>>]
    /\ current_callbacks = [c \in Cpus |-> <<>>]
    /\ past_callbacks = [c \in Cpus |-> <<>>]
    /\ dpc = [c \in Cpus |-> FALSE]
    /\ pc = [c \in Cpus |-> "run"]
    /\ stage = [e \in Entries |-> "live"]
    /\ reading = [c \in Cpus |-> {}]
    /\ calls = 0
    /\ panic = FALSE

-----------------------------------------------------------------------------
(* A read section can reach whatever was not yet retired when it began.     *)
ke_rcu_read_lock(c) ==
    /\ pc[c] = "run"
    /\ reading[c] = {}
    /\ reading' = [reading EXCEPT ![c] = {e \in Entries : stage[e] = "live"}]
    /\ UNCHANGED <<stateVars, cpu_generation, listVars, dpc, pc, stage, calls,
                   panic>>

ke_rcu_read_unlock(c) ==
    /\ reading[c] # {}
    /\ reading' = [reading EXCEPT ![c] = {}]
    /\ UNCHANGED <<stateVars, cpu_generation, listVars, dpc, pc, stage, calls,
                   panic>>

(* a writer on c makes the datum unreachable and retires it *)
ke_rcu_call(c, e) ==
    /\ pc[c] = "run"
    /\ stage[e] = "live"
    /\ calls < MaxCalls
    /\ stage' = [stage EXCEPT ![e] = "retired"]
    /\ next_callbacks' = [next_callbacks EXCEPT ![c] = Append(@, e)]
    /\ calls' = calls + 1
    /\ UNCHANGED <<stateVars, cpu_generation, current_callbacks,
                   past_callbacks, dpc, pc, reading, panic>>

(* the memory of a reclaimed datum is used for a new one *)
Publish(e) ==
    /\ stage[e] = "reclaimed"
    /\ calls < MaxCalls
    /\ stage' = [stage EXCEPT ![e] = "live"]
    /\ UNCHANGED <<stateVars, cpu_generation, listVars, dpc, pc, reading,
                   calls, panic>>

-----------------------------------------------------------------------------
(* mutant of start_generation: the mask has one bit too many *)
start_generation_wide(g) ==
    /\ quiesced' = Cpus \cup {"none"}
    /\ generation' = g + 1
    /\ highest_generation' = g + 1

(* start_generation, from generation g on *)
start_generation(g) ==
    /\ quiesced' = Cpus
    /\ generation' = g + 1
    /\ highest_generation' = g + 1

(* the last CPU to quiesce ends the generation and may start another *)
EndGeneration ==
    IF generation + 1 <= highest_generation
    THEN start_generation(generation + 1)
    ELSE /\ quiesced' = {}
         /\ generation' = generation + 1
         /\ UNCHANGED highest_generation

(* ki_rcu_quiet, up to the release of rcu.lock *)
ki_rcu_quiet(c) ==
    /\ pc[c] = "run"
    /\ reading[c] = {}
    /\ \/ /\ c \in quiesced
          /\ quiesced \ {c} # {}
          /\ quiesced' = quiesced \ {c}
          /\ UNCHANGED <<generation, highest_generation>>
       \/ /\ quiesced = {c}
          /\ EndGeneration
       \/ /\ c \notin quiesced
          /\ UNCHANGED stateVars
    /\ pc' = [pc EXCEPT ![c] = "retire"]
    /\ UNCHANGED <<cpu_generation, listVars, dpc, stage, reading, calls, panic>>

(* mutant of GenerationOver: the generation is over as soon as it began *)
GenerationBegun(c) == generation >= cpu_generation[c]

GenerationOver(c) == generation > cpu_generation[c]

(* mutants of ki_rcu_quiet_retire: the lists are concatenated the wrong way *)
(* round, or the DPC is forgotten                                           *)
ki_rcu_quiet_retire_front(c) ==
    /\ pc[c] = "retire"
    /\ IF current_callbacks[c] # <<>> /\ GenerationOver(c)
       THEN /\ past_callbacks' =
                 [past_callbacks EXCEPT ![c] = current_callbacks[c] \o @]
            /\ current_callbacks' = [current_callbacks EXCEPT ![c] = <<>>]
            /\ dpc' = [dpc EXCEPT ![c] = TRUE]
       ELSE UNCHANGED <<past_callbacks, current_callbacks, dpc>>
    /\ pc' = [pc EXCEPT ![c] = "register"]
    /\ UNCHANGED <<stateVars, cpu_generation, next_callbacks, stage, reading,
                   calls, panic>>

ki_rcu_quiet_retire_silent(c) ==
    /\ pc[c] = "retire"
    /\ IF current_callbacks[c] # <<>> /\ GenerationOver(c)
       THEN /\ past_callbacks' =
                 [past_callbacks EXCEPT ![c] = @ \o current_callbacks[c]]
            /\ current_callbacks' = [current_callbacks EXCEPT ![c] = <<>>]
       ELSE UNCHANGED <<past_callbacks, current_callbacks>>
    /\ pc' = [pc EXCEPT ![c] = "register"]
    /\ UNCHANGED <<stateVars, cpu_generation, next_callbacks, dpc, stage,
                   reading, calls, panic>>

(* the current callbacks have waited long enough *)
ki_rcu_quiet_retire(c) ==
    /\ pc[c] = "retire"
    /\ IF current_callbacks[c] # <<>> /\ GenerationOver(c)
       THEN /\ past_callbacks' =
                 [past_callbacks EXCEPT ![c] = @ \o current_callbacks[c]]
            /\ current_callbacks' = [current_callbacks EXCEPT ![c] = <<>>]
            /\ dpc' = [dpc EXCEPT ![c] = TRUE]
       ELSE UNCHANGED <<past_callbacks, current_callbacks, dpc>>
    /\ pc' = [pc EXCEPT ![c] = "register"]
    /\ UNCHANGED <<stateVars, cpu_generation, next_callbacks, stage, reading,
                   calls, panic>>

(* mutant of RegisterGeneration: the maximum is not raised *)
RegisterGeneration_low(c) ==
    /\ cpu_generation' = [cpu_generation EXCEPT ![c] = generation + 1]
    /\ IF quiesced # {}
       THEN /\ panic' = (highest_generation > generation + 1)
            /\ UNCHANGED stateVars
       ELSE start_generation(generation) /\ UNCHANGED panic

(* under rcu.lock: in which generation the current callbacks wait; the       *)
(* kassert fails when the maximum has been raised past it already            *)
RegisterGeneration(c) ==
    /\ cpu_generation' = [cpu_generation EXCEPT ![c] = generation + 1]
    /\ IF quiesced # {}
       THEN /\ panic' = (highest_generation > generation + 1)
            /\ highest_generation' = generation + 2
            /\ UNCHANGED <<quiesced, generation>>
       ELSE start_generation(generation) /\ UNCHANGED panic

(* the next callbacks become the current ones *)
ki_rcu_quiet_register(c) ==
    /\ pc[c] = "register"
    /\ IF current_callbacks[c] = <<>> /\ next_callbacks[c] # <<>>
       THEN /\ current_callbacks' =
                 [current_callbacks EXCEPT ![c] = @ \o next_callbacks[c]]
            /\ next_callbacks' = [next_callbacks EXCEPT ![c] = <<>>]
            /\ RegisterGeneration(c)
       ELSE UNCHANGED <<current_callbacks, next_callbacks, cpu_generation,
                        stateVars, panic>>
    /\ pc' = [pc EXCEPT ![c] = "run"]
    /\ UNCHANGED <<past_callbacks, dpc, stage, reading, calls>>

(* ki_dispatch_dpcs calls process_past_callbacks ... *)
process_past_callbacks(c) ==
    /\ pc[c] = "run"
    /\ reading[c] = {}
    /\ dpc[c]
    /\ dpc' = [dpc EXCEPT ![c] = FALSE]
    /\ pc' = [pc EXCEPT ![c] = "process"]
    /\ UNCHANGED <<stateVars, cpu_generation, listVars, stage, reading, calls,
                   panic>>

(* ... which runs the callbacks one after the other *)
callback(c) ==
    /\ pc[c] = "process"
    /\ past_callbacks[c] # <<>>
    /\ past_callbacks' = [past_callbacks EXCEPT ![c] = Tail(@)]
    /\ stage' = [stage EXCEPT ![Head(past_callbacks[c])] = "reclaimed"]
    /\ UNCHANGED <<stateVars, cpu_generation, next_callbacks,
                   current_callbacks, dpc, pc, reading, calls, panic>>

process_past_callbacks_done(c) ==
    /\ pc[c] = "process"
    /\ past_callbacks[c] = <<>>
    /\ pc' = [pc EXCEPT ![c] = "run"]
    /\ UNCHANGED <<stateVars, cpu_generation, listVars, dpc, stage, reading,
                   calls, panic>>

-----------------------------------------------------------------------------
Quiet(c) == ki_rcu_quiet(c) \/ ki_rcu_quiet_retire(c) \/ ki_rcu_quiet_register(c)

Process(c) == process_past_callbacks(c) \/ callback(c)
              \/ process_past_callbacks_done(c)

Next ==
    /\ ~panic
    /\ \/ \E c \in Cpus : \/ ke_rcu_read_lock(c) \/ ke_rcu_read_unlock(c)
                          \/ Quiet(c) \/ Process(c)
                          \/ \E e \in Entries : ke_rcu_call(c, e)
       \/ \E e \in Entries : Publish(e)

Spec == Init /\ [][Next]_vars

(* Read sections end, DPCs run, and ki_cpu_hardclock preempts whatever      *)
(* thread a CPU runs, the idle thread included, when its timeslice is up;   *)
(* a read section or a DPC can only delay that.                             *)
Fairness ==
    \A c \in Cpus : /\ WF_vars(~panic /\ ke_rcu_read_unlock(c))
                    /\ SF_vars(~panic /\ Quiet(c))
                    /\ SF_vars(~panic /\ Process(c))

FairSpec == Spec /\ Fairness

-----------------------------------------------------------------------------
(* The grace period: no datum is reclaimed by its callback while a read      *)
(* section that could reach it before it was retired is still running.       *)
GracePeriod ==
    \A c \in Cpus : \A e \in reading[c] : stage[e] # "reclaimed"

(* The callbacks a CPU waits with are not forgotten: the generation they     *)
(* wait for is over, is in progress, or is one that the end of the           *)
(* generation in progress will start, since highest_generation asks for it.  *)
GenerationPromised ==
    \A c \in Cpus : current_callbacks[c] # <<>> =>
        \/ generation > cpu_generation[c]
        \/ /\ quiesced # {}
           /\ \/ cpu_generation[c] = generation
              \/ /\ cpu_generation[c] = generation + 1
                 /\ highest_generation > generation

(* the callbacks of a CPU in the order in which they are to run *)
Line(c) == past_callbacks[c] \o current_callbacks[c] \o next_callbacks[c]

(* The callbacks of a CPU run in the order of its ke_rcu_calls, none is lost *)
(* or run twice, however its three lists are spliced meanwhile.              *)
RunsInOrder ==
    [][\A c \in Cpus : \/ Line(c)' = Line(c)
                       \/ Line(c) # <<>> /\ Line(c)' = Tail(Line(c))
                       \/ \E e \in Entries : Line(c)' = Append(Line(c), e)]_vars

(* Every callback runs eventually: a generation a CPU registered for while   *)
(* another one was in progress is started when that one ends.  The machine   *)
(* stops before that only if the kassert of ki_rcu_quiet fails.              *)
CallbackRuns ==
    \A e \in Entries : stage[e] = "retired" ~> stage[e] = "reclaimed" \/ panic

-----------------------------------------------------------------------------
(* The inductive invariant behind GracePeriod, for at most two CPUs.         *)
AtMostTwo == \A a, b, c \in Cpus : a = b \/ b = c \/ a = c

On(c, e) == \/ OnQueue(next_callbacks[c], e)
            \/ OnQueue(current_callbacks[c], e)
            \/ OnQueue(past_callbacks[c], e)

(* an entry is on one list of one CPU, once, and only while it is retired *)
ListInv ==
    /\ \A c \in Cpus : /\ IsInjective(next_callbacks[c])
                       /\ IsInjective(current_callbacks[c])
                       /\ IsInjective(past_callbacks[c])
    /\ \A c \in Cpus : \A e \in Entries :
          /\ On(c, e) => stage[e] = "retired"
          /\ OnQueue(next_callbacks[c], e) =>
                ~OnQueue(current_callbacks[c], e) /\ ~OnQueue(past_callbacks[c], e)
          /\ OnQueue(current_callbacks[c], e) => ~OnQueue(past_callbacks[c], e)
    /\ \A c, d \in Cpus : \A e \in Entries : On(c, e) /\ On(d, e) => c = d

(* a CPU that can still reach a datum in the current list of another has     *)
(* yet to quiesce in a generation that list waits for                        *)
CurrentInv ==
    \A c, d \in Cpus : \A e \in reading[d] :
        OnQueue(current_callbacks[c], e) =>
            c # d /\ d \in quiesced /\ generation <= cpu_generation[c]

(* between quiescing and registering, it has yet to quiesce in whatever      *)
(* generation is in progress                                                 *)
NextInv ==
    \A c, d \in Cpus : \A e \in reading[d] :
        pc[c] \in {"retire", "register"} /\ OnQueue(next_callbacks[c], e) =>
            c # d /\ (quiesced = {} \/ d \in quiesced)

(* a past callback has no reader left *)
PastInv ==
    \A c, d \in Cpus : \A e \in reading[d] : ~OnQueue(past_callbacks[c], e)

(* a CPU does not read while it quiesces or runs callbacks *)
ReadInv == \A c \in Cpus : reading[c] # {} => pc[c] = "run"

IInv == TypeOK /\ ListInv /\ CurrentInv /\ NextInv /\ PastInv /\ ReadInv
        /\ GracePeriod
=============================================================================
