-------------------------------- MODULE Iop --------------------------------
(***************************************************************************)
(* I/O packets (dev/iop.c): a packet moves down its stack of frames by     *)
(* dispatch and up again by completion.  A dispatch routine may answer     *)
(* Completed, Continue (it has set up the next frame, or appended slave    *)
(* packets in its place) or Pending (the device has the packet, and calls  *)
(* iop_continue from its DPC).                                             *)
(*                                                                         *)
(* Packet 0 has two frames and may be given the slaves in Slaves, of one   *)
(* frame each, carried out in the order 1, 2, ...  Its sender and the DPCs *)
(* of the devices run iop_continue concurrently; one step is one turn of   *)
(* its loop, except that the answer Pending is looked at in a later step:  *)
(* by then the device may have completed the packet.                       *)
(***************************************************************************)
EXTENDS Integers, FiniteSets

CONSTANTS NumSlaves,  \* slave packets of the master
          MaxAgain    \* times a completion routine asks for more work

ASSUME IopAssumption == NumSlaves \in Nat \ {0} /\ MaxAgain \in Nat

VARIABLES iopPkt,        \* packets: [cur, dir, begun]
          iopIncomplete, \* incomplete_slave_iops_n of packet 0
          iopSlaves,     \* whether the slaves have been appended
          iopCtx,        \* per context [pc, iop, ret]
          iopDevice,     \* packets a device is working on
          iopCount,      \* per packet, how often its frames were dispatched
          iopSignals,    \* how often the sender's event was signalled
          iopAgain,
          iopHalted

iopVars == <<iopPkt, iopIncomplete, iopSlaves, iopCtx, iopDevice, iopCount, iopSignals, iopAgain, iopHalted>>

Slaves == 1 .. NumSlaves
Packets == 0 .. NumSlaves
Sender == NumSlaves + 1      \* the others are the CPUs that may run a DPC
Contexts == Packets \union {Sender}
stack_count(i) == IF i = 0 THEN 2 ELSE 1
Idle == [pc |-> "idle", iop |-> 0, ret |-> "none"]
At(i) == [pc |-> "loop", iop |-> i, ret |-> "none"]

iop_init == [cur |-> -1, dir |-> "down", begun |-> FALSE]

\* iop_new for a vnode, with its first frame set up for the operation
iop_new == [i \in Packets |-> iop_init]

IopInit ==
    /\ iopPkt = iop_new
    /\ iopIncomplete = 0
    /\ iopSlaves = FALSE
    /\ iopCtx = [c \in Contexts |-> Idle]
    /\ iopDevice = {}
    /\ iopCount = [i \in Packets |-> 0]
    /\ iopSignals = 0
    /\ iopAgain = 0
    /\ iopHalted = FALSE

HaltIop ==
    /\ iopHalted' = TRUE
    /\ UNCHANGED <<iopPkt, iopIncomplete, iopSlaves, iopCtx, iopDevice, iopCount, iopSignals, iopAgain>>

Move(c, ctx) == iopCtx' = [iopCtx EXCEPT ![c] = ctx]

iop_send_sync ==
    /\ iopCtx[Sender] = Idle /\ iopPkt[0] = iop_init
    /\ Move(Sender, At(0))
    /\ UNCHANGED <<iopPkt, iopIncomplete, iopSlaves, iopDevice, iopCount, iopSignals, iopAgain, iopHalted>>

iop_append_slave ==
    /\ iopSlaves' = TRUE
    /\ iopIncomplete' = iopIncomplete + NumSlaves

\* The answers of a dispatch routine for the frame cur of packet i.
DispatchReturns(i, cur) ==
    {"completed", "pending"} \union (IF cur + 1 < stack_count(i) THEN {"continue", "slaves"} ELSE {})

\* One turn of the loop downwards: the first of the slaves if there are any,
\* otherwise the dispatch routine and the part of the loop after it.
StepDown(c) ==
    LET i == iopCtx[c].iop
        cur == iopPkt[i].cur + 1 IN
    /\ iopCtx[c].pc = "loop" /\ iopPkt[i].dir = "down"
    /\ IF cur >= stack_count(i)
       THEN HaltIop
       ELSE IF i = 0 /\ iopSlaves
       THEN IF iopPkt[1].begun
            THEN HaltIop
            ELSE /\ iopPkt' = [iopPkt EXCEPT ![0].cur = cur]
                 /\ Move(c, At(1))
                 /\ UNCHANGED <<iopIncomplete, iopSlaves, iopDevice, iopCount, iopSignals, iopAgain, iopHalted>>
       ELSE \E r \in DispatchReturns(i, cur) :
               /\ iopPkt' = [iopPkt EXCEPT ![i].cur = cur, ![i].dir = IF r = "completed" THEN "up" ELSE "down"]
               /\ iopCount' = [iopCount EXCEPT ![i] = @ + 1]
               /\ IF r = "slaves" THEN iop_append_slave ELSE UNCHANGED <<iopSlaves, iopIncomplete>>
               /\ IF r = "pending"
                  THEN Move(c, [pc |-> "started", iop |-> i, ret |-> "pending"]) /\ iopDevice' = iopDevice \union {i}
                  ELSE UNCHANGED <<iopCtx, iopDevice>>
               /\ UNCHANGED <<iopSignals, iopAgain, iopHalted>>

\* the answer without a look at who else has begun the packet
BegunAnyway(n) == TRUE

\* the compare and exchange of next->begun
BeginNext(n) == ~iopPkt[n].begun

\* After a slave went pending or completed: begin the next one unless another
\* context has, or leave iop_continue with the given status.  A sender that
\* is told "completed" does not wait for the event.
StartSibling(c) ==
    LET i == iopCtx[c].iop
        next == i + 1 IN
    /\ iopCtx[c].pc = "started"
    /\ IF i # 0 /\ next \in Slaves /\ BeginNext(next)
       THEN iopPkt' = [iopPkt EXCEPT ![next].begun = TRUE] /\ Move(c, At(next))
       ELSE Move(c, [Idle EXCEPT !.ret = IF c = Sender THEN iopCtx[c].ret ELSE "none"]) /\ UNCHANGED iopPkt
    /\ UNCHANGED <<iopIncomplete, iopSlaves, iopDevice, iopCount, iopSignals, iopAgain, iopHalted>>

\* Above its first frame a slave is complete: the last one continues its
\* master upwards.
SlaveComplete(c, i) ==
    /\ iopIncomplete' = iopIncomplete - 1
    /\ iopPkt' = [iopPkt EXCEPT ![i].cur = -1, ![0].dir = IF iopIncomplete = 1 THEN "up" ELSE @]
    /\ Move(c, IF iopIncomplete = 1 THEN At(0) ELSE [pc |-> "started", iop |-> i, ret |-> "completed"])
    /\ UNCHANGED <<iopSlaves, iopDevice, iopCount, iopSignals, iopAgain, iopHalted>>

do_complete(c) ==
    /\ iopSignals' = iopSignals + 1
    /\ iopPkt' = [iopPkt EXCEPT ![0].cur = -1]
    /\ Move(c, [Idle EXCEPT !.ret = IF c = Sender THEN "completed" ELSE "none"])
    /\ UNCHANGED <<iopIncomplete, iopSlaves, iopDevice, iopCount, iopAgain, iopHalted>>

\* The completion routine of the frame cur, where the packet may turn round.
Complete(c, i, cur) ==
    \E r \in {"completed", "pending"} \union (IF cur + 1 < stack_count(i) /\ iopAgain < MaxAgain THEN {"continue"} ELSE {}) :
       /\ iopPkt' = [iopPkt EXCEPT ![i].cur = cur, ![i].dir = IF r = "continue" THEN "down" ELSE "up"]
       /\ iopAgain' = IF r = "continue" THEN iopAgain + 1 ELSE iopAgain
       /\ IF r = "pending"
          THEN Move(c, [pc |-> "started", iop |-> i, ret |-> "pending"]) /\ iopDevice' = iopDevice \union {i}
          ELSE UNCHANGED <<iopCtx, iopDevice>>
       /\ UNCHANGED <<iopIncomplete, iopSlaves, iopCount, iopSignals, iopHalted>>

StepUp(c) ==
    LET i == iopCtx[c].iop
        cur == iopPkt[i].cur - 1 IN
    /\ iopCtx[c].pc = "loop" /\ iopPkt[i].dir = "up"
    /\ IF cur < -1 \/ (cur > -1 /\ i = 0 /\ iopIncomplete # 0)
       THEN HaltIop
       ELSE IF cur = -1
       THEN IF i = 0 THEN do_complete(c) ELSE SlaveComplete(c, i)
       ELSE Complete(c, i, cur)

\* A device is done with packet i: a DPC calls iop_continue, which goes on
\* where the routine that went pending would have returned.
iop_continue(c, i) ==
    /\ i \in iopDevice /\ c # Sender /\ iopCtx[c] = Idle
    /\ iopDevice' = iopDevice \ {i}
    /\ iopPkt' = [iopPkt EXCEPT ![i].dir = "up"]
    /\ Move(c, At(i))
    /\ UNCHANGED <<iopIncomplete, iopSlaves, iopCount, iopSignals, iopAgain, iopHalted>>

IopNext ==
    /\ ~iopHalted
    /\ \/ iop_send_sync
       \/ \E c \in Contexts : StepDown(c) \/ StartSibling(c) \/ StepUp(c)
       \/ \E c \in Contexts, i \in Packets : iop_continue(c, i)

IopSpec == IopInit /\ [][IopNext]_iopVars

(***************************************************************************)
(* Properties.                                                             *)
(***************************************************************************)

Working(c) == iopCtx[c].pc # "idle"

\* No slave is dispatched twice however the sender and the DPCs race to begin
\* it, no packet is moved by two contexts, or by one while its device has it,
\* the event is signalled once and only when every slave is complete, and a
\* packet that nobody is moving any more has been completed
\* (iop_continue's compare and exchange of begun and its count of incomplete
\* slaves).
IopsOnce ==
    /\ \A i \in Slaves : iopCount[i] =< 1
    /\ \A c, d \in Contexts :
          iopCtx[c].pc = "loop" /\ iopCtx[d].pc = "loop" /\ iopCtx[c].iop = iopCtx[d].iop => c = d
    /\ \A c \in Contexts : iopCtx[c].pc = "loop" => iopCtx[c].iop \notin iopDevice
    /\ iopSignals =< 1
    /\ iopSignals = 1 =>
          /\ iopIncomplete = 0
          /\ iopDevice = {}
          /\ iopSlaves => \A i \in Slaves : iopCount[i] = 1
    /\ ~iopHalted /\ iopDevice = {} /\ ~(\E c \in Contexts : Working(c)) /\ iopCount[0] > 0 => iopSignals = 1

(***************************************************************************)
(* The inductive invariant behind IopsOnce.                                *)
(***************************************************************************)
IopTypes ==
    /\ iopPkt \in [Packets -> [cur : Int, dir : {"down", "up"}, begun : BOOLEAN]]
    /\ iopIncomplete \in Int
    /\ iopSlaves \in BOOLEAN
    /\ iopCtx \in [Contexts -> [pc : {"idle", "loop", "started"}, iop : Packets,
                                ret : {"none", "pending", "completed"}]]
    /\ iopDevice \subseteq Packets
    /\ iopCount \in [Packets -> Nat]
    /\ iopSignals \in {0, 1}
    /\ iopAgain \in Nat

\* a context, or a device, moves the packet
Moves(c, i) == iopCtx[c].pc = "loop" /\ iopCtx[c].iop = i
StartedAt(c, i) == iopCtx[c].pc = "started" /\ iopCtx[c].iop = i
Moving(i) == \E c \in Contexts : Moves(c, i)
Active(i) == Moving(i) \/ i \in iopDevice

\* nobody else moves a packet that a context or a device moves
MovedByOne ==
    /\ \A c, d \in Contexts, i \in Packets : Moves(c, i) /\ Moves(d, i) => c = d
    /\ \A i \in iopDevice : ~Moving(i)

\* a slave before its dispatch, between dispatch and completion, and after
Undispatched(i) == iopPkt[i].cur = -1 /\ iopPkt[i].dir = "down" /\ iopCount[i] = 0
Sent(i) == iopPkt[i].cur = 0 /\ iopCount[i] = 1
Over(i) == iopPkt[i].cur = -1 /\ iopPkt[i].dir = "up" /\ iopCount[i] = 1

Incomplete == {i \in Slaves : ~Over(i)}

\* A slave is begun before it is moved, and moved before it is dispatched.
\* The first one is begun by the context that moved its master, which does not
\* say so.
SlavesInOrder ==
    /\ \A i \in Slaves :
          /\ Undispatched(i) \/ Sent(i) \/ Over(i)
          /\ i # 1 /\ ~iopPkt[i].begun => Undispatched(i) /\ ~Active(i)
          /\ i \in iopDevice => Sent(i)
          /\ \A c \in Contexts : StartedAt(c, i) => ~Undispatched(i)
    /\ ~iopPkt[1].begun
    /\ iopIncomplete = IF iopSlaves THEN Cardinality(Incomplete) ELSE 0

Launched(i) == IF i = 1 THEN ~Undispatched(1) \/ Active(1) ELSE iopPkt[i].begun

SlavesUntouched == \A i \in Slaves : Undispatched(i) /\ ~iopPkt[i].begun /\ ~Active(i)
SlavesOver == \A i \in Slaves : Over(i)
SlavesAtRest == \A i \in Slaves : ~Active(i)

\* where the master can be: not sent yet,
Unsent ==
    /\ iopPkt[0] = iop_init /\ ~Active(0) /\ iopCount[0] = 0 /\ iopSignals = 0
    /\ SlavesUntouched /\ ~iopSlaves

\* moved itself, its slaves not begun or all complete,
OwnWork ==
    /\ Active(0) /\ iopSignals = 0
    /\ Moving(0) /\ iopPkt[0].dir = "down" =>
          /\ iopPkt[0].cur \in {-1, 0}
          /\ iopPkt[0].cur = -1 => iopCtx[Sender].pc = "loop" /\ ~iopSlaves
    /\ 0 \in iopDevice \/ iopPkt[0].dir = "up" => iopPkt[0].cur \in {0, 1}
    /\ \/ SlavesUntouched /\ (iopSlaves => /\ Moving(0) /\ iopPkt[0].dir = "down"
                                           /\ iopPkt[0].cur = 0)
       \/ SlavesOver /\ SlavesAtRest /\ iopSlaves

\* waiting for its slaves, of which 1 .. k have been begun and the last of them
\* is looked after,
BegunUpTo(k) ==
    /\ \A i \in Slaves : Launched(i) <=> i <= k
    /\ k = NumSlaves \/ Active(k) \/ \E c \in Contexts : StartedAt(c, k)

AwaitsSlaves ==
    /\ ~Active(0) /\ iopSignals = 0 /\ iopSlaves
    /\ iopPkt[0].cur = 1 /\ iopPkt[0].dir = "down"
    /\ \E k \in Slaves : BegunUpTo(k)
    /\ \A i \in Slaves : Launched(i) => (Active(i) <=> ~Over(i))
    /\ ~SlavesOver

\* about to begin its slaves once more, which the next turn of the loop asserts
\* it does not,
BeginsAgain ==
    /\ ~Active(0) /\ iopSignals = 0 /\ iopSlaves
    /\ iopPkt[0].cur = 1 /\ iopPkt[0].dir = "down"
    /\ SlavesOver /\ iopDevice = {} /\ Moving(1)

\* or complete.
IsComplete ==
    /\ ~Active(0) /\ iopSignals = 1 /\ SlavesAtRest
    /\ iopPkt[0].cur = -1 /\ iopPkt[0].dir = "up"
    /\ IF iopSlaves THEN SlavesOver ELSE SlavesUntouched

IopInv == /\ IopTypes /\ MovedByOne /\ SlavesInOrder
          /\ Unsent \/ OwnWork \/ AwaitsSlaves \/ BeginsAgain \/ IsComplete
=============================================================================
