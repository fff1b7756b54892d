------------------------------- MODULE VirtIO -------------------------------
(***************************************************************************)
(* The VirtIO split queue (dev/virtio): the PCI and MMIO transports, and   *)
(* the two drivers that put requests on a queue, the 9p port and the GPU.  *)
(* Descriptors are an array whose free ones are chained through `next`;    *)
(* a request is a chain of them, offered on the available ring, taken by   *)
(* the device (external), put on the used ring in any order and noticed by *)
(* a DPC after an interrupt.                                               *)
(*                                                                         *)
(* The queue's spinlock is vqAt: a dispatch, or a turn of the DPC's loops, *)
(* is one step while it is held; the device works at any time.  The 9p     *)
(* port takes a request off its free list through the head of the other    *)
(* list, which goes wrong for the last free one: from then on the tail     *)
(* pointer of the free list lies in that request (vqTail).                 *)
(***************************************************************************)
EXTENDS Integers, Sequences, FiniteSets, SequencesExt

CONSTANTS VqLength,    \* descriptors of the queue; 128 in the code
          VqWrap,      \* the rings' 16-bit indices wrap here
          MaxIops,     \* packets sent to the 9p port
          MdlEntries,  \* pages of a packet's memory descriptor list
          MaxFlushes   \* turns of the GPU's flush timer

ASSUME VqAssumption == VqLength % 2 = 0 /\ VqWrap % VqLength = 0

VARIABLES vqDev,      \* [kind, mmio, phase]: driver, transport, how far set up
          vq,         \* the queue and its rings
          vqDevice,   \* the device: [seen, taken, isr]
          vqDpc,      \* the transport's DPC is queued
          vqAt,       \* who holds the spinlock and where
          vqReq,      \* requests: [iop, first, n]
          vqFree,     \* free_reqs
          vqInFlight, \* in_flight_reqs
          vqTail,     \* the request the tail pointer of free_reqs is lost in
          vqPending,  \* pending_packets
          vqIop,      \* packets: [at, entries]
          vqFlushes,
          vqHalted

vqVars == <<vqDev, vq, vqDevice, vqDpc, vqAt, vqReq, vqFree, vqInFlight, vqTail, vqPending, vqIop, vqFlushes, vqHalted>>

Descs == 0 .. VqLength - 1
Empty == VqLength            \* ends the free list; also an unused ring slot
NoReq == 0
Reqs == 1 .. VqLength \div 2
GpuStart == -1
GpuTransfer == -2
GpuFlush == -3
NoIop == 0
VqIops == 1 .. MaxIops       \* numbered in the order they are sent

\* resetDevice leaves the queue as setupQueue finds it
VqInit ==
    /\ vqDev \in [kind : {"9p"}, mmio : BOOLEAN, phase : {"driver"}]
                 \union [kind : {"gpu"}, mmio : {TRUE}, phase : {"driver"}]
    /\ vq = [next |-> [d \in Descs |-> Empty], more |-> {}, free |-> Empty, nfree |-> 0,
             avail |-> [d \in Descs |-> Empty], availIdx |-> 0,
             used |-> [d \in Descs |-> Empty], usedIdx |-> 0, lastSeen |-> 0]
    /\ vqDevice = [seen |-> 0, taken |-> {}, isr |-> FALSE]
    /\ vqDpc = FALSE
    /\ vqAt = "none"
    /\ vqReq = [r \in Reqs \union {GpuStart, GpuTransfer, GpuFlush} |-> [iop |-> NoIop, first |-> Empty, n |-> 0]]
    /\ vqFree = <<>>
    /\ vqInFlight = <<>>
    /\ vqTail = NoReq
    /\ vqPending = <<>>
    /\ vqIop = [i \in VqIops |-> [at |-> "idle", entries |-> 0]]
    /\ vqFlushes = 0
    /\ vqHalted = FALSE

Phase(p) == vqDev' = [vqDev EXCEPT !.phase = p]

HaltVq ==
    /\ vqHalted' = TRUE
    /\ UNCHANGED <<vqDev, vq, vqDevice, vqDpc, vqAt, vqReq, vqFree, vqInFlight, vqTail, vqPending, vqIop, vqFlushes>>

----------------------------------------------------------------------------
(* Setting the device up *)

Untouched == UNCHANGED <<vqDevice, vqDpc, vqAt, vqReq, vqInFlight, vqTail, vqPending, vqIop, vqFlushes, vqHalted>>

\* both drivers require VIRTIO_F_VERSION_1, and give up if the device lacks
\* it or does not confirm FEATURES_OK
exchangeFeatures ==
    /\ vqDev.phase = "driver"
    /\ \/ Phase("features")
       \/ Phase("absent")
    /\ UNCHANGED <<vq, vqFree>> /\ Untouched

setupQueue ==
    /\ vqDev.phase = "features"
    /\ vq' = [vq EXCEPT !.next = [d \in Descs |-> d + 1], !.free = 0, !.nfree = VqLength]
    /\ Phase("queue")
    /\ UNCHANGED vqFree /\ Untouched

\* an interrupt handler cannot be had, or DRIVER_OK is not confirmed: the 9p
\* port gives up, the GPU goes on
enableDevice ==
    /\ vqDev.phase = "queue"
    /\ \/ Phase("enabled")
       \/ vqDev.kind = "9p" /\ Phase("absent")
    /\ UNCHANGED <<vq, vqFree>> /\ Untouched

initWithTransport ==
    /\ vqDev.phase = "enabled"
    /\ Phase("running")
    /\ vqFree' = IF vqDev.kind = "9p" THEN [r \in Reqs |-> r] ELSE <<>>
    /\ UNCHANGED vq /\ Untouched

----------------------------------------------------------------------------
(* The queue *)

\* the n descriptors at the head of the free list
FirstFree(n) ==
    LET nth[i \in 1 .. n] == IF i = 1 THEN vq.free ELSE vq.next[nth[i - 1]]
    IN  nth

\* what allocateDescNumOnQueue asserts n times: the MMIO transport's also
\* that another descriptor is left
CanAllocate(n) == vq.nfree >= n + (IF vqDev.mmio THEN 1 ELSE 0)

\* the chain of descs, with the flag of its last one left as it was
StaleFlag(descs) ==
    LET n == Len(descs)
    IN  [vq EXCEPT !.next = [d \in Descs |-> IF \E i \in 1 .. n - 1 : descs[i] = d
                                             THEN descs[SelectInSeq(descs, LAMBDA x : x = d) + 1]
                                             ELSE vq.next[d]],
                   !.more = vq.more \union {descs[i] : i \in 1 .. n - 1},
                   !.free = vq.next[descs[n]],
                   !.nfree = @ - n]

\* the chain of descs, taken off the free list
WithChain(descs) ==
    LET n == Len(descs)
    IN  [vq EXCEPT !.next = [d \in Descs |-> IF \E i \in 1 .. n - 1 : descs[i] = d
                                             THEN descs[SelectInSeq(descs, LAMBDA x : x = d) + 1]
                                             ELSE vq.next[d]],
                   !.more = (vq.more \ {descs[n]}) \union {descs[i] : i \in 1 .. n - 1},
                   !.free = vq.next[descs[n]],
                   !.nfree = @ - n]

submitDescNum(q, d) ==
    [q EXCEPT !.avail[q.availIdx % VqLength] = d,
              !.availIdx = (@ + 1) % VqWrap]

freeDescNum(q, d) ==
    [q EXCEPT !.next[d] = q.free, !.free = d, !.nfree = @ + 1]

\* the descriptors reached from d, as processUsedDescriptor walks them
ChainFrom(d) ==
    LET nth[i \in 0 .. VqLength] ==
            IF i = 0 THEN d
            ELSE IF nth[i - 1] \in vq.more THEN vq.next[nth[i - 1]] ELSE Empty
        n == CHOOSE i \in 1 .. VqLength : nth[i] = Empty /\ \A j \in 1 .. i - 1 : nth[j] # Empty
    IN  [i \in 1 .. n |-> nth[i - 1]]

----------------------------------------------------------------------------
(* The device (external): takes chains in order, finishes them in any *)

DeviceTake ==
    /\ vqDevice.seen # vq.availIdx
    /\ LET slot == vqDevice.seen % VqLength
       IN  /\ vqDevice' = [vqDevice EXCEPT !.seen = (@ + 1) % VqWrap, !.taken = @ \union {vq.avail[slot]}]
           /\ vq' = [vq EXCEPT !.avail[slot] = Empty]
    /\ UNCHANGED <<vqDev, vqDpc, vqAt, vqReq, vqFree, vqInFlight, vqTail, vqPending, vqIop, vqFlushes, vqHalted>>

DeviceFinish(d) ==
    /\ d \in vqDevice.taken
    /\ vqDevice' = [vqDevice EXCEPT !.taken = @ \ {d}, !.isr = TRUE]
    /\ vq' = [vq EXCEPT !.used[vq.usedIdx % VqLength] = d, !.usedIdx = (@ + 1) % VqWrap]
    /\ UNCHANGED <<vqDev, vqDpc, vqAt, vqReq, vqFree, vqInFlight, vqTail, vqPending, vqIop, vqFlushes, vqHalted>>

\* reading, or acknowledging, the status lowers the interrupt
intx_handler ==
    /\ vqDevice.isr
    /\ vqDevice' = [vqDevice EXCEPT !.isr = FALSE]
    /\ vqDpc' = TRUE
    /\ UNCHANGED <<vqDev, vq, vqAt, vqReq, vqFree, vqInFlight, vqTail, vqPending, vqIop, vqFlushes, vqHalted>>

----------------------------------------------------------------------------
(* The 9p port *)

ndescs(i) == 2 + vqIop[i].entries

\* TAILQ_REMOVE through the wrong head: right unless it is the last
TakeRequest(r) ==
    /\ vqFree' = Tail(vqFree)
    /\ vqTail' = IF Len(vqFree) = 1 THEN r ELSE vqTail

submitRequest(i) ==
    IF vqFree = <<>> \/ ~CanAllocate(ndescs(i))
    THEN HaltVq
    ELSE LET r     == Head(vqFree)
             descs == FirstFree(ndescs(i))
         IN  /\ TakeRequest(r)
             /\ vqReq' = [vqReq EXCEPT ![r] = [iop |-> i, first |-> descs[1], n |-> Len(descs)]]
             /\ vqInFlight' = <<r>> \o vqInFlight
             /\ vq' = submitDescNum(WithChain(descs), descs[1])
             /\ vqPending' = Tail(vqPending)
             /\ UNCHANGED <<vqDev, vqDevice, vqDpc, vqAt, vqIop, vqFlushes, vqHalted>>

\* a turn of the loop over the pending packets; one that does not fit has
\* been taken off the list, and is dropped
additionalDeferredProcessing ==
    /\ vqAt = "submit"
    /\ IF vqDev.kind = "gpu" \/ vq.nfree < 2 \/ vqPending = <<>>
       THEN /\ vqAt' = "none"
            /\ UNCHANGED <<vqDev, vq, vqDevice, vqDpc, vqReq, vqFree, vqInFlight, vqTail, vqPending, vqIop, vqFlushes, vqHalted>>
       ELSE IF ndescs(Head(vqPending)) =< vq.nfree
       THEN submitRequest(Head(vqPending))
       ELSE /\ vqAt' = "none"
            /\ vqPending' = Tail(vqPending)
            /\ vqIop' = [vqIop EXCEPT ![Head(vqPending)].at = "dropped"]
            /\ UNCHANGED <<vqDev, vq, vqDevice, vqDpc, vqReq, vqFree, vqInFlight, vqTail, vqFlushes, vqHalted>>

port_dispatchIOP(i, e) ==
    /\ vqDev.kind = "9p" /\ vqDev.phase = "running"
    /\ vqAt = "none"
    /\ vqIop[i].at = "idle" /\ \A j \in 1 .. i - 1 : vqIop[j].at # "idle"
    /\ vqIop' = [vqIop EXCEPT ![i] = [at |-> "sent", entries |-> e]]
    /\ vqPending' = Append(vqPending, i)
    /\ vqAt' = "submit"
    /\ UNCHANGED <<vqDev, vq, vqDevice, vqDpc, vqReq, vqFree, vqInFlight, vqTail, vqFlushes, vqHalted>>

\* TAILQ_INSERT_TAIL into free_reqs: if its tail pointer is lost in a request
\* that is in flight, what follows that request there is cut off instead
GiveBack(r, inFlight) ==
    IF vqTail = NoReq
    THEN vqFree' = Append(vqFree, r) /\ vqInFlight' = inFlight /\ UNCHANGED vqTail
    ELSE LET k == SelectInSeq(inFlight, LAMBDA x : x = vqTail)
         IN  /\ vqInFlight' = IF k = 0 THEN inFlight ELSE Append(SubSeq(inFlight, 1, k), r)
             /\ vqTail' = r
             /\ UNCHANGED vqFree

\* the requests in flight whose chain starts at d
Found(d) == {r \in ToSet(vqInFlight) : vqReq[r].first = d}

Looked == [vq EXCEPT !.used[vq.lastSeen] = Empty, !.lastSeen = (@ + 1) % VqLength]

\* processUsedDescriptor of the 9p port, and iop_continue
PortUsed(d) ==
    IF Found(d) = {} \/ (\A r \in Found(d) : vqReq[r].n # Len(ChainFrom(d)))
    THEN HaltVq
    ELSE LET r == vqInFlight[SelectInSeq(vqInFlight, LAMBDA x : vqReq[x].first = d)]
         IN  /\ vq' = FoldLeft(freeDescNum, Looked, ChainFrom(d))
             /\ GiveBack(r, Remove(vqInFlight, r))
             /\ vqIop' = [vqIop EXCEPT ![vqReq[r].iop].at = IF @ = "sent" THEN "answered" ELSE "again"]
             /\ vqReq' = [vqReq EXCEPT ![r].iop = NoIop]
             /\ UNCHANGED <<vqDev, vqDevice, vqDpc, vqAt, vqPending, vqFlushes, vqHalted>>

----------------------------------------------------------------------------
(* The GPU *)

\* Put a command on the queue.  A request still in flight from an earlier
\* time would be linked into the list twice: the model stops there.
submitCommand(g) ==
    IF ~CanAllocate(2) \/ g \in ToSet(vqInFlight)
    THEN HaltVq
    ELSE LET descs == FirstFree(2)
         IN  /\ vq' = submitDescNum(WithChain(descs), descs[1])
             /\ vqReq' = [vqReq EXCEPT ![g].first = descs[1], ![g].n = 2]
             /\ vqInFlight' = <<g>> \o vqInFlight
             /\ UNCHANGED <<vqDevice, vqDpc, vqAt, vqFree, vqTail, vqPending, vqIop, vqHalted>>

\* one of the four commands of start, each awaited before the next
NextPhase == [running |-> "create", create |-> "attach", attach |-> "scanout", scanout |-> "flushing"]

start ==
    /\ vqDev.kind = "gpu" /\ vqDev.phase \in DOMAIN NextPhase
    /\ vqAt = "none" /\ vqInFlight = <<>>
    /\ submitCommand(GpuStart)
    /\ IF vqHalted' THEN TRUE ELSE Phase(NextPhase[vqDev.phase]) /\ UNCHANGED vqFlushes

FlushTurn == IF vqFlushes % 2 = 0 THEN GpuTransfer ELSE GpuFlush

\* the timer's DPC: the transfer, then the flush, neither awaited
flush ==
    /\ vqDev.phase = "flushing" /\ vqAt = "none"
    /\ vqFlushes < 2 * MaxFlushes
    /\ GpuStart \notin ToSet(vqInFlight)
    /\ submitCommand(FlushTurn)
    /\ IF vqHalted' THEN TRUE ELSE vqFlushes' = vqFlushes + 1 /\ UNCHANGED vqDev

\* processUsedDescriptor of the GPU
GpuUsed(d) ==
    IF Found(d) = {}
    THEN HaltVq
    ELSE LET g == CHOOSE r \in Found(d) : TRUE
         IN  /\ vq' = freeDescNum(freeDescNum(Looked, vq.next[d]), d)
             /\ vqInFlight' = Remove(vqInFlight, g)
             /\ UNCHANGED <<vqDev, vqDevice, vqDpc, vqAt, vqReq, vqFree, vqTail, vqPending, vqIop, vqFlushes, vqHalted>>

----------------------------------------------------------------------------
(* The transport's DPC *)

deferredProcessing ==
    \/ /\ vqDpc /\ vqAt = "none"
       /\ vqDpc' = FALSE
       /\ vqAt' = "used"
       /\ UNCHANGED <<vqDev, vq, vqDevice, vqReq, vqFree, vqInFlight, vqTail, vqPending, vqIop, vqFlushes, vqHalted>>
    \/ /\ vqAt = "used" /\ vq.lastSeen # vq.usedIdx % VqLength
       /\ IF vqDev.kind = "9p" THEN PortUsed(vq.used[vq.lastSeen]) ELSE GpuUsed(vq.used[vq.lastSeen])
    \/ /\ vqAt = "used" /\ vq.lastSeen = vq.usedIdx % VqLength
       /\ vqAt' = "submit"
       /\ UNCHANGED <<vqDev, vq, vqDevice, vqDpc, vqReq, vqFree, vqInFlight, vqTail, vqPending, vqIop, vqFlushes, vqHalted>>

VqNext ==
    /\ ~vqHalted
    /\ \/ exchangeFeatures
       \/ setupQueue
       \/ enableDevice
       \/ initWithTransport
       \/ DeviceTake
       \/ \E d \in Descs : DeviceFinish(d)
       \/ intx_handler
       \/ \E i \in VqIops, e \in MdlEntries : port_dispatchIOP(i, e)
       \/ additionalDeferredProcessing
       \/ start
       \/ flush
       \/ deferredProcessing

----------------------------------------------------------------------------
(* The property *)

FreeList ==
    LET nth[i \in 0 .. VqLength] ==
            IF i = 0 THEN vq.free ELSE IF nth[i - 1] = Empty THEN Empty ELSE vq.next[nth[i - 1]]
    IN  nth

Busy == {r \in ToSet(vqInFlight) : vqDev.kind = "gpu" \/ vqReq[r].iop # NoIop}

\* Every descriptor is on the free list, which is as long as nfree_descs
\* says, or in the chain of exactly one request in flight; every chain is
\* with exactly one of the two rings or the device, so that no completion
\* is lost by a ring running over; while completions are on the used ring an
\* interrupt or the DPC is on its way; and a packet that was sent and not
\* dropped is pending or in flight, in one place, and is answered once.
\* Only after the last free request was taken, after the MMIO transport was
\* asked for the last descriptor, or when the GPU's timer finds its command
\* still in flight, does the driver lose track or stop.
RingExact ==
    vqDev.phase \notin {"driver", "features", "queue", "enabled", "absent"} =>
    /\ vqHalted => \/ vqTail # NoReq
                   \/ vqDev.mmio /\ vqPending # <<>> /\ ndescs(Head(vqPending)) = vq.nfree
                   \/ vqDev.phase = "flushing" /\ FlushTurn \in ToSet(vqInFlight)
    /\ \A i \in VqIops : vqIop[i].at # "again"
    /\ vqTail = NoReq =>
       /\ LET free == {FreeList[i] : i \in 0 .. vq.nfree - 1}
              chain(r) == ToSet(ChainFrom(vqReq[r].first))
          IN  /\ Cardinality(free) = vq.nfree /\ Empty \notin free
              /\ FreeList[vq.nfree] = Empty
              /\ \A r \in Busy : Cardinality(chain(r)) = vqReq[r].n /\ chain(r) \intersect free = {}
              /\ \A r, s \in Busy : r # s => chain(r) \intersect chain(s) = {}
              /\ free \union UNION {chain(r) : r \in Busy} = Descs
       /\ \A r \in Busy :
             LET d == vqReq[r].first
             IN  Cardinality({s \in Descs : vq.avail[s] = d}) + Cardinality({s \in Descs : vq.used[s] = d})
                 + (IF d \in vqDevice.taken THEN 1 ELSE 0) = 1
       /\ vqDev.kind = "9p" => Busy = ToSet(vqInFlight) /\ ToSet(vqFree) = Reqs \ Busy
       /\ \A i \in VqIops : (vqIop[i].at = "sent") =
             (Cardinality({k \in DOMAIN vqPending : vqPending[k] = i})
              + Cardinality({r \in Busy : vqReq[r].iop = i}) = 1)
    /\ vq.usedIdx % VqLength # vq.lastSeen => vqDevice.isr \/ vqDpc \/ vqAt = "used"
=============================================================================
