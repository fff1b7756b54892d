----------------------------- MODULE KeWaitLine -----------------------------
(***************************************************************************)
(* The dispatcher of KeWait implements the line of WaitSpec.               *)
(***************************************************************************)
EXTENDS KeWait

(* How the machinery looks from outside: a queued wait block stands in line *)
(* as long as nobody satisfied its waiter.                                  *)
InLine(t) == InWait(t) /\ status[t] # "Satisfied"

AheadOf(t, u) ==
    InLine(t) /\ InLine(u) /\ \E o \in Objects : Before(queue[o], t, u)

PhaseOf(t) == IF ~InWait(t) THEN "out"
              ELSE IF block[t] = "Acquired" THEN "granted"
              ELSE IF status[t] = "Satisfied" THEN "gaveup"
              ELSE "line"

WantOf(t) == IF InWait(t) THEN obj[t] ELSE NoObject

Order == {p \in Threads \X Threads : AheadOf(p[1], p[2])}
Phases == [t \in Threads |-> PhaseOf(t)]
Wants == [t \in Threads |-> WantOf(t)]

Outside ==
    INSTANCE WaitSpec WITH
        Nobody <- NoThread,
        Nothing <- NoObject,
        avail <- signalled,
        ahead <- Order,
        holder <- owner,
        phase <- Phases,
        want <- Wants

(* The dispatcher implements the line of WaitSpec: units are granted in     *)
(* order of arrival, nobody barges past a waiter, and a wait that gave up   *)
(* has no unit, through every race of signallers, timers and waiters.       *)
KeepsTheLine == Outside!WaitSpecification
=============================================================================
