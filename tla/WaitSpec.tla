------------------------------ MODULE WaitSpec ------------------------------
(***************************************************************************)
(* What the dispatcher objects promise their callers, with none of the     *)
(* machinery: an object has a number of units to give (a mutex at most     *)
(* one), threads stand in line for it in the order they came, a unit goes  *)
(* to the first in line, nobody takes one past a line, and a thread leaves *)
(* with a unit or, having given up its place, with nothing.                *)
(***************************************************************************)
EXTENDS Naturals

CONSTANTS Threads, Objects, Mutexes, Events, Nobody, Nothing

VARIABLES
    avail,      \* units an object can give
    ahead,      \* <<t, u>>: t stands in the same line as u, before it
    holder,     \* who has a mutex
    phase,      \* of a thread: "out", "line", "granted" or "gaveup"
    want        \* the object a thread is in line for

specVars == <<avail, ahead, holder, phase, want>>

SpecInit ==
    /\ avail \in [Objects -> Nat]
    /\ ahead = {}
    /\ holder = [m \in Mutexes |-> Nobody]
    /\ phase = [t \in Threads |-> "out"]
    /\ want = [t \in Threads |-> Nothing]

Line(o) == {t \in Threads : phase[t] = "line" /\ want[t] = o}

(* events are not used up by the threads they let through *)
Give(o, t) ==
    /\ avail[o] > 0
    /\ avail' = IF o \in Events THEN avail
                ELSE [avail EXCEPT ![o] = @ - 1]
    /\ holder' = IF o \in Mutexes THEN [holder EXCEPT ![o] = t] ELSE holder

TakeNow(t, o) ==
    /\ phase[t] = "out"
    /\ Line(o) = {}
    /\ Give(o, t)
    /\ UNCHANGED <<ahead, phase, want>>

Join(t, o) ==
    /\ phase[t] = "out"
    /\ avail[o] = 0
    /\ ahead' = ahead \cup (Line(o) \X {t})
    /\ phase' = [phase EXCEPT ![t] = "line"]
    /\ want' = [want EXCEPT ![t] = o]
    /\ UNCHANGED <<avail, holder>>

(* the thread's place in its line is gone *)
StepOut(t) == ahead' = {p \in ahead : p[1] # t /\ p[2] # t}

Grant(t, o) ==
    /\ t \in Line(o)
    /\ \A u \in Threads : <<u, t>> \notin ahead
    /\ Give(o, t)
    /\ StepOut(t)
    /\ phase' = [phase EXCEPT ![t] = "granted"]
    /\ UNCHANGED want

(* a timeout *)
GiveUp(t) ==
    /\ phase[t] = "line"
    /\ StepOut(t)
    /\ phase' = [phase EXCEPT ![t] = "gaveup"]
    /\ UNCHANGED <<avail, holder, want>>

(* a poll gives up and leaves at once *)
Balk(t) ==
    /\ phase[t] = "line"
    /\ StepOut(t)
    /\ phase' = [phase EXCEPT ![t] = "out"]
    /\ want' = [want EXCEPT ![t] = Nothing]
    /\ UNCHANGED <<avail, holder>>

Leave(t) ==
    /\ phase[t] \in {"granted", "gaveup"}
    /\ phase' = [phase EXCEPT ![t] = "out"]
    /\ want' = [want EXCEPT ![t] = Nothing]
    /\ UNCHANGED <<avail, ahead, holder>>

(* only its holder puts a mutex back, and it is then the only unit *)
PutBack(t, m) ==
    /\ holder[m] = t
    /\ avail[m] = 0
    /\ phase[t] = "out"
    /\ avail' = [avail EXCEPT ![m] = 1]
    /\ holder' = [holder EXCEPT ![m] = Nobody]
    /\ UNCHANGED <<ahead, phase, want>>

Change(o) ==
    /\ o \notin Mutexes
    /\ avail'[o] \in Nat
    /\ avail' = [avail EXCEPT ![o] = avail'[o]]
    /\ UNCHANGED <<ahead, holder, phase, want>>

SpecNext ==
    \/ \E t \in Threads, o \in Objects :
          TakeNow(t, o) \/ Join(t, o) \/ Grant(t, o)
    \/ \E t \in Threads : GiveUp(t) \/ Balk(t) \/ Leave(t)
    \/ \E t \in Threads, m \in Mutexes : PutBack(t, m)
    \/ \E o \in Objects : Change(o)

WaitSpecification == SpecInit /\ [][SpecNext]_specVars
=============================================================================
