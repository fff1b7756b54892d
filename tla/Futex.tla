------------------------------- MODULE Futex -------------------------------
(***************************************************************************)
(* Futexes (executive/futex.c): a word of user memory on which threads     *)
(* wait while it has the value they expect.  The futex of a word is found  *)
(* or made under futex_lock and counted; the comparison, the wait on its   *)
(* semaphore and the release are steps of their own.  A waker stores a new *)
(* value and wakes.                                                        *)
(*                                                                         *)
(* The word is mapped shared by the two processes, or privately by each.   *)
(***************************************************************************)
EXTENDS Integers, FiniteSets

CONSTANTS FxWaiters,   \* threads that wait, once each
          FxSecond,    \* those of them that are in the second process
          MaxWakes     \* calls of krx_futex_wake, by a thread of the first process

VARIABLES fxShared,    \* how the word is mapped
          fxWord,      \* per key the word: 0 is what the waiters expect
          fxTree,      \* per key [refcnt, tokens, made]: refcnt 0 is absent
          fxCall,      \* per waiter [pc, made]
          fxWaker,     \* [pc, wakes]
          fxLeaked     \* per key references that nobody will release

fxVars == <<fxShared, fxWord, fxTree, fxCall, fxWaker, fxLeaked>>

ProcOfWaiter(t) == IF t \in FxSecond THEN 2 ELSE 1
Keys == {0, 1, 2}     \* the shared object, the word of each process
get_object_and_offset(p) == IF fxShared THEN 0 ELSE p
KeyOf(t) == get_object_and_offset(ProcOfWaiter(t))
WakeKey == get_object_and_offset(1)

FxInit ==
    /\ fxShared \in BOOLEAN
    /\ fxWord = [k \in Keys |-> 0]
    /\ fxTree = [k \in Keys |-> [refcnt |-> 0, tokens |-> 0, made |-> 0]]
    /\ fxCall = [t \in FxWaiters |-> [pc |-> "start", made |-> 0]]
    /\ fxWaker = [pc |-> "idle", wakes |-> 0]
    /\ fxLeaked = [k \in Keys |-> 0]

\* a new futex has a semaphore of count 0
futex_find(k) ==
    [fxTree EXCEPT ![k] =
        IF @.refcnt = 0 THEN [refcnt |-> 1, tokens |-> 0, made |-> @.made + 1] ELSE [@ EXCEPT !.refcnt = @ + 1]]

futex_release(k) == [fxTree EXCEPT ![k].refcnt = @ - 1]

FxGoto(t, p) == fxCall' = [fxCall EXCEPT ![t].pc = p]
Asleep(k) == {t \in FxWaiters : KeyOf(t) = k /\ fxCall[t].pc = "asleep"}

krx_futex_wait(t) ==
    LET k == KeyOf(t) IN
    \/ /\ fxCall[t].pc = "start"
       /\ fxTree' = futex_find(k)
       /\ fxCall' = [fxCall EXCEPT ![t] = [pc |-> "found", made |-> fxTree'[k].made]]
       /\ UNCHANGED <<fxShared, fxWord, fxWaker, fxLeaked>>
    \/ /\ fxCall[t].pc = "found" /\ fxWord[k] # 0
       /\ fxLeaked' = [fxLeaked EXCEPT ![k] = @ + 1]    \* -EAGAIN without a release
       /\ FxGoto(t, "again")
       /\ UNCHANGED <<fxShared, fxWord, fxTree, fxWaker>>
    \/ /\ fxCall[t].pc = "found" /\ fxWord[k] = 0
       /\ FxGoto(t, "compared")
       /\ UNCHANGED <<fxShared, fxWord, fxTree, fxWaker, fxLeaked>>
    \/ /\ fxCall[t].pc = "compared"
       /\ IF fxTree[k].tokens > 0
          THEN fxTree' = [fxTree EXCEPT ![k].tokens = @ - 1] /\ FxGoto(t, "woken")
          ELSE FxGoto(t, "asleep") /\ UNCHANGED fxTree
       /\ UNCHANGED <<fxShared, fxWord, fxWaker, fxLeaked>>
    \/ /\ fxCall[t].pc = "asleep"
       /\ FxGoto(t, "timedout")                          \* or alerted
       /\ UNCHANGED <<fxShared, fxWord, fxTree, fxWaker, fxLeaked>>
    \/ /\ fxCall[t].pc \in {"woken", "timedout"}
       /\ fxTree' = futex_release(k)
       /\ FxGoto(t, IF fxCall[t].pc = "woken" THEN "out" ELSE "gaveup")
       /\ UNCHANGED <<fxShared, fxWord, fxWaker, fxLeaked>>

\* ki_signal gives the one token to a waiter if there is one.
ke_semaphore_release_maxone(k) ==
    IF Asleep(k) # {}
    THEN /\ \E t \in Asleep(k) : FxGoto(t, "woken")
         /\ fxTree' = [fxTree EXCEPT ![k].tokens = 0]
    ELSE fxTree' = [fxTree EXCEPT ![k].tokens = 1] /\ UNCHANGED fxCall

krx_futex_wake ==
    LET k == WakeKey IN
    \/ /\ fxWaker.pc = "idle" /\ fxWaker.wakes < MaxWakes
       /\ fxWord' = [fxWord EXCEPT ![k] = 1]             \* the user's store
       /\ fxWaker' = [fxWaker EXCEPT !.pc = "stored"]
       /\ UNCHANGED <<fxShared, fxTree, fxCall, fxLeaked>>
    \/ /\ fxWaker.pc = "stored"
       /\ fxTree' = futex_find(k)
       /\ fxWaker' = [fxWaker EXCEPT !.pc = "found"]
       /\ UNCHANGED <<fxShared, fxWord, fxCall, fxLeaked>>
    \/ /\ fxWaker.pc = "found"
       /\ ke_semaphore_release_maxone(k)
       /\ fxWaker' = [fxWaker EXCEPT !.pc = "signalled", !.wakes = @ + 1]
       /\ UNCHANGED <<fxShared, fxWord, fxLeaked>>
    \/ /\ fxWaker.pc = "signalled"
       /\ fxTree' = futex_release(k)
       /\ fxWaker' = [fxWaker EXCEPT !.pc = "idle"]
       /\ UNCHANGED <<fxShared, fxWord, fxCall, fxLeaked>>

FxNext == (\E t \in FxWaiters : krx_futex_wait(t)) \/ krx_futex_wake

(***************************************************************************)
(* Properties.                                                             *)
(***************************************************************************)

Inside(k) == {t \in FxWaiters : KeyOf(t) = k /\ fxCall[t].pc \in {"found", "compared", "asleep", "woken", "timedout"}}
WakerIn(k) == IF k = WakeKey /\ fxWaker.pc \in {"found", "signalled"} THEN 1 ELSE 0

\* A futex is referenced by exactly the calls that are using it and by those
\* that returned -EAGAIN, so no call uses one that has left the tree and every
\* wake finds the futex its waiters are on; and the first wake is not lost:
\* once the word has changed and a wake has run, a waiter that was told to
\* sleep has been woken, has a token to take, or gave up
\* (futex_find and futex_release around the unlocked comparison).
FutexesExact ==
    /\ \A k \in Keys : fxTree[k].refcnt = Cardinality(Inside(k)) + WakerIn(k) + fxLeaked[k]
    /\ \A k \in Keys : \A t \in Inside(k) : fxCall[t].made = fxTree[k].made
    /\ fxWaker.wakes > 0 /\ Asleep(WakeKey) # {} =>
          \/ fxTree[WakeKey].tokens > 0
          \/ \E t \in FxWaiters : KeyOf(t) = WakeKey /\ fxCall[t].pc \in {"woken", "out", "timedout", "gaveup"}
=============================================================================
