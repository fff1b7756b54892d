------------------------------ MODULE MCKeWait ------------------------------
(* Workloads for the dispatcher objects: who waits on what, and how.        *)
EXTENDS KeWaitLine

CONSTANTS t1, t2, t3, m1, m2, s1, e1

Everyone(uses_) == [t \in Threads |-> uses_]

Pair(uses_) == [t \in Threads |-> IF t = t3 THEN {} ELSE uses_]

(* two threads lock a mutex for as long as it takes, one gives up *)
Impatient(m) ==
    [t \in Threads |-> IF t = t3 THEN {<<m, "timed">>} ELSE {<<m, "forever">>}]

(* one thread polls or waits for an event another one signals and clears *)
Poller(e) == [t \in Threads |-> CASE t = t1 -> {<<e, "poll">>, <<e, "timed">>}
                                  [] t = t2 -> {<<e, "signal">>}
                                  [] OTHER -> {}]

(* Workloads under which no thread waits again behind a thread that was     *)
(* just woken, and nobody polls an object that others wait for              *)
MCWorkloads ==
    { Everyone({<<m1, "forever">>}),
      Impatient(m1),
      Pair({<<m1, "forever">>, <<s1, "timed">>}),
      Pair({<<m1, "forever">>, <<e1, "forever">>, <<e1, "timed">>}),
      Poller(e1) }

(* three threads nest two mutexes *)
NestedWorkloads == { Everyone({<<m1, "forever">>, <<m2, "forever">>}) }

(* try-locks: two threads poll a mutex *)
TryLockWorkloads == { Everyone({<<m1, "poll">>}) }

(* two threads take a mutex with a timeout *)
TimedWorkloads == { Everyone({<<m1, "timed">>}) }
=============================================================================
