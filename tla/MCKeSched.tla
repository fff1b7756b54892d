----------------------------- MODULE MCKeSched -----------------------------
(* Two CPUs and two threads.  One DPC stands for a driver's and for the     *)
(* timers' of both CPUs: the instance with the most contention for it.      *)
EXTENDS KeSched

CONSTANTS t1, t2, d1

MCTimer == [c \in Cpus |-> d1]
=============================================================================
