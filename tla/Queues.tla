------------------------------- MODULE Queues -------------------------------
(***************************************************************************)
(* The TAILQs of kdk/queue.h as sequences.  TAILQ_INSERT_TAIL is Append,   *)
(* TAILQ_FIRST is Head, removing the first entry is Tail and TAILQ_CONCAT  *)
(* is \o.  An entry has one pair of links, so a sound queue is injective   *)
(* (Functions!IsInjective).                                                *)
(***************************************************************************)
EXTENDS Integers, Sequences, Functions

(* the entry e is linked into q *)
OnQueue(q, e) == \E i \in 1 .. Len(q) : q[i] = e

(* the entry d is linked into q somewhere before e *)
Before(q, d, e) == \E i, j \in 1 .. Len(q) : i < j /\ q[i] = d /\ q[j] = e

(* TAILQ_REMOVE of the i-th entry *)
Unlink(q, i) == SubSeq(q, 1, i - 1) \o SubSeq(q, i + 1, Len(q))
=============================================================================
