----------------------------- MODULE MCVmPages -----------------------------
(* Instances of VmPages for TLC.  Init picks one of the configurations: two   *)
(* threads that collide on a page, a fork, two forks in turn, two processes   *)
(* that share a page of the file, and one that maps it both ways.             *)
EXTENDS VmPages, TLC

CONSTANTS p1, p2, p3, t1, t2, t3, a, f1, c, g1, g2, k1, k2

MCProc == (t1 :> p1) @@ (t2 :> p1) @@ (t3 :> p2)
MCObject == (f1 :> 0) @@ (c :> 0)
Conf(procs, threads, pages, frames, fairly_low) ==
    [procs |-> procs, threads |-> threads, pages |-> pages, frames |-> frames,
     fairly_low |-> fairly_low]
MCConfigs ==
    {Conf({p1}, {t1, t2}, {a, f1}, {g1}, 0),
     Conf({p1, p2}, {t1}, {a, f1}, {g1}, 0),
     Conf({p1, p2}, {t1, t3}, {a}, {g1, g2}, 2),
     Conf({p1, p2, p3}, {t1}, {a}, {g1, g2}, 2),
     Conf({p1, p2}, {t1, t3}, {f1}, {g1, g2}, 2),
     Conf({p1}, {t1}, {f1, c}, {g1, g2}, 2)}
(* t1 and t2 are threads of one process; no action tells two fork pages apart *)
PageSymmetry == {f @@ t @@ k : f \in Permutations(Frames), t \in Permutations({t1, t2}),
                               k \in Permutations(ForkIds)}
============================================================================
