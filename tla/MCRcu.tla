-------------------------------- MODULE MCRcu --------------------------------
(* Two and three CPUs retiring a few data.                                    *)
EXTENDS Rcu

CONSTANTS c1, c2, c3, e1, e2
=============================================================================
