----------------------------- MODULE MCServices -----------------------------
(***************************************************************************)
(* The executive's services, the file system layers and the drivers on     *)
(* small instances.  A behaviour works on one of them: the first state     *)
(* picks which.                                                            *)
(***************************************************************************)
EXTENDS ObjSpace, Iop, Epoll, Futex, Names, Ninep, VirtIO

VARIABLE machine

(* A root with a directory a, which has a file c, and a file b. *)
MCParent == [e \in {"a", "b", "c"} |-> IF e = "c" THEN "a" ELSE "r"]
MCPaths == {<<"a">>, <<"b">>, <<"a", "c">>}

MCInit ==
  /\ machine \in {"objects", "packets", "epoll", "futex", "names", "ninep", "virtio"}
  /\ ObjInit /\ IopInit /\ EpInit /\ FxInit /\ NcInit /\ NpInit /\ VqInit
  /\ machine = "futex" \/ fxShared = FALSE
  /\ machine = "virtio" \/ vqDev.kind = "gpu"

MCNext ==
  /\ UNCHANGED machine
  /\ \/ /\ machine = "objects" /\ ObjNext
        /\ UNCHANGED <<iopVars, epVars, fxVars, ncVars, npVars, vqVars>>
     \/ /\ machine = "packets" /\ IopNext
        /\ UNCHANGED <<objVars, epVars, fxVars, ncVars, npVars, vqVars>>
     \/ /\ machine = "epoll" /\ EpNext
        /\ UNCHANGED <<objVars, iopVars, fxVars, ncVars, npVars, vqVars>>
     \/ /\ machine = "futex" /\ FxNext
        /\ UNCHANGED <<objVars, iopVars, epVars, ncVars, npVars, vqVars>>
     \/ /\ machine = "names" /\ NcNext
        /\ UNCHANGED <<objVars, iopVars, epVars, fxVars, npVars, vqVars>>
     \/ /\ machine = "ninep" /\ NpNext
        /\ UNCHANGED <<objVars, iopVars, epVars, fxVars, ncVars, vqVars>>
     \/ /\ machine = "virtio" /\ VqNext
        /\ UNCHANGED <<objVars, iopVars, epVars, fxVars, ncVars, npVars>>

(* What is counted is what is referred to: files and processes by their    *)
(* tables and callers (objtab.c, objman.c), name cache entries by walks    *)
(* and children (namecache.c), futexes by the calls inside (futex.c).      *)
ReferencesExact ==
  /\ machine = "objects" => ObjectsExact
  /\ machine = "names" => NamesExact
  /\ machine = "futex" => FutexesExact
=============================================================================
