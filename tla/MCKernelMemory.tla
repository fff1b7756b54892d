-------------------------- MODULE MCKernelMemory --------------------------
(***************************************************************************)
(* The data structures of kernel memory management on small instances.  A  *)
(* behaviour works on one of them: the first state picks which.            *)
(***************************************************************************)
EXTENDS VmMap, KWired, Kalloc, Kmem, Buddy, WsList, VmTables, Ubc

VARIABLE machine

MCSpans == <<<<4, 6>>, <<10, 2>>>>

(* Page frame ranges of the boot loader's memory map. *)
Frames(base, limit, kind) == [base |-> base, limit |-> limit, kind |-> kind]
MCMemoryMap == <<Frames(4, 9, "usable"), Frames(9, 10, "reclaimable"), Frames(10, 12, "usable"),
                 Frames(12, 13, "other"), Frames(14, 16, "usable")>>
MCBootUsed == <<10>>

MCvpfn_hash == [v \in Vpfns |-> (v \div 2) % (HashSize - 1)]

(* Three levels; the table at the bottom has two entries. *)
MCFanout == <<1, 1, 2>>

MCInit ==
  /\ machine \in {"arena", "map", "kwired", "kalloc", "kmem", "buddy", "wsl", "tables", "ubc"}
  /\ ArenaInit /\ MapInit /\ KWiredInit /\ KallocInit /\ KmemInit /\ BuddyInit /\ WslInit /\ ubc_init
  /\ \E shared \in IF machine = "tables" THEN SUBSET Addresses ELSE {{}} : TablesInit(shared)

MCNext ==
  /\ UNCHANGED machine
  /\ \/ /\ machine = "arena" /\ ArenaNext
        /\ UNCHANGED <<mapVars, kwiredVars, kallocVars, kmemVars, buddyVars, wslVars, tableVars, ubcVars>>
     \/ /\ machine = "map" /\ MapNext
        /\ UNCHANGED <<kwiredVars, kallocVars, kmemVars, buddyVars, wslVars, tableVars, ubcVars>>
     \/ /\ machine = "kwired" /\ KWiredNext
        /\ UNCHANGED <<mapVars, kallocVars, kmemVars, buddyVars, wslVars, tableVars, ubcVars>>
     \/ /\ machine = "kalloc" /\ KallocNext
        /\ UNCHANGED <<vmemVars, mapVars, kwiredVars, kmemVars, buddyVars, wslVars, tableVars, ubcVars>>
     \/ /\ machine = "kmem" /\ KmemNext
        /\ UNCHANGED <<vmemVars, mapVars, kwiredVars, kallocVars, buddyVars, wslVars, tableVars, ubcVars>>
     \/ /\ machine = "buddy" /\ BuddyNext
        /\ UNCHANGED <<vmemVars, mapVars, kwiredVars, kallocVars, kmemVars, wslVars, tableVars, ubcVars>>
     \/ /\ machine = "wsl" /\ WslNext
        /\ UNCHANGED <<vmemVars, mapVars, kwiredVars, kallocVars, kmemVars, buddyVars, tableVars, ubcVars>>
     \/ /\ machine = "tables" /\ TablesNext
        /\ UNCHANGED <<vmemVars, mapVars, kwiredVars, kallocVars, kmemVars, buddyVars, wslVars, ubcVars>>
     \/ /\ machine = "ubc" /\ UbcNext
        /\ UNCHANGED <<vmemVars, mapVars, kwiredVars, kallocVars, kmemVars, buddyVars, wslVars, tableVars>>

(* Address ranges are tracked exactly, by vmem and by both its users: the  *)
(* segments of an arena tile its spans without overlap and are allocated   *)
(* exactly where a caller holds them (vmem.c), the entries of a map are    *)
(* the allocations of its arena (map.c), and the wired kernel blocks are   *)
(* mapped where they were allocated and nowhere else (kwired.c); and a     *)
(* general purpose block goes back to where it came from (kmem_cache.c).   *)
AddressesExact ==
  /\ ArenaExact
  /\ machine = "map" => MapExact
  /\ machine = "kwired" => WiredExact
  /\ KallocExact
=============================================================================
