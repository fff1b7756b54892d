------------------------------ MODULE VmMap ------------------------------
(***************************************************************************)
(* The map of an address space (vm/map.c) on its vmem arena: a tree of map *)
(* entries, each over one allocated range, and for each object the list of *)
(* the entries that map it.  The map lock is held for writing throughout.  *)
(*                                                                         *)
(* Addresses are page numbers.  An allocation that fails is fatal in the   *)
(* code, as is deallocating part of an entry (the new range is asked for   *)
(* with a maximum address, which vmem refuses) or an entry without an      *)
(* object (its list is taken from the null object): no step is taken.      *)
(***************************************************************************)
EXTENDS Vmem

CONSTANTS
  MapObjects,   \* file objects
  NoObject

VARIABLES
  vads,         \* the map entries [start, end, object]
  objects       \* per object: [maps, refs]: its list, and vnode references

mapVars == <<vads, objects>>

MapInit == vads = {} /\ objects = [o \in MapObjects |-> [maps |-> {}, refs |-> 0]]

Entry(h, o) == [start |-> h[1], end |-> h[1] + h[2], object |-> o]

vm_ps_map_object_view(o, size, min, exact) ==
  /\ vmem_xalloc(size, 0, min, exact)
  /\ LET e == Entry(CHOOSE h \in held' : h \notin held, o)
     IN  /\ vads' = vads \cup {e}
         /\ objects' = IF o = NoObject THEN objects
                       ELSE [objects EXCEPT ![o].maps = @ \cup {e}, ![o].refs = @ + 1]

vm_ps_allocate(size, min, exact) == vm_ps_map_object_view(NoObject, size, min, exact)

(* A view of physical memory maps its pages at once and has no object. *)
vm_ps_map_physical_view(size) ==
  /\ vmem_xalloc(size, 0, 0, FALSE)
  /\ vads' = vads \cup {Entry(CHOOSE h \in held' : h \notin held, NoObject)}
  /\ UNCHANGED objects

(* The entries a range encompasses go, one after the other. *)
vm_ps_deallocate(start, size) ==
  LET end  == start + size
      hit  == {e \in vads : ~(e.end <= start \/ e.start >= end)}
      Extent(e) == <<e.start, e.end - e.start>>
      Free(e, a) == xfree(a, Allocated(a, e.start))
  IN  /\ hit # {}
      /\ \A e \in hit : e.start >= start /\ e.end <= end /\ e.object # NoObject
      /\ arena' = FoldSet(Free, arena, hit)
      /\ held' = held \ {Extent(e) : e \in hit}
      /\ vads' = vads \ hit
      /\ objects' = [o \in MapObjects |->
                       [maps |-> objects[o].maps \ hit,
                        refs |-> objects[o].refs - Cardinality({e \in hit : e.object = o})]]

vmp_ps_vad_find(addr) == {e \in vads : e.start <= addr /\ addr < e.end}

MapNext ==
  \/ \E o \in MapObjects, size \in 1..MaxRequest :
       \/ vm_ps_map_object_view(o, size, 0, FALSE)
       \/ \E min \in Spans[1][1]..(Spans[1][1] + Spans[1][2] - 1) : vm_ps_map_object_view(o, size, min, TRUE)
  \/ \E size \in 1..MaxRequest : vm_ps_allocate(size, 0, FALSE) \/ vm_ps_map_physical_view(size)
  \/ \E start \in Spans[1][1]..(Spans[1][1] + Spans[1][2]), size \in 1..Spans[1][2] :
       vm_ps_deallocate(start, size)

(* A fault finds the one entry that covers its address (map.c:44-69), the  *)
(* entries are exactly the allocations of the arena, and an object has a   *)
(* vnode reference and a list element for each entry that maps it.         *)
MapExact ==
  /\ held = {<<e.start, e.end - e.start>> : e \in vads}
  /\ \A e \in vads, addr \in {x.start : x \in vads} \cup {x.end - 1 : x \in vads} :
       e \in vmp_ps_vad_find(addr) => vmp_ps_vad_find(addr) = {e}
  /\ \A o \in MapObjects :
       /\ objects[o].maps = {e \in vads : e.object = o}
       /\ objects[o].refs = Cardinality(objects[o].maps)
=============================================================================
