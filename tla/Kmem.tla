------------------------------ MODULE Kmem ------------------------------
(***************************************************************************)
(* One cache of the slab allocator (vm/kmem_cache.c) with its magazine     *)
(* layer.  A CPU runs an allocation or a free at DPC level, so that its    *)
(* magazines are its own; the depot and the slabs have a lock each, and    *)
(* other CPUs run between the two.                                         *)
(*                                                                         *)
(* Abstractions: a magazine and a slab's free list are sets, of which any  *)
(* member may be taken; making a slab takes a page (or, in a cache of      *)
(* large objects, pages, a header and a descriptor for each buffer), which *)
(* succeeds up to MaxSlabs times.                                          *)
(***************************************************************************)
EXTENDS Integers, Sequences, FiniteSets

CONSTANTS
  KmCpus,      \* the CPUs
  PerSlab,     \* slab_elems_per
  MaxSlabs,    \* the number of slabs the memory has room for
  MagSize,     \* kd_magsize (32 in the kernel)
  NoBuf        \* no buffer

VARIABLES
  slabs,       \* [free: slab -> set of buffers, first, last, next]
  mags,        \* for each CPU, [loaded, prev]
  depot,       \* [full, empty]: magazines
  kmPc,        \* for each CPU, <<what it is doing, buffer>>
  owned        \* the buffers the cache's users hold

kmemVars == <<slabs, mags, depot, kmPc, owned>>

Slabs == 1..MaxSlabs
Buffers == Slabs \X (1..PerSlab)
Nowhere == 0   \* a null link; also the queue's head when it is the tail

KmemInit ==
  /\ slabs = [free  |-> [s \in {} |-> {}],
              first |-> Nowhere, last |-> Nowhere, next |-> [s \in Slabs |-> Nowhere]]
  /\ mags = [c \in KmCpus |-> [loaded |-> {}, prev |-> {}]]
  /\ depot = [full |-> <<>>, empty |-> <<>>]
  /\ kmPc = [c \in KmCpus |-> <<"idle", NoBuf>>]
  /\ owned = {}

(* The queue of slabs: STAILQ_INSERT_HEAD, STAILQ_REMOVE of the first, and *)
(* STAILQ_INSERT_TAIL, with the links they leave behind.                   *)
InsertHead(q, s) ==
  [q EXCEPT !.next[s] = q.first, !.first = s,
            !.last = IF q.first = Nowhere THEN s ELSE @]

UnlinkFirst(q) ==
  [q EXCEPT !.first = q.next[q.first],
            !.last = IF q.next[q.first] = Nowhere THEN Nowhere ELSE @]

InsertTail(q, s) ==
  LET r == [q EXCEPT !.next[s] = Nowhere, !.last = s]
  IN  IF q.last = Nowhere THEN [r EXCEPT !.first = s] ELSE [r EXCEPT !.next[q.last] = s]

(* small_slab_new, large_slab_new: a slab of which every buffer is free. *)
slab_new(q) ==
  LET s == Cardinality(DOMAIN q.free) + 1
  IN  InsertHead([q EXCEPT !.free = [t \in DOMAIN @ \cup {s} |->
                                       IF t = s THEN {s} \X (1..PerSlab) ELSE @[t]]], s)

NeedsSlab(q) == q.first = Nowhere \/ q.free[q.first] = {}

(* The buffer goes out of the first slab, a new one if that has none; a    *)
(* slab that has no more goes to the back of the queue.                    *)
SlabTake(q, b) ==
  LET s == b[1]
      r == [q EXCEPT !.free[s] = @ \ {b}]
  IN  IF r.free[s] = {} THEN InsertTail(UnlinkFirst(r), s) ELSE r

kmem_slablayer_alloc(c) ==
  LET q == IF NeedsSlab(slabs) THEN slab_new(slabs) ELSE slabs
  IN  /\ kmPc[c][1] = "slab_alloc"
      /\ NeedsSlab(slabs) => Cardinality(DOMAIN slabs.free) < MaxSlabs
      /\ \E b \in q.free[q.first] :
           /\ slabs' = SlabTake(q, b)
           /\ owned' = owned \cup {b}
      /\ kmPc' = [kmPc EXCEPT ![c] = <<"idle", NoBuf>>]
      /\ UNCHANGED <<mags, depot>>

(* The slab of the first buffer freed goes to the front of the queue; it   *)
(* is not taken out of its place first.                                    *)
SlabPut(q, b) ==
  LET s == b[1]
      r == [q EXCEPT !.free[s] = @ \cup {b}]
  IN  IF Cardinality(r.free[s]) = 1 THEN InsertHead(r, s) ELSE r

kmem_slablayer_free(c) ==
  /\ kmPc[c][1] = "slab_free"
  /\ slabs' = SlabPut(slabs, kmPc[c][2])
  /\ kmPc' = [kmPc EXCEPT ![c] = <<"idle", NoBuf>>]
  /\ UNCHANGED <<mags, depot, owned>>

(* Hand out a round of magazine m, which becomes the loaded one. *)
Round(c, m, other) ==
  \E b \in m :
    /\ mags' = [mags EXCEPT ![c] = [loaded |-> m \ {b}, prev |-> other]]
    /\ owned' = owned \cup {b}
    /\ UNCHANGED kmPc

(* The loaded magazine, else the previous one swapped with it, else a full *)
(* one of the depot for the empty previous one, else the slabs.            *)
kmem_magazine_alloc(c) ==
  LET m == mags[c]
  IN  /\ kmPc[c][1] = "idle"
      /\ UNCHANGED slabs
      /\ \/ /\ m.loaded # {} \/ m.prev # {}
            /\ IF m.loaded # {} THEN Round(c, m.loaded, m.prev) ELSE Round(c, m.prev, m.loaded)
            /\ UNCHANGED depot
         \/ /\ m.loaded = {} /\ m.prev = {}
            /\ IF depot.full # <<>>
               THEN /\ Round(c, Head(depot.full), m.loaded)
                    /\ depot' = [full |-> Tail(depot.full), empty |-> <<m.prev>> \o depot.empty]
               ELSE /\ kmPc' = [kmPc EXCEPT ![c] = <<"slab_alloc", NoBuf>>]
                    /\ UNCHANGED <<mags, depot, owned>>

(* mutant of PutRound: the magazine it takes the place of is forgotten *)
PutRoundForgets(c, b, m, other) ==
  /\ mags' = [mags EXCEPT ![c] = [loaded |-> m \cup {b}, prev |-> {}]]
  /\ UNCHANGED kmPc

(* Put a buffer in magazine m, which becomes the loaded one. *)
PutRound(c, b, m, other) ==
  /\ mags' = [mags EXCEPT ![c] = [loaded |-> m \cup {b}, prev |-> other]]
  /\ UNCHANGED kmPc

(* The depot gives an empty magazine, or has one made while it has fewer   *)
(* empty than full ones; the full previous magazine goes to the depot.     *)
kmem_magazine_free(c, b) ==
  LET m == mags[c]
      room(x) == Cardinality(x) < MagSize
  IN  /\ kmPc[c][1] = "idle"
      /\ b \in owned
      /\ owned' = owned \ {b}
      /\ UNCHANGED slabs
      /\ \/ /\ room(m.loaded) \/ room(m.prev)
            /\ IF room(m.loaded) THEN PutRound(c, b, m.loaded, m.prev) ELSE PutRound(c, b, m.prev, m.loaded)
            /\ UNCHANGED depot
         \/ /\ ~room(m.loaded) /\ ~room(m.prev)
            /\ IF depot.empty # <<>> \/ Len(depot.empty) < Len(depot.full)
               THEN /\ PutRound(c, b, {}, m.loaded)
                    /\ depot' = [full  |-> <<m.prev>> \o depot.full,
                                 empty |-> IF depot.empty = <<>> THEN <<>> ELSE Tail(depot.empty)]
               ELSE /\ kmPc' = [kmPc EXCEPT ![c] = <<"slab_free", b>>]
                    /\ UNCHANGED <<mags, depot>>

KmemNext ==
  \E c \in KmCpus :
    \/ kmem_magazine_alloc(c)
    \/ \E b \in owned : kmem_magazine_free(c, b)
    \/ kmem_slablayer_alloc(c)
    \/ kmem_slablayer_free(c)

(* Every buffer of every slab is in exactly one place (kmem_cache.c): free *)
(* in its slab, a round of one magazine, on its way back to its slab, or   *)
(* with a user.  So no buffer is handed out twice and none is lost between *)
(* the CPUs' magazines and the slabs.                                      *)
BuffersExact ==
  LET inSlab(b)  == {b} \cap slabs.free[b[1]]
      inMags(b)  == {<<c, m>> \in KmCpus \X {"loaded", "prev"} : b \in mags[c][m]}
      inDepot(b) == {i \in DOMAIN depot.full : b \in depot.full[i]}
      moving(b)  == {c \in KmCpus : kmPc[c] = <<"slab_free", b>>}
      user(b)    == {b} \cap owned
  IN  \A b \in (DOMAIN slabs.free) \X (1..PerSlab) :
        Cardinality(inSlab(b)) + Cardinality(inMags(b)) + Cardinality(inDepot(b))
          + Cardinality(moving(b)) + Cardinality(user(b)) = 1
=============================================================================
