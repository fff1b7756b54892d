------------------------------ MODULE Buddy ------------------------------
(***************************************************************************)
(* The free lists of physical pages (vm/resident.c) and the way the boot   *)
(* code fills them (vm/init.c).  A block of 2^order pages is named by its  *)
(* first page; every page has an order, a largest order (max_order) and an *)
(* on_freelist flag in the PFN database, and there is a queue of free      *)
(* blocks for each order.  Everything runs under the PFN lock, or before   *)
(* other CPUs do.                                                          *)
(***************************************************************************)
EXTENDS Integers, FiniteSets, SequencesExt

CONSTANTS
  MemoryMap,   \* the boot loader's map, <<[base, limit, kind], ...>> in pages
  BootUsed,    \* pages the boot code has already taken from the map
  BuddyOrders  \* BUDDY_ORDERS (16 in the kernel)

VARIABLES
  pfndb,       \* [order, max_order, on_freelist: page -> ..., queue: order -> sequence,
               \* ok: no assertion has failed]
  nfree,       \* vmstat.nfree
  blocks       \* the <<page, order>> blocks in use

buddyVars == <<pfndb, nfree, blocks>>

Pages == UNION {e.base..(e.limit - 1) : e \in {f \in ToSet(MemoryMap) : f.kind # "other"}}
Orders == 0..(BuddyOrders - 1)

Push(d, o, p) == [d EXCEPT !.queue[o] = <<p>> \o @, !.on_freelist[p] = TRUE]
Drop(d, o, p) == [d EXCEPT !.queue[o] = SelectSeq(@, LAMBDA q : q # p)]

(* The order of the largest aligned block at page i that ends by limit:    *)
(* MIN2(BUDDY_ORDERS - 1, __builtin_ctz(i)), lowered until it fits.        *)
BlockOrder(i, limit) == Max({o \in Orders : i % 2^o = 0 /\ i + 2^o <= limit})

(* The blocks that tile [base, limit), in order. *)
BlocksOf(base, limit) ==
  LET from[i \in base..limit] ==
        IF i = limit THEN <<>> ELSE <<i>> \o from[i + 2^BlockOrder(i, limit)]
  IN  from[base]

vm_region_add(d, base, limit) ==
  LET heads == BlocksOf(base, limit)
      set   == [d EXCEPT !.order = [p \in Pages |-> IF p \in base..(limit - 1) THEN BlockOrder(p, limit) ELSE @[p]],
                         !.max_order = [p \in Pages |-> IF p \in ToSet(heads) THEN BlockOrder(p, limit) ELSE @[p]]]
  IN  FoldLeft(LAMBDA e, p : Push(e, e.order[p], p), set, heads)

(* Two neighbours of the map's usable or reclaimable entries make one      *)
(* region; a third entry is compared with the end of the first, and so     *)
(* begins another.                                                         *)
Merged(kinds) ==
  LET m == MemoryMap
      In(i) == i \in DOMAIN m /\ m[i].kind \in kinds
      from[i \in 1..(Len(m) + 2)] ==
        IF i > Len(m) THEN <<>>
        ELSE IF ~In(i) THEN from[i + 1]
        ELSE IF In(i + 1) /\ m[i].limit = m[i + 1].base THEN <<<<m[i].base, m[i + 1].limit>>>> \o from[i + 2]
        ELSE <<<<m[i].base, m[i].limit>>>> \o from[i + 1]
  IN  from[1]

add_phys_segs(d) ==
  FoldLeft(LAMBDA e, r : vm_region_add(e, r[1], r[2]), d, Merged({"usable", "reclaimable"}))

(* Take the block at page out of the free lists: find the free block it is *)
(* in, halve that until it is a block of its own, take it off its list.    *)
vmp_page_unfree(d, page, order) ==
  LET up[i \in Pages] == IF d.on_freelist[i] THEN i ELSE up[i - 2^d.order[i]]
      halve(e, o) ==
        LET first  == CHOOSE i \in ToSet(e.queue[o]) : page \in i..(i + 2^o - 1)
            second == first + 2^(o - 1)
        IN  [Push(Drop(Push(e, o - 1, second), o, first), o - 1, first) EXCEPT
               !.order[first] = o - 1,
               !.ok = @ /\ e.order[second] = o - 1 /\ ~e.on_freelist[second]]
      top    == d.order[up[page]]
      halved == FoldLeft(halve, d, [k \in 1..(top - order) |-> top - k + 1])
  IN  [Drop(halved, order, page) EXCEPT
         !.on_freelist[page] = FALSE,
         !.ok = @ /\ top >= order /\ page \in ToSet(halved.queue[order])]

vmp_range_unfree(d, base, limit) ==
  FoldLeft(LAMBDA e, p : vmp_page_unfree(e, p, BlockOrder(p, limit)), d, BlocksOf(base, limit))

unfree_boot(d) == FoldLeft(LAMBDA e, p : vmp_page_unfree(e, p, 0), d, BootUsed)

unfree_bl_reserved(d) ==
  FoldLeft(LAMBDA e, r : vmp_range_unfree(e, r[1], r[2]), d, Merged({"reclaimable"}))

Taken == ToSet(BootUsed) \cup UNION {r[1]..(r[2] - 1) : r \in ToSet(Merged({"reclaimable"}))}

(* vmp_pmm_init leaves these lists. *)
BuddyInit ==
  /\ pfndb = unfree_bl_reserved(unfree_boot(add_phys_segs(
               [order       |-> [p \in Pages |-> 0],
                max_order   |-> [p \in Pages |-> 0],
                on_freelist |-> [p \in Pages |-> FALSE],
                queue       |-> [o \in Orders |-> <<>>],
                ok          |-> TRUE])))
  /\ nfree = Cardinality(Pages) - Cardinality(Taken)
  /\ blocks = {}

(* The first block of the first list that has one, halved until it has the *)
(* order asked for; the upper half is used first.                          *)
vmp_pages_alloc_locked(order) ==
  LET from == Min({o \in Orders : o >= order /\ pfndb.queue[o] # <<>>})
      halve(d, o) ==
        LET page  == Head(d.queue[o])
            buddy == page + 2^(o - 1)
        IN  [Push(Push(Drop(d, o, page), o - 1, page), o - 1, buddy) EXCEPT
               !.order[page] = o - 1, !.ok = @ /\ d.order[buddy] = o - 1]
      halved == FoldLeft(halve, pfndb, [k \in 1..(from - order) |-> from - k + 1])
      page   == Head(halved.queue[order])
  IN  /\ \E o \in Orders : o >= order /\ pfndb.queue[o] # <<>>
      /\ pfndb' = [Drop(halved, order, page) EXCEPT !.on_freelist[page] = FALSE]
      /\ blocks' = blocks \cup {<<page, order>>}
      /\ nfree' = nfree - 2^order

page_buddy(page, order) == IF (page \div 2^order) % 2 = 0 THEN page + 2^order ELSE page - 2^order

(* mutant of page_free: the buddy's order is not compared *)
AbsorbAnyOrder(d, page) ==
  LET merge(a, k) ==
        LET buddy == page_buddy(a.page, a.d.order[a.page])
            o     == a.d.order[a.page]
            low   == IF a.page > buddy THEN buddy ELSE a.page
        IN  IF a.done \/ o >= a.d.max_order[a.page] \/ ~a.d.on_freelist[buddy]
            THEN [a EXCEPT !.done = TRUE]
            ELSE [a EXCEPT !.page = low, !.d = [Drop(@, o, buddy) EXCEPT !.order[low] = o + 1]]
      last == FoldLeft(merge, [page |-> page, d |-> d, done |-> FALSE], [k \in 1..BuddyOrders |-> k])
  IN  Push(last.d, last.d.order[last.page], last.page)

(* A block of less than its largest order absorbs its buddy while that is  *)
(* a free block of the same order.  The absorbed block's on_freelist flag  *)
(* stays set.                                                              *)
page_free(d, page) ==
  LET merge(a, k) ==
        LET buddy == page_buddy(a.page, a.d.order[a.page])
            o     == a.d.order[a.page]
            low   == IF a.page > buddy THEN buddy ELSE a.page
        IN  IF a.done \/ o >= a.d.max_order[a.page] \/ a.d.order[buddy] # o \/ ~a.d.on_freelist[buddy]
            THEN [a EXCEPT !.done = TRUE]
            ELSE [a EXCEPT !.page = low, !.d = [Drop(@, o, buddy) EXCEPT !.order[low] = o + 1]]
      last == FoldLeft(merge, [page |-> page, d |-> d, done |-> FALSE], [k \in 1..BuddyOrders |-> k])
  IN  Push(last.d, last.d.order[last.page], last.page)

vmp_page_free_locked(b) ==
  /\ b \in blocks
  /\ pfndb' = page_free(pfndb, b[1])
  /\ blocks' = blocks \ {b}
  /\ nfree' = nfree + 2^pfndb.order[b[1]]

BuddyNext ==
  \/ \E order \in Orders : vmp_pages_alloc_locked(order)
  \/ \E b \in blocks : vmp_page_free_locked(b)

(* The blocks on the free lists, the blocks in use and the pages that were *)
(* in use when the machine booted never overlap and together are all of    *)
(* memory; each free block is aligned, is on the list of its order and     *)
(* marked as such, and vmstat.nfree counts their pages (resident.c).  The  *)
(* assertions about the halves of a block hold.                            *)
BlocksTile ==
  LET free  == UNION {{<<p, o>> : p \in ToSet(pfndb.queue[o])} : o \in Orders}
      all   == free \cup blocks
      Of(b) == b[1]..(b[1] + 2^b[2] - 1)
  IN  /\ pfndb.ok
      /\ \A o \in Orders : IsInjective(pfndb.queue[o])
      /\ \A b \in all : b[1] % 2^b[2] = 0 /\ pfndb.order[b[1]] = b[2]
      /\ \A b \in free : pfndb.on_freelist[b[1]]
      /\ \A b \in blocks : ~pfndb.on_freelist[b[1]]
      /\ \A b, c \in all : b # c => Of(b) \cap Of(c) = {}
      /\ UNION {Of(b) : b \in all} = Pages \ Taken
      /\ nfree = Cardinality(UNION {Of(b) : b \in free})
=============================================================================
