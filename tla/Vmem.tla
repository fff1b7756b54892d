------------------------------ MODULE Vmem ------------------------------
(***************************************************************************)
(* The vmem resource allocator (vm/vmem.c): an arena is a queue of         *)
(* segments that tile its spans.  Free segments hang on power-of-two free  *)
(* lists, allocated ones in a hash table.  The callers serialise the calls *)
(* on an arena (the map lock of an address space, the PFN lock for kernel  *)
(* addresses), so a call is one step.                                      *)
(*                                                                         *)
(* Abstractions: a free list is unordered, so that a search may return any *)
(* fitting segment of the first list that has one; no arena of the kernel  *)
(* has a source, so an exhausted arena fails; the byte count `used', which *)
(* nothing reads, and the pool of segment structures are left out.         *)
(***************************************************************************)
EXTENDS Integers, FiniteSets, SequencesExt

CONSTANTS
  Spans,       \* the spans, <<base, size>>; the first is given to vmem_init
  Aligns,      \* alignments asked for (0: none)
  MaxRequest   \* the largest size asked for

VARIABLES
  arena,       \* [segqueue, freelist, hashtab]
  held         \* the <<address, size>> pairs the callers hold

vmemVars == <<arena, held>>

Seg(type, base, size) == [type |-> type, base |-> base, size |-> size]

Span(s) == <<Seg("span", s[1], s[2]), Seg("free", s[1], s[2])>>

(* The index of the list for a size: the position of its highest bit. *)
freelist(size) == CHOOSE k \in 0..size : 2^k <= size /\ size < 2^(k + 1)

(* arena.freelist maps the base of a free segment to the list it is on. *)
Binned(lists, segs) ==
  [b \in DOMAIN lists \cup {s.base : s \in segs} |->
     IF b \in DOMAIN lists THEN lists[b]
     ELSE freelist((CHOOSE s \in segs : s.base = b).size)]

Unbinned(lists, b) == [c \in DOMAIN lists \ {b} |-> lists[c]]

Cut(q, i, new) == SubSeq(q, 1, i - 1) \o new \o SubSeq(q, i + 1, Len(q))

ArenaInit ==
  /\ arena = [segqueue |-> Span(Spans[1]),
              freelist |-> [b \in {Spans[1][1]} |-> freelist(Spans[1][2])],
              hashtab  |-> {}]
  /\ held = {}

(* A new span goes before the first span of a higher base, or last. *)
vmem_add_internal(a, s) ==
  LET q     == a.segqueue
      after == {i \in DOMAIN q : q[i].type = "span" /\ q[i].base >= s[1]}
      at    == IF after = {} THEN Len(q) ELSE Min(after) - 1
  IN  [a EXCEPT !.segqueue = SubSeq(q, 1, at) \o Span(s) \o SubSeq(q, at + 1, Len(q)),
                !.freelist = Binned(@, {Seg("free", s[1], s[2])})]

vmem_add(s) ==
  /\ \A i \in DOMAIN arena.segqueue : arena.segqueue[i].base # s[1]
  /\ arena' = vmem_add_internal(arena, s)
  /\ UNCHANGED held

(* Allocate [addr, addr + size) out of the free segment at i. *)
split_seg(a, i, addr, size) ==
  LET seg   == a.segqueue[i]
      end   == seg.base + seg.size
      left  == IF addr > seg.base THEN <<Seg("free", seg.base, addr - seg.base)>> ELSE <<>>
      right == IF addr + size < end THEN <<Seg("free", addr + size, end - (addr + size))>> ELSE <<>>
  IN  [segqueue |-> Cut(a.segqueue, i, left \o <<Seg("allocated", addr, size)>> \o right),
       freelist |-> Binned(Unbinned(a.freelist, seg.base), ToSet(left \o right)),
       hashtab  |-> a.hashtab \cup {addr}]

RoundUp(addr, align) == IF align = 0 THEN addr ELSE ((addr + align - 1) \div align) * align

(* The places a search considers: those on the first list, from that of    *)
(* the size on, on which a segment fits.                                   *)
Placements(a, size, align, min, exact) ==
  LET At(i)   == RoundUp(IF a.segqueue[i].base <= min THEN min ELSE a.segqueue[i].base, align)
      List(i) == a.freelist[a.segqueue[i].base]
      Fits(i) == /\ a.segqueue[i].type = "free"
                 /\ List(i) >= freelist(size)
                 /\ exact => a.segqueue[i].base <= min
                 /\ At(i) + size <= a.segqueue[i].base + a.segqueue[i].size
      fits    == {i \in DOMAIN a.segqueue : Fits(i)}
  IN  {<<i, At(i)>> : i \in {j \in fits : \A k \in fits : List(j) <= List(k)}}

vmem_xalloc(size, align, min, exact) ==
  \E p \in Placements(arena, size, align, min, exact) :
    /\ arena' = split_seg(arena, p[1], p[2], size)
    /\ held' = held \cup {<<p[2], size>>}

(* A free segment changes list only when its size asks for another one     *)
(* than its old size did.                                                  *)
freeseg_resize(a, i, base, size) ==
  LET old  == a.segqueue[i]
      list == IF freelist(size) # freelist(old.size) THEN freelist(size)
              ELSE a.freelist[old.base]
      rest == Unbinned(a.freelist, old.base)
  IN  [a EXCEPT !.segqueue[i] = Seg("free", base, size),
                !.freelist = [b \in DOMAIN rest \cup {base} |-> IF b = base THEN list ELSE rest[b]]]

Without(a, i) == [a EXCEPT !.segqueue = Cut(@, i, <<>>)]

IsFree(a, i) == i \in DOMAIN a.segqueue /\ a.segqueue[i].type = "free"

(* mutant of xfree: what was freed is never joined to a free left neighbour *)
FreeRightOnly(a, i) ==
  LET seg == a.segqueue[i]
      a1  == [a EXCEPT !.hashtab = @ \ {seg.base}]
  IN  IF IsFree(a1, i + 1)
      THEN Without(freeseg_resize(a1, i + 1, seg.base, a1.segqueue[i + 1].size + seg.size), i)
      ELSE [a1 EXCEPT !.segqueue[i].type = "free", !.freelist = Binned(@, {seg})]

(* Free the allocated segment at i: merge it into a free one on its left,  *)
(* then the result into a free one on its right, which takes its place on  *)
(* the lists; else it becomes free.                                        *)
xfree(a, i) ==
  LET seg == a.segqueue[i]
      a1  == [a EXCEPT !.hashtab = @ \ {seg.base}]
      l   == IsFree(a1, i - 1)
      a2  == IF l
             THEN LET left == a1.segqueue[i - 1]
                  IN  Without(freeseg_resize(a1, i - 1, left.base, left.size + seg.size), i)
             ELSE a1
      j   == IF l THEN i - 1 ELSE i
      s   == a2.segqueue[j]
      r   == IsFree(a2, j + 1)
      a3  == freeseg_resize(a2, j + 1, s.base, a2.segqueue[j + 1].size + s.size)
  IN  IF r THEN Without(a3, j)
      ELSE IF l THEN a2
      ELSE [a2 EXCEPT !.segqueue[i].type = "free", !.freelist = Binned(@, {seg})]

Allocated(a, addr) == CHOOSE i \in DOMAIN a.segqueue :
                        a.segqueue[i].base = addr /\ a.segqueue[i].type = "allocated"

vmem_xfree(h) ==
  /\ h[1] \in arena.hashtab
  /\ arena' = xfree(arena, Allocated(arena, h[1]))
  /\ held' = held \ {h}

(* Shrinking gives the tail to the free segment on the right, without      *)
(* changing its list, or makes it a free segment.  Growing takes from the  *)
(* free segment on the right, or else moves the allocation.                *)
Shrink(a, i, size) ==
  LET seg  == a.segqueue[i]
      cut  == [a EXCEPT !.segqueue[i].size = size]
      diff == seg.size - size
      next == a.segqueue[i + 1]
      tail == Seg("free", seg.base + size, diff)
  IN  IF IsFree(a, i + 1)
      THEN [cut EXCEPT !.segqueue[i + 1] = Seg("free", next.base - diff, next.size + diff),
                       !.freelist = LET rest == Unbinned(@, next.base)
                                    IN  [b \in DOMAIN rest \cup {next.base - diff} |->
                                           IF b = next.base - diff THEN a.freelist[next.base] ELSE rest[b]]]
      ELSE [cut EXCEPT !.segqueue = Cut(@, i, <<@[i], tail>>), !.freelist = Binned(@, {tail})]

Grown(a, i, size) ==
  LET cut  == [a EXCEPT !.segqueue[i].size = size]
      diff == size - a.segqueue[i].size
      next == a.segqueue[i + 1]
  IN  IF next.size > diff THEN freeseg_resize(cut, i + 1, next.base + diff, next.size - diff)
      ELSE [Without(cut, i + 1) EXCEPT !.freelist = Unbinned(@, next.base)]

vmem_xrealloc(h, size) ==
  LET i == Allocated(arena, h[1])
      grows == IsFree(arena, i + 1) /\ arena.segqueue[i + 1].size >= size - h[2]
  IN  /\ h[1] \in arena.hashtab
      /\ \/ /\ size < h[2]
            /\ arena' = Shrink(arena, i, size)
            /\ held' = (held \ {h}) \cup {<<h[1], size>>}
         \/ /\ size > h[2]
            /\ grows
            /\ arena' = Grown(arena, i, size)
            /\ held' = (held \ {h}) \cup {<<h[1], size>>}
         \/ /\ size > h[2]
            /\ ~grows
            /\ \E p \in Placements(arena, size, 0, 0, FALSE) :
                 LET new == split_seg(arena, p[1], p[2], size)
                 IN  /\ arena' = xfree(new, Allocated(new, h[1]))
                     /\ held' = (held \ {h}) \cup {<<p[2], size>>}

ArenaNext ==
  \/ \E s \in ToSet(Spans) : vmem_add(s)
  \/ \E size \in 1..MaxRequest, align \in Aligns : vmem_xalloc(size, align, 0, FALSE)
  \/ \E size \in 1..MaxRequest, s \in ToSet(Spans) : \E min \in s[1]..(s[1] + s[2] - 1) :
       vmem_xalloc(size, 0, min, TRUE)
  \/ \E h \in held : vmem_xfree(h)
  \/ \E h \in held, size \in 1..MaxRequest : vmem_xrealloc(h, size)

(* The arena is what its callers think it is (vmem.c): the allocated       *)
(* segments are exactly what they hold and can free; the segments between  *)
(* one span marker and the next tile that span, so that no two allocations *)
(* overlap or leave their span; two free segments never lie side by side;  *)
(* and the free lists hold exactly the free segments, none of them on a    *)
(* list of larger sizes than its own.                                      *)
ArenaExact ==
  LET q       == arena.segqueue
      spanOf(i) == Max({k \in 1..i : q[k].type = "span"})
      frees   == {i \in DOMAIN q : q[i].type = "free"}
      end(s)  == s.base + s.size
  IN  /\ held = {<<q[i].base, q[i].size>> : i \in {j \in DOMAIN q : q[j].type = "allocated"}}
      /\ arena.hashtab = {h[1] : h \in held}
      /\ q[1].type = "span"
      /\ \A i \in DOMAIN q \ {1} :
           CASE q[i].type = "span"     -> end(q[i - 1]) = end(q[spanOf(i - 1)]) /\ q[spanOf(i - 1)].base < q[i].base
             [] q[i - 1].type = "span" -> q[i].base = q[i - 1].base
             [] OTHER                  -> q[i].base = end(q[i - 1])
      /\ end(Last(q)) = end(q[spanOf(Len(q))])
      /\ \A i \in DOMAIN q : q[i].size > 0
      /\ \A i \in frees : i - 1 \notin frees
      /\ DOMAIN arena.freelist = {q[i].base : i \in frees}
      /\ \A i \in frees : arena.freelist[q[i].base] <= freelist(q[i].size)
=============================================================================
