------------------------------ MODULE KWired ------------------------------
(***************************************************************************)
(* Wired kernel memory (vm/kwired.c): blocks of several pages are mapped   *)
(* page by page at addresses of a vmem arena, single pages through the     *)
(* direct map.  Everything runs under the PFN lock.                        *)
(*                                                                         *)
(* Freeing a block unmaps it and frees its pages but keeps its addresses   *)
(* allocated.  vm_krealloc, whose one caller is compiled out, is left out. *)
(***************************************************************************)
EXTENDS Vmem

CONSTANTS KwPages   \* physical pages

VARIABLES
  kwPtes,     \* address -> page, for the mapped addresses
  kwBlocks    \* what the callers hold: [addr, npages]; a single page's
              \* address is <<page>>

kwiredVars == <<kwPtes, kwBlocks>>

KWiredInit == kwPtes = <<>> /\ kwBlocks = {}

SinglePages == {b.addr[1] : b \in {x \in kwBlocks : x.npages = 1}}

FreePages == KwPages \ ({kwPtes[a] : a \in DOMAIN kwPtes} \cup SinglePages)

(* Any free pages may be given, one for each address. *)
internal_allocwired(size) ==
  /\ vmem_xalloc(size, 0, 0, FALSE)
  /\ Cardinality(FreePages) >= size
  /\ LET h     == CHOOSE x \in held' : x \notin held
         pages == SetToSeq(FreePages)
     IN  /\ kwPtes' = [a \in DOMAIN kwPtes \cup h[1]..(h[1] + size - 1) |->
                         IF a \in DOMAIN kwPtes THEN kwPtes[a] ELSE pages[a - h[1] + 1]]
         /\ kwBlocks' = kwBlocks \cup {[addr |-> <<0, h[1]>>, npages |-> size]}

vm_kalloc(npages) ==
  \/ npages > 1 /\ internal_allocwired(npages)
  \/ /\ npages = 1 /\ FreePages # {}
     /\ kwBlocks' = kwBlocks \cup {[addr |-> <<SetToSeq(FreePages)[1]>>, npages |-> 1]}
     /\ UNCHANGED <<arena, held, kwPtes>>

internal_freewired(b) ==
  kwPtes' = [a \in DOMAIN kwPtes \ b.addr[2]..(b.addr[2] + b.npages - 1) |-> kwPtes[a]]

vm_kfree(b) ==
  /\ kwBlocks' = kwBlocks \ {b}
  /\ IF b.npages > 1 THEN internal_freewired(b) ELSE UNCHANGED kwPtes
  /\ UNCHANGED <<arena, held>>

KWiredNext ==
  \/ \E n \in 1..MaxRequest : vm_kalloc(n)
  \/ \E b \in kwBlocks : vm_kfree(b)

(* Exactly the addresses of the live blocks are mapped (kwired.c:46-137),  *)
(* to a page of their own, and every block lies in an allocated range.     *)
WiredExact ==
  LET big == {b \in kwBlocks : b.npages > 1}
      Addrs(b) == b.addr[2]..(b.addr[2] + b.npages - 1)
  IN  /\ DOMAIN kwPtes = UNION {Addrs(b) : b \in big}
      /\ \A b, c \in big : b # c => Addrs(b) \cap Addrs(c) = {}
      /\ \A a, c \in DOMAIN kwPtes : a # c => kwPtes[a] # kwPtes[c]
      /\ \A a \in DOMAIN kwPtes : kwPtes[a] \notin SinglePages
      /\ \A b \in big : <<b.addr[2], b.npages>> \in held
=============================================================================
