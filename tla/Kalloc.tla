------------------------------ MODULE Kalloc ------------------------------
(***************************************************************************)
(* General purpose kernel allocation (vm/kmem_cache.c): a size picks one   *)
(* of the power-of-two caches, or whole pages, and the size given when     *)
(* freeing must pick the same again.  The malloc-style calls keep the size *)
(* in a header before the block.  The caches themselves are in Kmem and    *)
(* the pages in KWired.                                                    *)
(***************************************************************************)
EXTENDS Integers, FiniteSetsExt

CONSTANTS
  KaSizes,    \* sizes asked for
  KaSlots,    \* blocks a caller may hold
  PageSize

VARIABLES
  kaBlock,    \* per slot: [kind, home, header]; kind "none" if unused
  kaStray     \* a block was freed to another place than it came from

kallocVars == <<kaBlock, kaStray>>

Header == 8

NoBlock == [kind |-> "none", home |-> <<"none", 0>>, header |-> 0]

KallocInit == kaBlock = [s \in KaSlots |-> NoBlock] /\ kaStray = FALSE

zonenum(size) == LET fits == {z \in 0..8 : size <= 8 * 2^z} IN IF fits = {} THEN -1 ELSE Min(fits)

(* Where kmem_xalloc takes a size from, and kmem_xfree returns it to. *)
Home(size) ==
  IF zonenum(size) # -1 THEN <<"cache", zonenum(size)>>
  ELSE <<"pages", (size + PageSize - 1) \div PageSize>>

(* The bytes a block has room for. *)
Room(home) == IF home[1] = "cache" THEN 8 * 2^home[2] ELSE home[2] * PageSize

kmem_malloc(s, size) ==
  /\ kaBlock[s].kind = "none"
  /\ kaBlock' = [kaBlock EXCEPT ![s] = [kind |-> "malloc", home |-> Home(size + Header),
                                        header |-> size]]
  /\ UNCHANGED kaStray

kmem_mfree(s) ==
  /\ kaBlock[s].kind = "malloc"
  /\ kaBlock' = [kaBlock EXCEPT ![s] = NoBlock]
  /\ kaStray' = (kaStray \/ Home(kaBlock[s].header + Header) # kaBlock[s].home)

(* The block stays where it is when the zone is the same; else it is moved *)
(* and the old block freed.                                                *)
kmem_xrealloc(b, old, new) ==
  IF old = new \/ (zonenum(old) # -1 /\ zonenum(old) = zonenum(new))
  THEN [home |-> b.home, stray |-> FALSE]
  ELSE [home |-> Home(new), stray |-> Home(old) # b.home]

kmem_mrealloc(s, size) ==
  LET b == kaBlock[s]
      r == kmem_xrealloc(b, b.header + Header, size + Header)
  IN  /\ b.kind = "malloc"
      /\ kaBlock' = [kaBlock EXCEPT ![s].home = r.home, ![s].header = size]
      /\ kaStray' = (kaStray \/ r.stray)

(* A formatted string is measured, allocated and printed; freeing it       *)
(* measures it again.                                                      *)
kmem_asprintf(s, len) ==
  /\ kaBlock[s].kind = "none"
  /\ kaBlock' = [kaBlock EXCEPT ![s] = [kind |-> "string", home |-> Home(len + 1), header |-> len]]
  /\ UNCHANGED kaStray

kmem_strfree(s) ==
  /\ kaBlock[s].kind = "string"
  /\ kaBlock' = [kaBlock EXCEPT ![s] = NoBlock]
  /\ kaStray' = (kaStray \/ Home(kaBlock[s].header + 1) # kaBlock[s].home)

KallocNext ==
  \E s \in KaSlots :
    \/ \E size \in KaSizes : kmem_malloc(s, size) \/ kmem_mrealloc(s, size) \/ kmem_asprintf(s, size)
    \/ kmem_mfree(s)
    \/ kmem_strfree(s)

(* A block has room for its header and contents, and is freed to the cache *)
(* or the pages it came from, however often it was reallocated.            *)
KallocExact ==
  /\ ~kaStray
  /\ \A s \in KaSlots : kaBlock[s].kind # "none" =>
       LET b == kaBlock[s]
           extra == IF b.kind = "malloc" THEN Header ELSE 1
       IN  /\ Room(b.home) >= b.header + extra
           /\ Home(b.header + extra) = b.home
=============================================================================
