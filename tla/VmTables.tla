---------------------------- MODULE VmTables ----------------------------
(***************************************************************************)
(* The pageable page tables of a process (vm/tables.c, vm_amd64.c): the    *)
(* walk that pins one table per level, creating and paging in what is      *)
(* missing, the counts that decide when a table may be paged out or is     *)
(* freed, and the paging out itself.  The working set mutex and the PFN    *)
(* lock are held throughout, except while a walk waits for the disk.       *)
(*                                                                         *)
(* A table is named by its path from the root, <<>>, and an entry by the   *)
(* path of what it points to.  A leaf entry is "resident" whether valid,   *)
(* transitional or busy: VmPages tells these apart.  The prototype tables  *)
(* of objects are never paged and use the same counts.                     *)
(***************************************************************************)
EXTENDS Integers, FiniteSets, SequencesExt

CONSTANTS
  Fanout,      \* entries of a table, per level from the root
  Walkers,     \* threads of the process
  MaxCount     \* bound on the counts that only ever grow

VARIABLES
  tables,      \* [pte, page, writer, halted]
  walk         \* per thread: [pc, op, addr, at]

tableVars == <<tables, walk>>

Levels == Len(Fanout)

Paths(n) == {p \in [1..n -> 1..Max(ToSet(Fanout))] : \A i \in 1..n : p[i] <= Fanout[i]}

Tables == UNION {Paths(n) : n \in 0..(Levels - 1)}

Entries == UNION {Paths(n) : n \in 1..Levels}

Addresses == Paths(Levels)

Root == <<>>

NoTable == <<0>>

DeadTable == <<0, 0>>

EntriesOf(t) == {e \in Entries : Front(e) = t}

NoPage == [refcnt |-> 0, nonzero |-> 0, noswap |-> 0, dirty |-> FALSE, drum |-> <<>>]

NewPage == [NoPage EXCEPT !.refcnt = 1, !.nonzero = 1, !.noswap = 1]

(* A new reference from an entry, or from a walk that pins the table. *)
noswap_pte_created(m, t, is_new) ==
  [m EXCEPT !.page[t].refcnt = @ + 1, !.page[t].noswap = @ + 1,
            !.page[t].nonzero = IF is_new THEN @ + 1 ELSE @]

nonzero_pte_created(m, t) == [m EXCEPT !.page[t].refcnt = @ + 1, !.page[t].nonzero = @ + 1]

(* mutant of LostNoswap: a table is not marked dirty by losing an entry *)
LostNoswapClean(m, t) ==
  LET last == m.page[t].noswap = 1 /\ t # Root
      m1   == IF last THEN [m EXCEPT !.pte[t] = "trans"] ELSE m
  IN  [m1 EXCEPT !.page[t].noswap = @ - 1, !.page[t].refcnt = @ - 1]

(* What the pointer to a table becomes; a table that stays in memory keeps *)
(* its place in the directory's counts.                                    *)
setup_table_pointers(m, t, old) ==
  LET m1 == [m EXCEPT !.pte[t] = "valid"]
  IN  IF old = "trans" THEN m1 ELSE noswap_pte_created(m1, Front(t), old = "zero")

busy_table_pointers(m, t) == noswap_pte_created([m EXCEPT !.pte[t] = "busy"], Front(t), TRUE)

trans_table_pointers(m, t) == [m EXCEPT !.pte[t] = "trans"]

(* An entry no longer holds the table in memory. The last one makes the    *)
(* table transitional: its page goes onto the modified list.  The copy of  *)
(* a dirty table on the disk is out of date and is forgotten here.         *)
LostNoswap(m, t) ==
  LET last == m.page[t].noswap = 1 /\ t # Root
      m1   == IF last THEN trans_table_pointers(m, t) ELSE m
  IN  [m1 EXCEPT !.page[t].noswap = @ - 1, !.page[t].refcnt = @ - 1, !.page[t].dirty = TRUE,
                    !.page[t].drum = <<>>]

RECURSIVE pte_deleted(_, _, _)
pte_deleted(m, t, was_swap) ==
  IF m.page[t].nonzero = 1 /\ t # Root
  THEN pte_deleted([m EXCEPT !.page[t] = NoPage, !.pte[t] = "zero",
                             !.writer = IF @ = t THEN DeadTable ELSE @],
                   Front(t), FALSE)
  ELSE LET m1 == [m EXCEPT !.page[t].nonzero = @ - 1]
       IN  IF was_swap THEN m1 ELSE LostNoswap(m1, t)

pte_became_swap(m, t) == LostNoswap(m, t)

swap_table_pointers(m, t) == pte_became_swap([m EXCEPT !.pte[t] = "swap"], Front(t))

RECURSIVE wire_state_release(_, _)
wire_state_release(m, t) ==
  LET m1 == pte_deleted(m, t, FALSE)
  IN  IF t = Root THEN m1 ELSE wire_state_release(m1, Front(t))

(* Walk down from table t, which is pinned, pinning each next level; stop  *)
(* where there is no table to walk to.                                     *)
RECURSIVE Descend(_, _, _, _)
Descend(m, addr, t, create) ==
  LET c == SubSeq(addr, 1, Len(t) + 1)
      pinned == noswap_pte_created(m, c, TRUE)
      Stop(how) == [m |-> m, at |-> t, how |-> how]
  IN  IF Len(c) = Levels THEN Stop("done")
      ELSE CASE m.pte[c] = "valid" -> Descend(pinned, addr, c, create)
             [] m.pte[c] = "trans" -> Descend(setup_table_pointers(pinned, c, "trans"), addr, c, create)
             [] m.pte[c] = "zero" /\ create ->
                  Descend(setup_table_pointers([m EXCEPT !.page[c] = NewPage], c, "zero"), addr, c, create)
             [] m.pte[c] = "zero" /\ ~create -> Stop("absent")
             [] OTHER -> Stop(m.pte[c])

Halt(m) == [m EXCEPT !.halted = TRUE]

(* What the caller does with the wired entry: the fault handler makes it   *)
(* resident, the child's side of a fork points it at a shared fork page,   *)
(* and unmapping zeroes it.                                                *)
LeafStep(m, op, e) ==
  LET t == Front(e)
      To(k) == [m EXCEPT !.pte[e] = k]
  IN  CASE op = "touch" /\ m.pte[e] # "resident" ->
             noswap_pte_created(To("resident"), t, m.pte[e] = "zero")
        [] op = "inherit" -> nonzero_pte_created(To("fork"), t)
        [] op = "unmap" /\ m.pte[e] = "fork" -> Halt(m)
        [] op = "unmap" /\ m.pte[e] \in {"resident", "swap"} ->
             pte_deleted(To("zero"), t, m.pte[e] = "swap")
        [] OTHER -> m

(* The thread goes on from where its walk stopped. A table on the disk     *)
(* gets a page and a busy pointer, and the locks are dropped for the read. *)
Proceed(w, d, op, addr) ==
  LET c == SubSeq(addr, 1, Len(d.at) + 1)
      Park(pc) == walk' = [walk EXCEPT ![w] = [pc |-> pc, op |-> op, addr |-> addr, at |-> c]]
      Back     == walk' = [walk EXCEPT ![w].pc = "idle"]
  IN  \/ /\ d.how = "done"
         /\ tables' = wire_state_release(LeafStep(d.m, op, addr), d.at)
         /\ Back
      \/ /\ d.how = "absent"
         /\ tables' = wire_state_release(d.m, d.at)
         /\ Back
      \/ /\ d.how = "swap"
         /\ d.m.page[d.at].nonzero < MaxCount
         /\ tables' = busy_table_pointers([d.m EXCEPT !.page[c] = [NewPage EXCEPT !.drum = d.m.page[c].drum]], c)
         /\ Park("reading")
      \/ /\ d.how = "busy"
         /\ tables' = d.m
         /\ Park("waiting")

vmp_wire_pte(w, op, addr) ==
  /\ walk[w].pc = "idle"
  /\ Proceed(w, Descend(noswap_pte_created(tables, Root, TRUE), addr, Root, op = "touch"), op, addr)

(* The table has been read: the pointer is valid and the entries are       *)
(* counted. A fork entry among them halts the system.                      *)
setup_pte_counts(m, t) ==
  LET m1 == [m EXCEPT !.pte = [e \in Entries |-> IF e \in EntriesOf(t) THEN m.page[t].drum[e] ELSE m.pte[e]]]
  IN  IF \E e \in EntriesOf(t) : m1.pte[e] \notin {"swap", "zero"} THEN Halt(m1)
      ELSE [m1 EXCEPT !.page[t].nonzero = @ + Cardinality({e \in EntriesOf(t) : m1.pte[e] = "swap"})]

TableRead(w) ==
  LET t == walk[w].at
      m == setup_pte_counts(setup_table_pointers(tables, t, "trans"), t)
  IN  /\ walk[w].pc = "reading"
      /\ IF m.halted THEN tables' = m /\ UNCHANGED walk
         ELSE Proceed(w, Descend(m, walk[w].addr, t, walk[w].op = "touch"), walk[w].op, walk[w].addr)

(* A page leaves memory: a shared one's entry becomes zero, a stolen       *)
(* private one's a swap entry, a fork page's a fork entry.                 *)
PageLeaves(e, to) ==
  /\ tables.pte[e] = "resident"
  /\ tables' = LET m == [tables EXCEPT !.pte[e] = to]
               IN  IF to = "zero" THEN pte_deleted(m, Front(e), FALSE) ELSE pte_became_swap(m, Front(e))
  /\ UNCHANGED walk

(* Writeback takes a table off the modified list, writes it, releases it. *)
TableWriteback(t) ==
  /\ tables.writer = NoTable
  /\ t # Root /\ tables.pte[t] = "trans"
  /\ tables.page[t].refcnt = 0 /\ tables.page[t].dirty
  /\ tables' = [tables EXCEPT !.writer = t, !.page[t].refcnt = 1, !.page[t].dirty = FALSE]
  /\ UNCHANGED walk

TableWritten ==
  /\ tables.writer # NoTable
  /\ tables' = IF tables.writer = DeadTable THEN [tables EXCEPT !.writer = NoTable]
               ELSE [tables EXCEPT !.writer = NoTable, !.page[tables.writer].refcnt = @ - 1,
                                   !.page[tables.writer].drum =
                                     [e \in EntriesOf(tables.writer) |-> tables.pte[e]]]
  /\ UNCHANGED walk

(* A clean table on the standby list is stolen: its pointer becomes a swap *)
(* pointer, which may let the table above go too.                          *)
TableStolen(t) ==
  /\ t # Root /\ tables.pte[t] = "trans"
  /\ tables.page[t].refcnt = 0 /\ ~tables.page[t].dirty
  /\ tables' = swap_table_pointers([tables EXCEPT !.page[t] = [NoPage EXCEPT !.drum = tables.page[t].drum]], t)
  /\ UNCHANGED walk

(* A process begins empty, or with what a fork gave it. *)
Empty == [pte    |-> [e \in Entries |-> "zero"],
          page   |-> [t \in Tables |-> IF t = Root THEN [NoPage EXCEPT !.refcnt = 1] ELSE NoPage],
          writer |-> NoTable,
          halted |-> FALSE]

Inherit(e, m) ==
  LET d == Descend(noswap_pte_created(m, Root, TRUE), e, Root, TRUE)
  IN  wire_state_release(LeafStep(d.m, "inherit", e), d.at)

TablesInit(shared) ==
  /\ tables = FoldSet(Inherit, Empty, shared)
  /\ walk = [w \in Walkers |-> [pc |-> "idle", op |-> "touch", addr |-> Root, at |-> Root]]

TablesNext ==
  /\ ~tables.halted
  /\ \/ \E w \in Walkers, op \in {"touch", "unmap"}, a \in Addresses : vmp_wire_pte(w, op, a)
     \/ \E w \in Walkers : TableRead(w)
     \/ \E e \in Addresses, to \in {"zero", "swap", "fork"} : PageLeaves(e, to)
     \/ \E t \in Tables : TableWriteback(t)
     \/ TableWritten
     \/ \E t \in Tables : TableStolen(t)

Pins(t) ==
  Cardinality({w \in Walkers : \/ walk[w].pc = "reading" /\ IsPrefix(t, walk[w].at)
                               \/ walk[w].pc = "waiting" /\ IsStrictPrefix(t, walk[w].at)})

(* The counts of a table are right (tables.c:72-215): the entries that     *)
(* keep it in memory are counted exactly, so it is paged out only when no  *)
(* page beneath it is resident and no walk relies on it, and always can be *)
(* but for a leaked reference; none of its nonzero entries goes uncounted, *)
(* so it is never freed with something in it; nothing is mapped beneath a  *)
(* zero pointer; and what is on the disk for it is what it last held.      *)
TablesCounted ==
  LET Here(t) == t = Root \/ tables.pte[t] \in {"valid", "trans", "busy"}
      Of(t, kinds) == Cardinality({e \in EntriesOf(t) : tables.pte[e] \in kinds})
      InMemory == {"valid", "trans", "busy", "resident"}
  IN  \A t \in Tables :
        /\ Here(t) /\ ~tables.halted =>
             /\ tables.page[t].noswap = Of(t, InMemory) + Pins(t)
             /\ t = Root \/ tables.pte[t] # "busy" =>
                  tables.page[t].nonzero >= Of(t, InMemory \cup {"swap", "fork"}) + Pins(t)
             /\ tables.page[t].refcnt >= tables.page[t].noswap + IF tables.writer = t THEN 1 ELSE 0
             /\ t # Root => (tables.pte[t] = "trans") = (tables.page[t].noswap = 0)
        /\ ~Here(t) => Pins(t) = 0 /\ Of(t, InMemory) = 0
        /\ t # Root /\ tables.pte[t] = "zero" => Of(t, {"zero"}) = Cardinality(EntriesOf(t))
        /\ t # Root /\ tables.pte[t] = "swap" => tables.page[t].drum = [e \in EntriesOf(t) |-> tables.pte[e]]
=============================================================================
