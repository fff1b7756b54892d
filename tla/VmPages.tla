------------------------------ MODULE VmPages ------------------------------
(* Pageable memory: the frames of the PFN database, the leaf PTEs that refer *)
(* to them, and everything that moves a page between memory and its backing  *)
(* store.                                                                    *)
(*   vm/fault.c      page faults, page-in                                    *)
(*   vm/resident.c   allocation, retain and release, standby/modified, steal *)
(*   vm/ws.c         eviction and trimming of working sets                   *)
(*   vm/writeback.c  the writeback thread                                    *)
(*   vm/vmbalance.c  the balancer                                            *)
(*   vm/fork.c       copy-on-write fork                                      *)
(* The PFN lock guards db, so what the code does between acquiring and       *)
(* releasing it is one step; a page-in, a working set insertion, a fork and a *)
(* writeback are several.  A thread's access goes by the PTE itself (the TLB  *)
(* is left out).  kfatal and a failed kassert stop the machine: db.halt says  *)
(* which.  Page tables are not paged here: VmTables models them.              *)
EXTENDS Integers, Sequences, FiniteSets, SequencesExt

CONSTANTS
    Procs, First,           \* processes; all but First are made by vm_fork
    Threads, proc,          \* user threads, and the process of each
    Anon,                   \* pages of anonymous memory
    Shared,                 \* pages of a shared mapping of the file
    Cow,                    \* pages of a private mapping of the file
    FilePages,              \* pages of the file
    object_page,            \* the page of the file Shared and Cow pages map
    ForkIds,                \* fork pages
    Configs,                \* the processes and threads there may be, the
                            \* pages they map; the frames of the machine and,
                            \* with them, the threshold fairly_low
    Frames,
    NSlots,                 \* slots of the pagefile; slot 0 is never used
    Data,                   \* contents of a page; 0 is the zeroed page
    VeryLow, FreeLow,                   \* vmp_dynamics.h, in pages
    WsLimit, WsCapacity, WsExpansion,   \* ws.c, in entries
    UrgentDivisor, LaxDivisor,          \* shares of a set the balancer trims
    MaxWritebacks,
    MaxAnonymous,           \* a bound on n_anonymous, for TLC
    Nil

ASSUME FrameAssumption == VeryLow >= 1 /\ FreeLow >= 1 /\ WsLimit >= 1
ASSUME PageAssumption == object_page \in [Shared \cup Cow -> FilePages]

Private == Anon \cup Cow
Vpns == Private \cup Shared
Proto(v) == <<"proto", object_page[v]>>
ForkPlace(f) == <<"fork", f>>
Places == (Procs \X Vpns) \cup ({"proto"} \X FilePages) \cup ({"fork"} \X ForkIds)

VARIABLES
    db,             \* what the PFN lock guards: pte, page, content, standby,
                    \* modified, free, refcount of the fork pages, slots used,
                    \* halt
    disk,           \* the pagefile's slots
    file,           \* the file, on its file system
    n_dirty_pages,  \* of the file's VM object
    ws,             \* the pages in the working set of each process
    limit,          \* ws_limit
    n_anonymous,
    conf, alive,    \* the member of Configs; the processes there are
    th,             \* what each thread is doing
    forker,         \* vm_fork in progress
    trimmer,        \* the balancer's vmp_wsl_trim in progress
    batch,          \* the pages vmp_writeback is writing
    mem,            \* what each process last stored in its private pages
    fileval,        \* what was last stored in each page of the file
    tainted         \* pages forked while only their PTE said they were dirty

vars == <<db, disk, file, n_dirty_pages, ws, limit, n_anonymous, conf,
          alive, th, forker, trimmer, batch, mem, fileval, tainted>>
wsVars == <<ws, limit>>
ghosts == <<mem, fileval, tainted>>
backing == <<disk, file>>

------------------------------------------------------------------------------
(* PTEs.  A swap PTE's kind is 0: one of slot 0 is the zero PTE.              *)
ZeroPte == [k |-> "Zero"]
HwPte(g, w) == [k |-> "Valid", pg |-> g, w |-> w]
BusyPte(g) == [k |-> "Busy", pg |-> g]
TransPte(g) == [k |-> "Trans", pg |-> g]
SwapPte(s) == IF s = 0 THEN ZeroPte ELSE [k |-> "Swap", slot |-> s]
ForkPte(f) == [k |-> "Fork", forkpage |-> f]

FreePage == [use |-> "Free", refcnt |-> 0, dirty |-> FALSE, ref |-> Nil,
             slot |-> 0]
Idle == [pc |-> "run", v |-> Nil, write |-> FALSE, pg |-> Nil]
Junk == -1      \* what vmp_page_free fills a page with

Init ==
    /\ conf \in Configs
    /\ db = [pte |-> [x \in Places |-> ZeroPte],
             page |-> [g \in Frames |-> FreePage],
             content |-> [g \in Frames |-> Junk],
             standby |-> <<>>, modified |-> <<>>, free |-> conf.frames,
             refcount |-> [f \in ForkIds |-> 0], slots |-> 0, halt |-> "no"]
    /\ disk = [s \in 1 .. NSlots |-> Junk]
    /\ file = [o \in FilePages |-> 0]
    /\ n_dirty_pages = 0
    /\ ws = [p \in Procs |-> {}]
    /\ limit = [p \in Procs |-> WsLimit]
    /\ n_anonymous = [p \in Procs |-> 0]
    /\ alive = {First}
    /\ th = [t \in Threads |-> Idle]
    /\ forker = Nil
    /\ trimmer = Nil
    /\ batch = [todo |-> <<>>, done |-> <<>>]
    /\ mem = [p \in Procs |-> [v \in Private |-> 0]]
    /\ fileval = file
    /\ tainted = {}

------------------------------------------------------------------------------
(* The PFN database.  Each operator is the state after the call.              *)
Halt(s, why) == [s EXCEPT !.halt = IF @ = "no" THEN why ELSE @]
kassert(s, ok) == IF ok THEN s ELSE Halt(s, "assert")
SetPte(s, x, e) == [s EXCEPT !.pte[x] = e]

vmp_page_free(s, g) ==
    [s EXCEPT !.page[g] = FreePage, !.content[g] = Junk, !.free = @ \cup {g}]

(* mutant of vmp_page_retain_locked: a page taken back from the standby list *)
(* is left on it                                                             *)
retain_on_standby(s, g) ==
    LET first == s.page[g].refcnt = 0
        up == [s EXCEPT !.page[g].refcnt = @ + 1]
    IN  IF ~ first THEN up
        ELSE IF s.page[g].dirty THEN [up EXCEPT !.modified = Remove(@, g)]
        ELSE up

vmp_page_retain_locked(s, g) ==
    LET first == s.page[g].refcnt = 0
        up == [kassert(s, ~ first \/ s.page[g].use # "Deleted")
                  EXCEPT !.page[g].refcnt = @ + 1]
    IN  IF ~ first THEN up
        ELSE IF s.page[g].dirty THEN [up EXCEPT !.modified = Remove(@, g)]
        ELSE [up EXCEPT !.standby = Remove(@, g)]

vmp_page_release_locked(s, g) ==
    LET down == [kassert(s, s.page[g].refcnt > 0) EXCEPT !.page[g].refcnt = @ - 1]
        page == s.page[g]
        checked == kassert(down, page.use = "AnonPrivate" =>
                                   down.pte[page.ref].k = "Trans")
    IN  IF page.refcnt # 1 THEN down
        ELSE IF page.use = "Deleted" THEN vmp_page_free(down, g)
        ELSE IF page.dirty THEN [checked EXCEPT !.modified = Append(@, g)]
        ELSE [checked EXCEPT !.standby = Append(@, g)]

(* vmp_page_steal of the first page on the standby list: its referent PTE     *)
(* goes back to the backing store                                            *)
vmp_page_steal(s) ==
    LET g == Head(s.standby)
        page == s.page[g]
        back == IF page.use = "FileShared" THEN ZeroPte ELSE SwapPte(page.slot)
        off == kassert([s EXCEPT !.standby = Tail(@), !.pte[page.ref] = back],
                       /\ ~ page.dirty /\ page.refcnt = 0
                       /\ s.pte[page.ref].k =
                            IF page.use = "AnonPrivate" THEN "Trans" ELSE "Valid"
                       /\ s.pte[page.ref].pg = g)
    IN  vmp_page_free(off, g)

(* vmp_pages_alloc_locked: whether it fails, the state in which it takes a   *)
(* page off the free list (standby pages are stolen while free ones are few), *)
(* and that page taken for a use                                             *)
Available(s) == Cardinality(s.free) + Len(s.standby)
Shortage(s) ==
    \/ Available(s) < VeryLow
    \/ Cardinality(s.free) < FreeLow /\ s.standby = <<>>
Reclaimed(s) == IF Cardinality(s.free) < FreeLow THEN vmp_page_steal(s) ELSE s
Taken(s, g, use, ref, slot) ==
    [s EXCEPT !.free = @ \ {g}, !.content[g] = 0,
              !.page[g] = [use |-> use, refcnt |-> 1, dirty |-> FALSE,
                           ref |-> ref, slot |-> slot]]

(* mutant of vmp_page_evict: the dirty bit of the PTE is dropped *)
evict_clean(s, p, v) ==
    LET g == s.pte[<<p, v>>].pg
        page == s.page[g]
        gone == CASE page.use = "AnonPrivate" -> TransPte(g)
                  [] page.use = "AnonFork" -> ForkPte(page.ref[2])
                  [] OTHER -> ZeroPte
    IN  vmp_page_release_locked([s EXCEPT !.pte[<<p, v>>] = gone], g)

vmp_page_evict(s, p, v) ==
    LET e == s.pte[<<p, v>>]
        page == s.page[e.pg]
        gone == CASE page.use = "AnonPrivate" -> TransPte(e.pg)
                  [] page.use = "AnonFork" -> ForkPte(page.ref[2])
                  [] OTHER -> ZeroPte
    IN  vmp_page_release_locked(
            [kassert(s, e.k = "Valid")
                EXCEPT !.pte[<<p, v>>] = gone,
                       !.page[e.pg].dirty = @ \/ e.w],
            e.pg)

------------------------------------------------------------------------------
(* Locks.  ws_mutex is held across the end of a fault and a trim; vm_fork     *)
(* holds the map lock of the process it copies exclusively.                   *)
WsHeld(p) ==
    \/ \E t \in Threads : proc[t] = p /\ th[t].pc \in {"insert", "late"}
    \/ trimmer # Nil /\ trimmer.p = p
MapReader(p) == \E t \in Threads : proc[t] = p /\ th[t].pc = "insert"
MapWriter(p) == forker # Nil /\ forker.p = p

Running(t) == t \in conf.threads /\ proc[t] \in alive /\ db.halt = "no"
Place(t) == <<proc[t], th[t].v>>
Pte(t) == db.pte[Place(t)]
PageOf(e) == db.page[e.pg]
Goto(t, pc) == th' = [th EXCEPT ![t].pc = pc]

(* vmp_do_fault has its locks and looks at the PTE *)
Faulting(t) ==
    /\ Running(t) /\ th[t].pc = "fault"
    /\ ~ WsHeld(proc[t]) /\ ~ MapWriter(proc[t])
    /\ UNCHANGED <<backing, wsVars, conf, alive, forker, trimmer, batch>>
WriteFault(t) == th[t].write /\ Pte(t).k = "Valid" /\ ~ Pte(t).w
Kept == UNCHANGED <<n_dirty_pages, n_anonymous, ghosts>>

(* a store the PTE permits *)
Store(t, v, d) ==
    LET e == db.pte[<<proc[t], v>>]
    IN  /\ Running(t) /\ th[t].pc = "run" /\ v \in conf.pages
        /\ e.k = "Valid" /\ e.w /\ db.content[e.pg] # d
        /\ db' = [db EXCEPT !.content[e.pg] = d]
        /\ IF v \in Shared
             THEN fileval' = [fileval EXCEPT ![object_page[v]] = d] /\ UNCHANGED mem
             ELSE mem' = [mem EXCEPT ![proc[t]][v] = d] /\ UNCHANGED fileval
        /\ UNCHANGED <<backing, n_dirty_pages, wsVars, n_anonymous, conf, alive,
                       th, forker, trimmer, batch, tainted>>

(* an access it does not *)
Trap(t, v, w) ==
    LET e == db.pte[<<proc[t], v>>]
    IN  /\ Running(t) /\ th[t].pc = "run" /\ v \in conf.pages
        /\ ~ (e.k = "Valid" /\ (w => e.w))
        /\ th' = [th EXCEPT ![t] = [pc |-> "fault", v |-> v, write |-> w, pg |-> Nil]]
        /\ UNCHANGED <<db, backing, n_dirty_pages, wsVars, n_anonymous, conf,
                       alive, forker, trimmer, batch, ghosts>>

FaultNothing(t) ==
    /\ Faulting(t) /\ Pte(t).k = "Valid" /\ ~ WriteFault(t)
    /\ Goto(t, "run")
    /\ UNCHANGED db /\ Kept

(* No page can be had: the thread waits for vmp_page_availability_event,      *)
(* which nothing signals.  A page-in from an object returns the negated code, *)
(* which vmp_fault does not know.                                             *)
Allocates(t) ==
    LET e == Pte(t)
    IN  \/ e.k = "Swap"
        \/ e.k = "Zero" /\ (th[t].v \notin Anon => db.pte[Proto(th[t].v)].k = "Zero")
        \/ e.k = "Fork" /\ db.pte[ForkPlace(e.forkpage)].k = "Swap"
        \/ /\ WriteFault(t)
           /\ \/ PageOf(e).use = "AnonFork" /\ db.refcount[PageOf(e).ref[2]] > 1
              \/ PageOf(e).use = "FileShared" /\ th[t].v \in Cow
FaultShortage(t) ==
    /\ Faulting(t) /\ Allocates(t) /\ Shortage(db)
    /\ IF Pte(t).k = "Zero" /\ th[t].v \notin Anon
         THEN db' = Halt(db, "shortage") /\ UNCHANGED th
         ELSE Goto(t, "pagewait") /\ UNCHANGED db
    /\ Kept

(* the page for a fault that needs one, and the database without it *)
Allocating(t) == Faulting(t) /\ Allocates(t) /\ ~ Shortage(db)

(* a dirty fault on a private page *)
FaultDirty(t) ==
    /\ Faulting(t) /\ WriteFault(t) /\ PageOf(Pte(t)).use = "AnonPrivate"
    /\ db' = SetPte(db, Place(t), HwPte(Pte(t).pg, TRUE))
    /\ Goto(t, "run")
    /\ Kept

(* vmp_do_fork_dirty_fault: the last sharer takes the page over ... *)
FaultForkOwn(t) ==
    LET g == Pte(t).pg
        f == PageOf(Pte(t)).ref[2]
    IN  /\ Faulting(t) /\ WriteFault(t)
        /\ PageOf(Pte(t)).use = "AnonFork" /\ db.refcount[f] = 1
        /\ db' = [db EXCEPT !.pte[Place(t)] = HwPte(g, TRUE),
                            !.pte[ForkPlace(f)] = ZeroPte,
                            !.page[g].use = "AnonPrivate", !.page[g].ref = Place(t),
                            !.refcount[f] = 0]
        /\ n_anonymous' = [n_anonymous EXCEPT ![proc[t]] = @ + 1]
        /\ Goto(t, "run")
        /\ UNCHANGED <<n_dirty_pages, ghosts>>

(* ... another one copies it; its reference to the old page is not dropped *)
FaultForkCopy(t) ==
    LET f == PageOf(Pte(t)).ref[2]
        s == Reclaimed(db)
    IN  /\ Allocating(t) /\ WriteFault(t) /\ PageOf(Pte(t)).use = "AnonFork"
        /\ \E g \in s.free :
              db' = [Taken(s, g, "AnonPrivate", Place(t), 0)
                       EXCEPT !.content[g] = db.content[Pte(t).pg],
                              !.pte[Place(t)] = HwPte(g, TRUE),
                              !.refcount[f] = @ - 1]
        /\ n_anonymous' = [n_anonymous EXCEPT ![proc[t]] = @ + 1]
        /\ Goto(t, "run")
        /\ UNCHANGED <<n_dirty_pages, ghosts>>

(* a write to a page of a private mapping of the file *)
FaultCow(t) ==
    LET s == Reclaimed(db)
        old == Pte(t).pg
    IN  /\ Allocating(t) /\ WriteFault(t) /\ PageOf(Pte(t)).use = "FileShared"
        /\ \E g \in s.free :
              LET copy == [Taken(s, g, "AnonPrivate", Place(t), 0)
                             EXCEPT !.content[g] = db.content[old]]
              IN  db' = SetPte(vmp_page_evict(copy, proc[t], th[t].v),
                               Place(t), HwPte(g, TRUE))
        /\ n_anonymous' = [n_anonymous EXCEPT ![proc[t]] = @ + 1]
        /\ mem' = [mem EXCEPT ![proc[t]][th[t].v] = fileval[object_page[th[t].v]]]
        /\ Goto(t, "run")
        /\ UNCHANGED <<n_dirty_pages, fileval, tainted>>

(* mutant of FaultFileDirty: the count goes up with every dirty fault *)
FaultFileDirtyAlways(t) ==
    LET g == Pte(t).pg
    IN  /\ Faulting(t) /\ WriteFault(t)
        /\ db.page[g].use = "FileShared" /\ th[t].v \in Shared
        /\ db' = [db EXCEPT !.page[g].dirty = TRUE, !.pte[Place(t)] = HwPte(g, TRUE)]
        /\ n_dirty_pages' = n_dirty_pages + 1
        /\ Goto(t, "run")
        /\ UNCHANGED <<n_anonymous, ghosts>>

(* a dirty fault on a page of the shared mapping; the first dirty page of the *)
(* file retains its vnode                                                    *)
FaultFileDirty(t) ==
    LET g == Pte(t).pg
    IN  /\ Faulting(t) /\ WriteFault(t)
        /\ db.page[g].use = "FileShared" /\ th[t].v \in Shared
        /\ db' = [db EXCEPT !.page[g].dirty = TRUE, !.pte[Place(t)] = HwPte(g, TRUE)]
        /\ n_dirty_pages' = n_dirty_pages + (IF db.page[g].dirty THEN 0 ELSE 1)
        /\ Goto(t, "run")
        /\ UNCHANGED <<n_anonymous, ghosts>>

(* the first touch of anonymous memory *)
FaultZeroFill(t) ==
    LET s == Reclaimed(db)
    IN  /\ Allocating(t) /\ Pte(t).k = "Zero" /\ th[t].v \in Anon
        /\ n_anonymous[proc[t]] < MaxAnonymous
        /\ \E g \in s.free :
              db' = SetPte(Taken(s, g, "AnonPrivate", Place(t), 0),
                           Place(t), HwPte(g, th[t].write))
        /\ n_anonymous' = [n_anonymous EXCEPT ![proc[t]] = @ + 1]
        /\ Goto(t, "insert")
        /\ UNCHANGED <<n_dirty_pages, ghosts>>

(* mutant of FaultTrans: the page is not taken off its list *)
FaultTransUnheld(t) ==
    /\ Faulting(t) /\ Pte(t).k = "Trans"
    /\ db' = SetPte(db, Place(t), HwPte(Pte(t).pg, th[t].write))
    /\ Goto(t, "insert")
    /\ Kept

(* the page is still in memory *)
FaultTrans(t) ==
    LET g == Pte(t).pg
    IN  /\ Faulting(t) /\ Pte(t).k = "Trans"
        /\ db' = SetPte(vmp_page_retain_locked(
                            kassert(db, db.page[g].use = "AnonPrivate"), g),
                        Place(t), HwPte(g, th[t].write))
        /\ Goto(t, "insert")
        /\ Kept

(* vmp_do_obj_fault: the file's page is in memory *)
FaultObject(t) ==
    LET e == db.pte[Proto(th[t].v)]
    IN  /\ Faulting(t) /\ Pte(t).k = "Zero" /\ th[t].v \notin Anon
        /\ e.k = "Valid"
        /\ db' = SetPte(vmp_page_retain_locked(db, e.pg), Place(t),
                        HwPte(e.pg, FALSE))
        /\ Goto(t, "insert")
        /\ Kept

(* vmp_do_obj_fault: it is being read in.  The code takes the page from the   *)
(* process's PTE, which is zero: vmp_md_soft_pte_pfn's assertion fails.       *)
FaultObjectBusy(t) ==
    /\ Faulting(t) /\ Pte(t).k = "Zero" /\ th[t].v \notin Anon
    /\ db.pte[Proto(th[t].v)].k = "Busy"
    /\ db' = Halt(db, "object busy")
    /\ UNCHANGED th /\ Kept

(* vmp_do_fork_fault: the fork page is in memory ... *)
FaultFork(t) ==
    LET e == db.pte[ForkPlace(Pte(t).forkpage)]
    IN  /\ Faulting(t) /\ Pte(t).k = "Fork" /\ e.k = "Valid"
        /\ db' = SetPte(vmp_page_retain_locked(db, e.pg), Place(t),
                        HwPte(e.pg, FALSE))
        /\ Goto(t, "insert")
        /\ Kept

(* ... or neither there nor in the pagefile *)
FaultForkOther(t) ==
    /\ Faulting(t) /\ Pte(t).k = "Fork"
    /\ db.pte[ForkPlace(Pte(t).forkpage)].k \in {"Busy", "Zero"}
    /\ db' = Halt(db, "fork page")
    /\ UNCHANGED th /\ Kept

(* Page-in: busy PTEs in the process and, for an object or a fork page, in    *)
(* the place all sharers look at; the locks are dropped and the read sent.    *)
StartRead(t, use, ref, slot) ==
    LET s == Reclaimed(db)
    IN  \E g \in s.free :
          /\ db' = [Taken(s, g, use, ref, slot)
                      EXCEPT !.pte[ref] = BusyPte(g), !.pte[Place(t)] = BusyPte(g)]
          /\ th' = [th EXCEPT ![t].pc = "reading", ![t].pg = g]

(* do_file_read, the swap-in of vmp_do_fault and that of vmp_do_fork_fault *)
FaultRead(t) ==
    LET e == Pte(t)
    IN  /\ Allocating(t) /\ Kept
        /\ \/ /\ e.k = "Zero" /\ th[t].v \notin Anon
              /\ StartRead(t, "FileShared", Proto(th[t].v), 0)
           \/ e.k = "Swap" /\ StartRead(t, "AnonPrivate", Place(t), e.slot)
           \/ /\ e.k = "Fork"
              /\ StartRead(t, "AnonFork", ForkPlace(e.forkpage),
                           db.pte[ForkPlace(e.forkpage)].slot)

(* the device has filled the page *)
ReadCompletes(t) ==
    LET g == th[t].pg
        page == db.page[g]
    IN  /\ Running(t) /\ th[t].pc = "reading"
        /\ db' = [db EXCEPT !.content[g] = IF page.use = "FileShared"
                                           THEN file[page.ref[2]]
                                           ELSE disk[page.slot]]
        /\ Goto(t, "read")
        /\ UNCHANGED <<backing, n_dirty_pages, wsVars, n_anonymous, conf, alive,
                       forker, trimmer, batch, ghosts>>

(* back under ws_mutex and the PFN lock: the PTEs become valid and whoever    *)
(* collided with the page-in retries                                         *)
FinishRead(t) ==
    LET g == th[t].pg
        page == db.page[g]
        write == page.use = "AnonPrivate" /\ th[t].write
    IN  /\ Running(t) /\ th[t].pc = "read" /\ ~ WsHeld(proc[t])
        /\ db' = [kassert(db, Pte(t) = BusyPte(g))
                    EXCEPT !.pte[page.ref] = HwPte(g, TRUE),
                           !.pte[Place(t)] = HwPte(g, write)]
        /\ th' = [x \in Threads |->
                    IF x = t THEN [th[x] EXCEPT !.pc = "late"]
                    ELSE IF th[x].pc = "busywait" /\ th[x].pg = g
                    THEN [th[x] EXCEPT !.pc = "fault", !.pg = Nil]
                    ELSE th[x]]
        /\ UNCHANGED <<backing, n_dirty_pages, wsVars, n_anonymous, conf, alive,
                       forker, trimmer, batch, ghosts>>

(* another thread of the process is reading the page in *)
FaultBusy(t) ==
    /\ Faulting(t) /\ Pte(t).k = "Busy"
    /\ th' = [th EXCEPT ![t].pc = "busywait", ![t].pg = Pte(t).pg]
    /\ UNCHANGED db /\ Kept

(* vmp_wsl_insert, with which the fault ends *)
CanExpand(p) == limit[p] # WsCapacity /\ Available(db) >= conf.fairly_low

(* mutant of Insert: a full working set grows instead of giving up a page *)
InsertGrows(t) ==
    LET p == proc[t]
    IN  /\ Running(t) /\ th[t].pc \in {"insert", "late"}
        /\ ws' = [ws EXCEPT ![p] = @ \cup {th[t].v}]
        /\ th' = [th EXCEPT ![t] = Idle]
        /\ UNCHANGED <<db, limit, backing, n_dirty_pages, n_anonymous, conf, alive,
                       forker, trimmer, batch, ghosts>>

Insert(t) ==
    LET p == proc[t]
        v == th[t].v
        full == Cardinality(ws[p]) >= limit[p]
    IN  /\ Running(t) /\ th[t].pc \in {"insert", "late"}
        /\ \/ /\ ~ full \/ CanExpand(p)
              /\ ws' = [ws EXCEPT ![p] = @ \cup {v}]
              /\ limit' = [limit EXCEPT ![p] =
                             IF full THEN IF @ + WsExpansion < WsCapacity
                                          THEN @ + WsExpansion ELSE WsCapacity
                                     ELSE @]
              /\ th' = [th EXCEPT ![t] = Idle]
              /\ UNCHANGED db
           \/ /\ full /\ ~ CanExpand(p) /\ limit[p] = 0
              /\ db' = Halt(db, "limit")
              /\ UNCHANGED <<wsVars, th>>
           \/ /\ full /\ ~ CanExpand(p) /\ limit[p] # 0
              /\ \E u \in ws[p] :
                    /\ db' = vmp_page_evict(db, p, u)
                    /\ ws' = [ws EXCEPT ![p] = (@ \ {u}) \cup {v}]
              /\ th' = [th EXCEPT ![t] = Idle]
              /\ UNCHANGED limit
        /\ UNCHANGED <<backing, n_dirty_pages, n_anonymous, conf, alive, forker,
                       trimmer, batch, ghosts>>

------------------------------------------------------------------------------
(* trim_working_sets: the balancer takes its share of a working set, an entry *)
(* at a time, and leaves the set no room                                     *)
Quiet == UNCHANGED <<n_dirty_pages, n_anonymous, conf, alive, th, forker, ghosts>>

TrimStart(p) ==
    /\ p \in alive /\ trimmer = Nil /\ ~ WsHeld(p) /\ db.halt = "no"
    /\ \E d \in {UrgentDivisor, LaxDivisor} :
          trimmer' = [p |-> p, n |-> Cardinality(ws[p]) \div d]
    /\ UNCHANGED <<db, backing, wsVars, batch>> /\ Quiet

TrimEvict ==
    LET p == trimmer.p
    IN  /\ trimmer # Nil /\ trimmer.n > 0 /\ ws[p] # {} /\ db.halt = "no"
        /\ \E u \in ws[p] : /\ db' = vmp_page_evict(db, p, u)
                            /\ ws' = [ws EXCEPT ![p] = @ \ {u}]
        /\ trimmer' = [trimmer EXCEPT !.n = @ - 1]
        /\ UNCHANGED <<backing, limit, batch>> /\ Quiet

TrimEnd ==
    LET p == trimmer.p
    IN  /\ trimmer # Nil /\ (trimmer.n = 0 \/ ws[p] = {}) /\ db.halt = "no"
        /\ limit' = [limit EXCEPT ![p] = Cardinality(ws[p])]
        /\ trimmer' = Nil
        /\ UNCHANGED <<db, backing, ws, batch>> /\ Quiet

------------------------------------------------------------------------------
(* vmp_writeback.  A batch is taken off the modified list and marked clean,  *)
(* each page getting a slot of the pagefile if it has none ...               *)
Prepare(s, g) ==
    LET page == s.page[g]
        slot == IF page.use # "FileShared" /\ page.slot = 0 THEN s.slots + 1
                                                            ELSE page.slot
        held == vmp_page_retain_locked(
                    kassert(s, /\ page.refcnt = 0 /\ page.dirty
                               /\ page.use = "AnonPrivate" =>
                                    s.pte[page.ref].k = "Trans"), g)
    IN  IF slot > NSlots THEN Halt(held, "pagefile")
        ELSE [held EXCEPT !.page[g].dirty = FALSE, !.page[g].slot = slot,
                          !.slots = IF slot > @ THEN slot ELSE @]

WritebackStart ==
    LET n == IF Len(db.modified) < MaxWritebacks THEN Len(db.modified)
                                                 ELSE MaxWritebacks
        pages == SubSeq(db.modified, 1, n)
    IN  /\ batch.todo = <<>> /\ batch.done = <<>> /\ n > 0 /\ db.halt = "no"
        /\ db' = FoldLeft(Prepare, db, pages)
        /\ batch' = [batch EXCEPT !.todo = pages]
        /\ UNCHANGED <<backing, wsVars, trimmer>> /\ Quiet

(* ... and written, a page at a time; a page of the file goes to the offset   *)
(* its page number is shifted right to, which is 0 for the first 4096 pages    *)
WritebackWrite ==
    LET g == Head(batch.todo)
    IN  /\ batch.todo # <<>> /\ db.halt = "no"
        /\ IF db.page[g].use = "FileShared"
             THEN file' = [file EXCEPT ![0] = db.content[g]] /\ UNCHANGED disk
             ELSE disk' = [disk EXCEPT ![db.page[g].slot] = db.content[g]]
                  /\ UNCHANGED file
        /\ batch' = [todo |-> Tail(batch.todo), done |-> Append(batch.done, g)]
        /\ UNCHANGED <<db, wsVars, trimmer>> /\ Quiet

(* mutant of WritebackDone: pages are marked clean only now *)
WritebackDoneClean ==
    LET g == Head(batch.done)
    IN  /\ batch.todo = <<>> /\ batch.done # <<>> /\ db.halt = "no"
        /\ db' = vmp_page_release_locked([db EXCEPT !.page[g].dirty = FALSE], g)
        /\ n_dirty_pages' = n_dirty_pages -
                              (IF db.page[g].use = "FileShared" THEN 1 ELSE 0)
        /\ batch' = [batch EXCEPT !.done = Tail(@)]
        /\ UNCHANGED <<backing, wsVars, n_anonymous, conf, alive, th, forker,
                       trimmer, ghosts>>

(* The pages are released; the last dirty page of the file lets go of its     *)
(* vnode.  (The code drops the PFN lock only after a page of the file.)       *)
WritebackDone ==
    LET g == Head(batch.done)
    IN  /\ batch.todo = <<>> /\ batch.done # <<>> /\ db.halt = "no"
        /\ db' = vmp_page_release_locked(db, g)
        /\ n_dirty_pages' = n_dirty_pages -
                              (IF db.page[g].use = "FileShared" THEN 1 ELSE 0)
        /\ batch' = [batch EXCEPT !.done = Tail(@)]
        /\ UNCHANGED <<backing, wsVars, n_anonymous, conf, alive, th, forker,
                       trimmer, ghosts>>

------------------------------------------------------------------------------
(* vm_fork.  The map lock is taken exclusively and a fork page set aside for  *)
(* each private page; then the pages are visited in order.                    *)
IsPrivate(e) ==
    \/ e.k \in {"Trans", "Swap"}
    \/ e.k = "Valid" /\ PageOf(e).use = "AnonPrivate"
IsFork(e) ==
    \/ e.k = "Fork"
    \/ e.k = "Valid" /\ PageOf(e).use = "AnonFork"
ForkpageOf(e) == IF e.k = "Fork" THEN e.forkpage ELSE PageOf(e).ref[2]

ForkStart(t, c) ==
    LET p == proc[t]
    IN  /\ Running(t) /\ th[t].pc = "run" /\ forker = Nil
        /\ c \in conf.procs \ alive
        /\ ~ MapReader(p)
        /\ forker' = [t |-> t, p |-> p, c |-> c, n |-> n_anonymous[p], index |-> 0,
                      rest |-> SetToSeq(conf.pages \cap Private), pending |-> Nil]
        /\ Goto(t, "fork")
        /\ UNCHANGED <<db, backing, n_dirty_pages, wsVars, n_anonymous, conf, alive,
                       trimmer, batch, ghosts>>

(* convert_private_to_fork *)
Converted(x, e, f) ==
    LET s == IF e.k = "Swap" THEN db
             ELSE [db EXCEPT !.page[e.pg].use = "AnonFork",
                             !.page[e.pg].ref = ForkPlace(f)]
    IN  [kassert(s, e.k # "Swap" => PageOf(e).use = "AnonPrivate")
           EXCEPT !.pte[ForkPlace(f)] = IF e.k = "Swap" THEN e ELSE HwPte(e.pg, TRUE),
                  !.pte[x] = IF e.k = "Valid" THEN HwPte(e.pg, FALSE) ELSE ForkPte(f),
                  !.refcount[f] = 2]

(* cow_pages, the parent's page: mem of the child is what the parent has then *)
ForkPage ==
    LET v == Head(forker.rest)
        x == <<forker.p, v>>
        e == db.pte[x]
        pass(f) == forker' = [forker EXCEPT !.pending = f]
    IN  /\ forker # Nil /\ forker.rest # <<>> /\ forker.pending = Nil
        /\ ~ WsHeld(forker.p) /\ db.halt = "no"
        /\ \/ e.k = "Busy" /\ db' = Halt(db, "fork busy") /\ UNCHANGED <<forker, tainted>>
           \/ /\ IsPrivate(e) /\ forker.index < forker.n
              /\ \E f \in {i \in ForkIds : db.refcount[i] = 0} :
                    /\ db' = Converted(x, e, f)
                    /\ forker' = [forker EXCEPT !.pending = f, !.index = @ + 1]
              /\ tainted' = IF e.k = "Valid" /\ e.w /\ ~ PageOf(e).dirty
                            THEN tainted \cup {v} ELSE tainted
           \/ /\ IsPrivate(e) /\ forker.index >= forker.n
              /\ db' = Halt(db, "fork count")
              /\ UNCHANGED <<forker, tainted>>
           \/ /\ IsFork(e)
              /\ db' = [db EXCEPT !.refcount[ForkpageOf(e)] = @ + 1]
              /\ pass(ForkpageOf(e))
              /\ UNCHANGED tainted
           \/ /\ e.k # "Busy" /\ ~ IsPrivate(e) /\ ~ IsFork(e)
              /\ forker' = [forker EXCEPT !.rest = Tail(@)]
              /\ UNCHANGED <<db, tainted>>
        /\ mem' = [mem EXCEPT ![forker.c][v] = mem[forker.p][v]]
        /\ UNCHANGED <<backing, n_dirty_pages, wsVars, n_anonymous, conf, alive, th,
                       trimmer, batch, fileval>>

(* cow_pages, the child's *)
ForkChild ==
    /\ forker # Nil /\ forker.pending # Nil
    /\ ~ WsHeld(forker.c) /\ db.halt = "no"
    /\ db' = SetPte(db, <<forker.c, Head(forker.rest)>>, ForkPte(forker.pending))
    /\ forker' = [forker EXCEPT !.rest = Tail(@), !.pending = Nil]
    /\ UNCHANGED <<backing, n_dirty_pages, wsVars, n_anonymous, conf, alive, th,
                   trimmer, batch, ghosts>>

(* the end of vm_fork, which checks that every fork page was used *)
ForkEnd ==
    /\ forker # Nil /\ forker.rest = <<>> /\ db.halt = "no"
    /\ IF forker.index = forker.n
         THEN /\ n_anonymous' = [n_anonymous EXCEPT ![forker.p] = 0]
              /\ Goto(forker.t, "run")
              /\ alive' = alive \cup {forker.c}
              /\ UNCHANGED db
         ELSE /\ db' = Halt(db, "fork count")
              /\ UNCHANGED <<n_anonymous, th, alive>>
    /\ forker' = Nil
    /\ UNCHANGED <<backing, n_dirty_pages, wsVars, conf, trimmer, batch, ghosts>>

------------------------------------------------------------------------------
Fault(t) ==
    \/ FaultNothing(t) \/ FaultShortage(t) \/ FaultDirty(t) \/ FaultForkOwn(t)
    \/ FaultForkCopy(t) \/ FaultCow(t) \/ FaultFileDirty(t) \/ FaultZeroFill(t)
    \/ FaultTrans(t) \/ FaultObject(t) \/ FaultObjectBusy(t) \/ FaultFork(t)
    \/ FaultForkOther(t) \/ FaultRead(t) \/ FaultBusy(t)

Next ==
    \/ \E t \in Threads, v \in Vpns : \/ \E d \in Data : Store(t, v, d)
                                      \/ \E w \in BOOLEAN : Trap(t, v, w)
    \/ \E t \in Threads : Fault(t) \/ ReadCompletes(t) \/ FinishRead(t) \/ Insert(t)
    \/ \E t \in Threads, c \in Procs : ForkStart(t, c)
    \/ ForkPage \/ ForkChild \/ ForkEnd
    \/ \E p \in Procs : TrimStart(p)
    \/ TrimEvict \/ TrimEnd
    \/ WritebackStart \/ WritebackWrite \/ WritebackDone

Spec == Init /\ [][Next]_vars

------------------------------------------------------------------------------
(* the PTEs that count as references to a frame: those of the processes *)
Mapping(x) == x[1] \in Procs /\ db.pte[x].k \in {"Valid", "Busy"}
Mapped(g) == {x \in Places : Mapping(x) /\ db.pte[x].pg = g}
Writing(g) == \E i \in DOMAIN (batch.todo \o batch.done) :
                 (batch.todo \o batch.done)[i] = g
Queued(q, g) == \E i \in DOMAIN q : q[i] = g

(* Frames are where their reference counts say.  Every frame is free, on one  *)
(* of the two page lists with no reference (the modified list iff it is       *)
(* dirty), or referenced at least as often as PTEs map it and the writeback   *)
(* thread holds it; and no PTE, prototype PTE or fork page refers to a frame  *)
(* that is free or is in use for something else.                              *)
FramesAccounted ==
    /\ \A g \in Frames :
         LET page == db.page[g]
         IN  /\ g \in db.free <=> g \in conf.frames /\ page.use = "Free"
             /\ Queued(db.standby, g) <=> page.use # "Free" /\ page.refcnt = 0
                                          /\ ~ page.dirty
             /\ Queued(db.modified, g) <=> page.use # "Free" /\ page.refcnt = 0
                                           /\ page.dirty
             /\ page.refcnt >= Cardinality(Mapped(g)) + (IF Writing(g) THEN 1 ELSE 0)
    /\ \A x \in Places :
         LET e == db.pte[x]
         IN  e.k \in {"Valid", "Busy", "Trans"} =>
               LET page == db.page[e.pg]
               IN  \/ page.ref = x
                   \/ /\ x[1] \in Procs /\ e.k # "Trans"
                      /\ page.use = "FileShared" /\ page.ref = Proto(x[2])
                   \/ /\ x[1] \in Procs /\ e.k # "Trans"
                      /\ page.use = "AnonFork" /\ db.pte[page.ref].pg = e.pg

(* what a PTE's page holds, wherever it is; none is what `zero' says *)
Reading(g) == \E t \in Threads : th[t].pc = "reading" /\ th[t].pg = g
PageValue(e, zero, back) ==
    CASE e.k = "Zero" -> zero
      [] e.k = "Swap" -> disk[e.slot]
      [] e.k = "Busy" /\ Reading(e.pg) -> back
      [] OTHER -> db.content[e.pg]
PrivateValue(e) ==
    LET leaf == IF e.k = "Fork" THEN db.pte[ForkPlace(e.forkpage)] ELSE e
    IN  PageValue(leaf, 0, IF leaf.k = "Busy" THEN disk[db.page[leaf.pg].slot] ELSE 0)

(* A process's private pages keep what it last stored in them, through        *)
(* eviction, writeback, theft of the frame, page-in, copy-on-write and fork.  *)
(* Pages forked while their PTE alone recorded that they were dirty are left  *)
(* out: convert_page forgets it, so their data can be discarded.              *)
PrivateDataKept ==
    \A p \in alive, v \in (conf.pages \cap Private) \ tainted :
        LET e == db.pte[<<p, v>>]
        IN  \/ db.halt # "no"
            \/ v \in Cow /\ e.k = "Zero"
            \/ e.k \in {"Valid", "Busy"} /\ PageOf(e).use = "FileShared"
            \/ PrivateValue(e) = mem[p][v]

(* A page of the file keeps what was last stored in it through any mapping.   *)
FileDataKept ==
    \A o \in FilePages :
        PageValue(db.pte[<<"proto", o>>], file[o], file[o]) = fileval[o]

(* The working set of a process is the set of its valid pages, and fits its   *)
(* limit; the fault that has made a page valid adds it before it lets go of   *)
(* ws_mutex.                                                                  *)
WorkingSetExact ==
    \A p \in Procs :
        /\ {v \in Vpns : db.pte[<<p, v>>].k = "Valid"} =
             ws[p] \cup {th[t].v : t \in {u \in Threads :
                           proc[u] = p /\ th[u].pc \in {"insert", "late"}}}
        /\ Cardinality(ws[p]) <= limit[p]

(* The file's count of dirty pages, which keeps its vnode alive, is exact: a  *)
(* page that was dirtied again while it was being written counts twice.       *)
DirtyPagesCounted ==
    n_dirty_pages =
      Cardinality({g \in Frames : db.page[g].use = "FileShared" /\ db.page[g].dirty})
      + Cardinality({g \in Frames : db.page[g].use = "FileShared" /\ Writing(g)})

(* The assertions of the page lists, of eviction, theft, writeback, page-in   *)
(* and conversion never fail: the machine stops only where the code does not  *)
(* handle a case.                                                             *)
AssertionsHold == db.halt # "assert"

(* "Count of private anonymous pages, including paged-out ones."              *)
AnonymousCounted ==
    \A p \in alive :
        db.halt = "no" /\ forker = Nil =>
            n_anonymous[p] = Cardinality({v \in Vpns : IsPrivate(db.pte[<<p, v>>])})
============================================================================
