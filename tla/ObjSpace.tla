------------------------------ MODULE ObjSpace ------------------------------
(***************************************************************************)
(* Objects, descriptor tables and the services on files: objman.c,         *)
(* objtab.c, process.c, file.c and the system calls of services.c.         *)
(*                                                                         *)
(* Two threads of one process open, use and close files through the same   *)
(* descriptor table, and one of them ("a") may fork, which copies the      *)
(* table slot by slot without a lock; the thread of the child ("c") then   *)
(* works on the copy.  Reservation and release of a descriptor are atomic, *)
(* as they run under write_lock; a lookup is two steps, the load of the    *)
(* pointer and the attempt to retain the object.                           *)
(*                                                                         *)
(* File offsets and contents are left out.  A failed kassert, a kfatal and *)
(* a use of a null or junk pointer end the behaviour (objHalted).          *)
(***************************************************************************)
EXTENDS Integers, FiniteSets, Sequences

CONSTANTS Capacity,   \* descriptors of a table (64 in the code)
          MaxFiles,   \* file objects ever created
          Wrap        \* the modulus of n_open (2^32 in the code)

VARIABLES objFiles,    \* sequence of [kind, count, freed]
          objTables,   \* per process [open, ptr, n_open]
          objProcs,    \* reference count of each process object
          objCall,     \* what each thread is doing: [pc, file, slot]
          objResizing, \* the resize_done_event of the first table is clear
          objLost,     \* files a reference of which was dropped and never released
          objHalted

objVars == <<objFiles, objTables, objProcs, objCall, objResizing, objLost, objHalted>>

Slots == 0 .. Capacity - 1
Junk == -1              \* what an uninitialised pointer points to
Callers == {"a", "b", "c"}
ProcOf(t) == IF t = "c" THEN 2 ELSE 1
FileOps == {"read", "write", "seek", "stat", "ioctl", "map"}
Dec(n) == (n - 1) % Wrap

AtUser == [pc |-> "user", file |-> 0, slot |-> 0]

ex_file_new(kind) == [kind |-> kind, count |-> 1, freed |-> FALSE]

\* init opens the console before its first thread runs
ex_console_open == [open |-> {0}, ptr |-> [s \in Slots |-> IF s = 0 THEN 1 ELSE 0], n_open |-> 1]

ObjInit ==
    /\ objFiles = <<ex_file_new("console")>>
    /\ objTables = <<ex_console_open, [open |-> {}, ptr |-> [s \in Slots |-> Junk], n_open |-> 0]>>
    /\ objProcs = <<3, 0>>
    /\ objCall = [t \in Callers |-> IF t = "c" THEN [AtUser EXCEPT !.pc = "unborn"] ELSE AtUser]
    /\ objResizing = FALSE
    /\ objLost = {}
    /\ objHalted = FALSE

Goto(t, c) == objCall' = [objCall EXCEPT ![t] = c]
HaltObj == objHalted' = TRUE /\ UNCHANGED <<objFiles, objTables, objProcs, objCall, objResizing, objLost>>

(***************************************************************************)
(* Reference counts.                                                       *)
(***************************************************************************)

obj_retain(f) == [objFiles EXCEPT ![f].count = @ + 1]

ex_file_free(file) == [file EXCEPT !.freed = TRUE]

obj_release(f) ==
    LET file == [objFiles[f] EXCEPT !.count = @ - 1] IN
    [objFiles EXCEPT ![f] = IF file.count = 0 THEN ex_file_free(file) ELSE file]

\* ex_file_free releases the vnode; that of the console was never retained
\* for the file and has no inactive operation, so its last release is fatal
LastOfConsole(f) == objFiles[f].count = 1 /\ objFiles[f].kind = "console"

\* a plain increment, whatever the count
BlindRetain(f) == TRUE

CanRetain(f) == objFiles[f].count # 0

obj_tryretain_rcu(f) == IF CanRetain(f) THEN obj_retain(f) ELSE objFiles

(***************************************************************************)
(* Descriptors.                                                            *)
(***************************************************************************)

\* The lowest closed slot; none when the table is full by its own count.
descnum_alloc_locked(table) ==
    IF table.n_open < Capacity /\ table.open # Slots
    THEN CHOOSE s \in Slots \ table.open : \A r \in Slots \ table.open : s =< r
    ELSE -1

\* A new file of the given kind, held by the thread alone.
Create(t, kind) ==
    /\ objCall[t].pc = "user" /\ Len(objFiles) < MaxFiles
    /\ objFiles' = Append(objFiles, ex_file_new(kind))
    /\ Goto(t, [pc |-> "made", file |-> Len(objFiles) + 1, slot |-> 0])
    /\ UNCHANGED <<objTables, objProcs, objResizing, objLost, objHalted>>

ex_object_space_reserve(t) ==
    LET p == ProcOf(t)
        table == objTables[p]
        s == descnum_alloc_locked(table) IN
    /\ objCall[t].pc = "made" /\ ~objResizing
    /\ IF s # -1
       THEN /\ objTables' = [objTables EXCEPT ![p].open = @ \union {s}, ![p].n_open = @ + 1]
            /\ Goto(t, [objCall[t] EXCEPT !.pc = "reserved", !.slot = s])
            /\ UNCHANGED objResizing
       ELSE /\ objResizing' = (p = 1)
            /\ Goto(t, [objCall[t] EXCEPT !.pc = "resizing"])
            /\ UNCHANGED objTables
    /\ UNCHANGED <<objFiles, objProcs, objLost, objHalted>>

\* resize_entries copies the table, signals the event, frees the copy and
\* returns NULL.  ex_service_file_open then forgets the file;
\* ex_service_epoll_create releases it, its name still uninitialised.
resize_entries(t) ==
    LET f == objCall[t].file IN
    /\ objCall[t].pc = "resizing"
    /\ \/ /\ objResizing' = IF ProcOf(t) = 1 THEN FALSE ELSE objResizing
          /\ IF objFiles[f].kind = "epoll"
             THEN objFiles' = obj_release(f) /\ UNCHANGED objLost
             ELSE objLost' = objLost \union {f} /\ UNCHANGED objFiles
          /\ Goto(t, AtUser)
          /\ UNCHANGED <<objTables, objProcs, objHalted>>
       \/ objFiles[f].kind = "epoll" /\ HaltObj

\* The descriptor is asserted to be open still.  A pointer that fork copied
\* without its open bit is overwritten here.
ex_object_space_reserved_insert(t) ==
    LET c == objCall[t] IN
    /\ c.pc = "reserved" /\ (ProcOf(t) = 1 => ~objResizing)
    /\ IF c.slot \notin objTables[ProcOf(t)].open
       THEN HaltObj
       ELSE /\ objTables' = [objTables EXCEPT ![ProcOf(t)].ptr[c.slot] = c.file]
            /\ objLost' = objLost \union ({objTables[ProcOf(t)].ptr[c.slot]} \ {0, Junk})
            /\ Goto(t, AtUser)
            /\ UNCHANGED <<objFiles, objProcs, objResizing, objHalted>>

ex_service_file_open(t) == Create(t, "ninep")
ex_service_epoll_create(t) == Create(t, "epoll")

\* what is taken out of the slot is the thread's to release
ex_object_space_free_index(t, s) ==
    LET p == ProcOf(t) IN
    /\ objCall[t].pc = "user" /\ (p = 1 => ~objResizing)
    /\ IF s \notin objTables[p].open
       THEN HaltObj
       ELSE /\ objTables' = [objTables EXCEPT ![p].open = @ \ {s}, ![p].n_open = Dec(@), ![p].ptr[s] = 0]
            /\ Goto(t, [pc |-> "closing", file |-> objTables[p].ptr[s], slot |-> s])
            /\ UNCHANGED <<objFiles, objProcs, objResizing, objLost, objHalted>>

\* the release that ends a close; the slot may have been reserved, not filled
ex_service_file_close(t) ==
    LET f == objCall[t].file IN
    /\ objCall[t].pc = "closing"
    /\ IF f \in {0, Junk} \/ LastOfConsole(f)
       THEN HaltObj
       ELSE /\ objFiles' = obj_release(f)
            /\ Goto(t, AtUser)
            /\ UNCHANGED <<objTables, objProcs, objResizing, objLost, objHalted>>

\* Where a lookup of slot s gets to: the object it loaded, or back with NULL.
Loaded(t, s) ==
    LET table == objTables[ProcOf(t)] IN
    IF s \in table.open /\ table.ptr[s] # 0
    THEN [pc |-> "loaded", file |-> table.ptr[s], slot |-> s]
    ELSE AtUser

ex_object_space_lookup(t, s) ==
    /\ objCall[t].pc = "user"
    /\ Loaded(t, s) # AtUser
    /\ Goto(t, Loaded(t, s))
    /\ UNCHANGED <<objFiles, objTables, objProcs, objResizing, objLost, objHalted>>

\* The attempt to retain what was loaded; the loop loads again if it failed.
RetainLoaded(t) ==
    LET c == objCall[t] IN
    /\ c.pc = "loaded"
    /\ IF c.file = Junk
       THEN HaltObj
       ELSE /\ objFiles' = obj_tryretain_rcu(c.file)
            /\ Goto(t, IF CanRetain(c.file) THEN [c EXCEPT !.pc = "holds"] ELSE Loaded(t, c.slot))
            /\ UNCHANGED <<objTables, objProcs, objResizing, objLost, objHalted>>

(***************************************************************************)
(* What the services do with the file they hold: they come back ("done")   *)
(* or the kernel stops ("halt").  The vnode operations that exist are      *)
(* those of 9pfs.m, kconsole.c and epoll.c.                                *)
(***************************************************************************)

\* a read of an empty console fails, and the result is asserted to be 0
ex_service_file_read_cached(kind) ==
    CASE kind = "ninep" -> {"done"} [] kind = "console" -> {"done", "halt"} [] kind = "epoll" -> {"halt"}

ex_service_file_write_cached(kind) ==
    CASE kind = "ninep" -> {"done"} [] kind = "console" -> {"done", "halt"} [] kind = "epoll" -> {"halt"}

\* any other whence than SEEK_SET and SEEK_CUR is fatal
ex_service_file_seek(kind) == IF kind = "epoll" THEN {"halt"} ELSE {"done", "halt"}

ex_service_file_stat(kind) == IF kind = "epoll" THEN {"halt"} ELSE {"done"}

\* a vnode without the operation is answered with -ENOSYS
ex_service_file_ioctl(kind) == {"done"}

\* only a file that was opened by name has a vnode to map
krx_vm_map(kind) == IF kind = "ninep" THEN {"done"} ELSE {"halt"}

Outcomes(op, kind) ==
    CASE op = "read" -> ex_service_file_read_cached(kind)
      [] op = "write" -> ex_service_file_write_cached(kind)
      [] op = "seek" -> ex_service_file_seek(kind)
      [] op = "stat" -> ex_service_file_stat(kind)
      [] op = "ioctl" -> ex_service_file_ioctl(kind)
      [] op = "map" -> krx_vm_map(kind)

UseAndRelease(t) ==
    LET c == objCall[t] IN
    /\ c.pc = "holds"
    /\ \E op \in FileOps : \E o \in Outcomes(op, objFiles[c.file].kind) :
          IF o = "halt" \/ LastOfConsole(c.file)
          THEN HaltObj
          ELSE /\ objFiles' = obj_release(c.file)
               /\ Goto(t, AtUser)
               /\ UNCHANGED <<objTables, objProcs, objResizing, objLost, objHalted>>

(***************************************************************************)
(* fork and exit.                                                          *)
(***************************************************************************)

\* ps_process_create makes the process, whose only reference is krx_fork's,
\* and ex_object_space_create an empty table with n_open = 0.
ps_process_create(t) ==
    /\ objCall[t].pc = "user" /\ t = "a" /\ objProcs[2] = 0 /\ objCall["c"].pc = "unborn"
    /\ objProcs' = [objProcs EXCEPT ![2] = 1]
    /\ Goto(t, [pc |-> "forking", file |-> 0, slot |-> 0])
    /\ UNCHANGED <<objFiles, objTables, objResizing, objLost, objHalted>>

\* One turn of the loop over the parent's slots: the load of the pointer,
\* then the attempt to retain.  Both results are asserted not to be NULL.
ForkLoad(t) ==
    LET c == objCall[t] IN
    /\ c.pc = "forking" /\ c.slot < Capacity
    /\ IF c.slot \notin objTables[1].open
       THEN Goto(t, [c EXCEPT !.slot = @ + 1]) /\ UNCHANGED objHalted
       ELSE IF objTables[1].ptr[c.slot] = 0
       THEN objHalted' = TRUE /\ UNCHANGED objCall
       ELSE Goto(t, [c EXCEPT !.pc = "copying", !.file = objTables[1].ptr[c.slot]]) /\ UNCHANGED objHalted
    /\ UNCHANGED <<objFiles, objTables, objProcs, objResizing, objLost>>

ex_object_space_create(t) ==
    LET c == objCall[t] IN
    /\ c.pc = "copying"
    /\ IF ~CanRetain(c.file)
       THEN HaltObj
       ELSE /\ objFiles' = obj_tryretain_rcu(c.file)
            /\ objTables' = [objTables EXCEPT ![2].ptr[c.slot] = c.file]
            /\ Goto(t, [c EXCEPT !.pc = "forking", !.file = 0, !.slot = @ + 1])
            /\ UNCHANGED <<objProcs, objResizing, objLost, objHalted>>

\* The bitmap is copied last, as it is by then.  The new thread retains the
\* process; without a stack for it there is no thread and no process.
ps_thread_create(t) ==
    /\ objCall[t].pc = "forking" /\ objCall[t].slot = Capacity
    /\ objTables' = [objTables EXCEPT ![2].open = objTables[1].open]
    /\ \/ /\ objProcs' = [objProcs EXCEPT ![2] = @ + 1]
          /\ objCall' = [objCall EXCEPT ![t] = AtUser, !["c"] = AtUser]
       \/ /\ objProcs' = [objProcs EXCEPT ![2] = @ - 1]
          /\ objCall' = [objCall EXCEPT ![t] = AtUser, !["c"].pc = "none"]
    /\ UNCHANGED <<objFiles, objResizing, objLost, objHalted>>

\* the scheduler gives the thread's object back once it is off its stack
ex_thread_free(t) == [objProcs EXCEPT ![ProcOf(t)] = @ - 1]

ps_exit_this_thread(t) ==
    /\ objCall[t].pc = "user"
    /\ objProcs' = ex_thread_free(t)
    /\ Goto(t, [AtUser EXCEPT !.pc = "none"])
    /\ UNCHANGED <<objFiles, objTables, objResizing, objLost, objHalted>>

\* The system calls of one thread.
ex_syscall_dispatch(t) ==
    \/ ex_service_file_open(t)
    \/ ex_service_epoll_create(t)
    \/ \E s \in Slots : ex_object_space_free_index(t, s)
    \/ \E s \in Slots : ex_object_space_lookup(t, s)
    \/ ps_process_create(t)
    \/ ps_exit_this_thread(t)

ObjNext ==
    /\ ~objHalted
    /\ \E t \in Callers :
          \/ ex_syscall_dispatch(t)
          \/ ex_object_space_reserve(t)
          \/ resize_entries(t)
          \/ ex_object_space_reserved_insert(t)
          \/ ex_service_file_close(t)
          \/ RetainLoaded(t)
          \/ UseAndRelease(t)
          \/ ForkLoad(t)
          \/ ex_object_space_create(t)
          \/ ps_thread_create(t)

(***************************************************************************)
(* Properties.                                                             *)
(***************************************************************************)

Owners(f) == {t \in Callers : objCall[t].file = f /\ objCall[t].pc \in {"made", "resizing", "reserved", "holds", "closing"}}
References(f) == {ps \in (1 .. 2) \X Slots : objTables[ps[1]].ptr[ps[2]] = f}
Living(p) == {t \in Callers : ProcOf(t) = p /\ objCall[t].pc \notin {"unborn", "none"}}

\* Every file's reference count is the number of table slots and calls that
\* refer to it (more if one was lost), a file that was freed is never
\* retained again, the first table counts its open descriptors, an open
\* descriptor that names no file is about to be filled by exactly one call,
\* and a process is referenced by its creator and its threads
\* (obj_tryretain_rcu, ex_object_space_lookup and _free_index, the copy of
\* the table by ex_object_space_create).
ObjectsExact ==
    /\ \A f \in DOMAIN objFiles :
          LET held == Cardinality(References(f)) + Cardinality(Owners(f)) IN
          /\ IF f \in objLost THEN objFiles[f].count > held ELSE objFiles[f].count = held
          /\ objFiles[f].freed <=> objFiles[f].count = 0
    /\ objTables[1].n_open = Cardinality(objTables[1].open)
    /\ \A s \in objTables[1].open :
          objTables[1].ptr[s] = 0 <=> \E t \in {"a", "b"} : objCall[t].pc = "reserved" /\ objCall[t].slot = s
    /\ \A p \in 1 .. 2 : objProcs[p] # 0 => objProcs[p] = 1 + Cardinality(Living(p))
=============================================================================
