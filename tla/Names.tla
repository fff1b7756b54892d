------------------------------- MODULE Names -------------------------------
(***************************************************************************)
(* The name cache (vfs/namecache.c) and path lookup (vfs/lookup.c).        *)
(*                                                                         *)
(* An entry is named by its path; Parent gives the directory it is in.     *)
(* Threads walk to a file, keep its handle and release it.  Locks are      *)
(* taken one at a time: a step takes at most one mutex that it keeps.      *)
(* Names, hashes and mount points (no operation makes one) are left out.   *)
(* A failed kassert and the removal from the LRU queue of an entry that is *)
(* not on it end the behaviour (ncHalted).                                 *)
(***************************************************************************)
EXTENDS Integers, FiniteSets, Sequences

CONSTANTS NcPaths,       \* the paths that are looked up, sequences of entries
          NcParent,      \* function from the entries to their directory
          NcRoot,
          NcThreads,
          max_inactive,  \* ncstat.max_inactive
          MaxAsked       \* bound on the lookups the file system is asked for

VARIABLES ncEntry,     \* per entry [there, refcnt, neg]
          ncLru,       \* lru_queue
          ncInactive,  \* ncstat.inactive
          ncMutex,     \* holder of each entry's mutex
          ncLruMutex,  \* holder of lru_mutex
          ncWalk,      \* per thread [pc, cur, rest, then, victim]
          ncVfs,       \* vfs->file_refcnt
          ncAsked,
          ncHalted

ncVars == <<ncEntry, ncLru, ncInactive, ncMutex, ncLruMutex, ncWalk, ncVfs, ncAsked, ncHalted>>

Entries == DOMAIN NcParent
Nodes == Entries \union {NcRoot}
Nil == "nil"
AtRest == [pc |-> "idle", cur |-> Nil, rest |-> <<>>, then |-> Nil, victim |-> Nil]
Fresh == [there |-> TRUE, refcnt |-> 0, neg |-> FALSE]
NotThere == [there |-> FALSE, refcnt |-> 0, neg |-> FALSE]

\* the root's own reference is the file system's
nc_make_root == [e \in Nodes |-> IF e = NcRoot THEN [Fresh EXCEPT !.refcnt = 1] ELSE NotThere]

NcInit ==
    /\ ncEntry = nc_make_root
    /\ ncLru = <<>> /\ ncInactive = 0
    /\ ncMutex = [e \in Nodes |-> Nil] /\ ncLruMutex = Nil
    /\ ncWalk = [t \in NcThreads |-> AtRest]
    /\ ncVfs = 0 /\ ncAsked = 0
    /\ ncHalted = FALSE

HaltNc == ncHalted' = TRUE /\ UNCHANGED <<ncEntry, ncLru, ncInactive, ncMutex, ncLruMutex, ncWalk, ncVfs, ncAsked>>
NcGoto(t, p) == ncWalk' = [ncWalk EXCEPT ![t].pc = p]
Next1(t) == Head(ncWalk[t].rest)

(***************************************************************************)
(* Path lookup.                                                            *)
(***************************************************************************)

vfs_try_retain == ncVfs + 2
vfs_release == ncVfs - 2

\* The components of the path, and a reference to the root and its vfs.
vfs_lookup(t, path) ==
    /\ ncWalk[t].pc = "idle"
    /\ ncEntry' = [ncEntry EXCEPT ![NcRoot].refcnt = @ + 1]
    /\ ncVfs' = vfs_try_retain
    /\ ncWalk' = [ncWalk EXCEPT ![t] = [AtRest EXCEPT !.pc = "walk", !.cur = NcRoot, !.rest = path]]
    /\ UNCHANGED <<ncLru, ncInactive, ncMutex, ncLruMutex, ncAsked, ncHalted>>

\* nc_lookup under the directory's mutex: a negative entry fails, a missing
\* one is made (it retains its directory) and the file system asked.
nc_lookup(t) ==
    LET dir == ncWalk[t].cur
        e == Next1(t) IN
    /\ ncWalk[t].pc = "walk" /\ ncWalk[t].rest # <<>> /\ ncMutex[dir] = Nil
    /\ IF ~ncEntry[e].there
       THEN /\ ncAsked < MaxAsked /\ ncAsked' = ncAsked + 1
            /\ ncEntry' = [ncEntry EXCEPT ![e] = Fresh, ![dir].refcnt = @ + 1]
            /\ ncMutex' = [ncMutex EXCEPT ![dir] = t]
            /\ NcGoto(t, "ask")
       ELSE /\ IF ncEntry[e].neg
               THEN NcGoto(t, "fail") /\ UNCHANGED ncMutex
               ELSE NcGoto(t, "found") /\ ncMutex' = [ncMutex EXCEPT ![dir] = t]
            /\ UNCHANGED <<ncEntry, ncAsked>>
    /\ UNCHANGED <<ncLru, ncInactive, ncLruMutex, ncVfs, ncHalted>>

\* The file system's answer: a vnode, or a negative entry.
Answered(t) ==
    LET e == Next1(t) IN
    /\ ncWalk[t].pc = "ask"
    /\ \/ /\ ncEntry' = [ncEntry EXCEPT ![e].refcnt = 1]
          /\ ncMutex' = [ncMutex EXCEPT ![ncWalk[t].cur] = Nil]
          /\ NcGoto(t, "step")
       \/ /\ ncEntry' = [ncEntry EXCEPT ![e].neg = TRUE]
          /\ NcGoto(t, "negative")
          /\ UNCHANGED ncMutex
    /\ UNCHANGED <<ncLru, ncInactive, ncLruMutex, ncVfs, ncAsked, ncHalted>>

\* A new negative entry goes on the LRU queue.
NegativeToLru(t) ==
    /\ ncWalk[t].pc = "negative" /\ ncLruMutex = Nil
    /\ ncLru' = Append(ncLru, Next1(t)) /\ ncInactive' = ncInactive + 1
    /\ ncMutex' = [ncMutex EXCEPT ![ncWalk[t].cur] = Nil]
    /\ ncLruMutex' = t
    /\ ncWalk' = [ncWalk EXCEPT ![t].pc = "trim", ![t].then = "fail"]
    /\ UNCHANGED <<ncEntry, ncVfs, ncAsked, ncHalted>>

Both(t, dir, e) == [ncMutex EXCEPT ![dir] = Nil, ![e] = Nil]

\* A positive entry is retained under its mutex; if it was unreferenced it is
\* taken off the LRU queue, in a step of its own for the queue's mutex.
nc_retain(t) ==
    LET dir == ncWalk[t].cur
        e == Next1(t) IN
    /\ \/ /\ ncWalk[t].pc = "found" /\ ncMutex[e] = Nil
          /\ ncEntry' = [ncEntry EXCEPT ![e].refcnt = @ + 1]
          /\ IF ncEntry[e].refcnt = 0
             THEN NcGoto(t, "pull") /\ ncMutex' = [ncMutex EXCEPT ![e] = t]
             ELSE NcGoto(t, "step") /\ ncMutex' = Both(t, dir, e)
          /\ UNCHANGED <<ncLru, ncHalted>>
       \/ /\ ncWalk[t].pc = "pull" /\ ncLruMutex = Nil
          /\ IF \E i \in DOMAIN ncLru : ncLru[i] = e
             THEN /\ ncLru' = SelectSeq(ncLru, LAMBDA x : x # e)
                  /\ NcGoto(t, "step") /\ ncMutex' = Both(t, dir, e)
                  /\ UNCHANGED ncHalted
             ELSE ncHalted' = TRUE /\ UNCHANGED <<ncLru, ncWalk, ncMutex>>
          /\ UNCHANGED ncEntry
    /\ UNCHANGED <<ncInactive, ncLruMutex, ncVfs, ncAsked>>

\* One component further: the directory is released.  A walk that failed
\* releases where it got to; one that is complete keeps it until it is closed.
Release(t) ==
    LET w == ncWalk[t] IN
    /\ \/ /\ w.pc = "step"
          /\ ncWalk' = [ncWalk EXCEPT ![t] = [w EXCEPT !.pc = "release", !.victim = w.cur, !.cur = Next1(t),
                                                       !.rest = Tail(@), !.then = "walk"]]
          /\ UNCHANGED ncVfs
       \/ /\ w.pc = "fail" \/ (w.pc = "walk" /\ w.rest = <<>>)
          /\ ncWalk' = [ncWalk EXCEPT ![t] = [AtRest EXCEPT !.pc = "release", !.victim = w.cur, !.then = "idle"]]
          /\ ncVfs' = vfs_release
    /\ UNCHANGED <<ncEntry, ncLru, ncInactive, ncMutex, ncLruMutex, ncAsked, ncHalted>>

DropReference(t) ==
    LET e == ncWalk[t].victim IN
    /\ ncWalk[t].pc = "release"
    /\ ncEntry' = [ncEntry EXCEPT ![e].refcnt = @ - 1]
    /\ ncWalk' = [ncWalk EXCEPT ![t] = IF ncEntry[e].refcnt = 1 THEN [@ EXCEPT !.pc = "unused"]
                                       ELSE [@ EXCEPT !.pc = ncWalk[t].then, !.victim = Nil]]
    /\ UNCHANGED <<ncLru, ncInactive, ncMutex, ncLruMutex, ncHalted>>

\* The count drops first; only then are the mutexes taken, and the count is
\* asserted to be zero still.
nc_release_internal(t) ==
    LET e == ncWalk[t].victim IN
    /\ \/ DropReference(t)
       \/ /\ ncWalk[t].pc = "unused" /\ ncMutex[e] = Nil
          /\ ncMutex' = [ncMutex EXCEPT ![e] = t]
          /\ NcGoto(t, "enqueue")
          /\ UNCHANGED <<ncEntry, ncLru, ncInactive, ncLruMutex, ncHalted>>
       \/ /\ ncWalk[t].pc = "enqueue" /\ ncLruMutex = Nil
          /\ IF ncEntry[e].refcnt # 0
             THEN ncHalted' = TRUE /\ UNCHANGED <<ncLru, ncInactive, ncMutex, ncLruMutex, ncWalk>>
             ELSE /\ ncLru' = Append(ncLru, e) /\ ncInactive' = ncInactive + 1
                  /\ ncMutex' = [ncMutex EXCEPT ![e] = Nil]
                  /\ ncLruMutex' = t
                  /\ ncWalk' = [ncWalk EXCEPT ![t].pc = "trim", ![t].victim = Nil]
                  /\ UNCHANGED ncHalted
          /\ UNCHANGED ncEntry
    /\ UNCHANGED <<ncVfs, ncAsked>>

(***************************************************************************)
(* Trimming, with lru_mutex held throughout.                               *)
(***************************************************************************)

nc_trim_lru(t) ==
    /\ ncWalk[t].pc = "trim"
    /\ IF ncInactive =< max_inactive
       THEN /\ ncLruMutex' = Nil
            /\ ncWalk' = [ncWalk EXCEPT ![t].pc = ncWalk[t].then]
            /\ UNCHANGED <<ncLru, ncHalted>>
       ELSE IF ncLru = <<>>
       THEN ncHalted' = TRUE /\ UNCHANGED <<ncLru, ncLruMutex, ncWalk>>
       ELSE /\ ncLru' = Tail(ncLru)
            /\ ncWalk' = [ncWalk EXCEPT ![t].pc = "trim parent", ![t].victim = Head(ncLru)]
            /\ UNCHANGED <<ncLruMutex, ncHalted>>
    /\ UNCHANGED <<ncEntry, ncInactive, ncMutex, ncVfs, ncAsked>>

nc_free == NotThere

\* The entry leaves its directory, which loses a reference and may itself
\* become unreferenced.
do_trim(t) ==
    LET e == ncWalk[t].victim
        dir == NcParent[e] IN
    /\ \/ /\ ncWalk[t].pc = "trim parent" /\ ncMutex[dir] = Nil
          /\ ncMutex' = [ncMutex EXCEPT ![dir] = t]
          /\ NcGoto(t, "trim entry")
          /\ UNCHANGED <<ncEntry, ncLru, ncInactive, ncHalted>>
       \/ /\ ncWalk[t].pc = "trim entry" /\ ncMutex[e] = Nil
          /\ IF ncEntry[e].refcnt # 0
             THEN ncHalted' = TRUE /\ UNCHANGED <<ncEntry, ncLru, ncInactive, ncMutex, ncWalk>>
             ELSE /\ ncEntry' = [ncEntry EXCEPT ![e] = nc_free, ![dir].refcnt = @ - 1]
                  /\ ncMutex' = [ncMutex EXCEPT ![dir] = Nil]
                  /\ IF ncEntry[dir].refcnt = 1
                     THEN ncLru' = Append(ncLru, dir) /\ UNCHANGED ncInactive
                     ELSE ncInactive' = ncInactive - 1 /\ UNCHANGED ncLru
                  /\ ncWalk' = [ncWalk EXCEPT ![t].pc = "trim", ![t].victim = Nil]
                  /\ UNCHANGED ncHalted
    /\ UNCHANGED <<ncLruMutex, ncVfs, ncAsked>>

NcNext ==
    /\ ~ncHalted
    /\ \E t \in NcThreads :
          \/ \E path \in NcPaths : vfs_lookup(t, path)
          \/ nc_lookup(t) \/ Answered(t) \/ NegativeToLru(t) \/ nc_retain(t)
          \/ Release(t) \/ nc_release_internal(t)
          \/ nc_trim_lru(t) \/ do_trim(t)

(***************************************************************************)
(* Properties.                                                             *)
(***************************************************************************)

\* the threads that count for a reference to e, and those it is promised to
Holding(e) == {t \in NcThreads : ncWalk[t].cur = e}
Retained(e) == {t \in NcThreads : ncWalk[t].pc \in {"pull", "step"} /\ Next1(t) = e}
Releasing(e) == {t \in NcThreads : ncWalk[t].pc = "release" /\ ncWalk[t].victim = e}
ChildrenOf(e) == {c \in Entries : ncEntry[c].there /\ NcParent[c] = e}

\* Every entry is referenced by its children and by the walks and handles
\* that are on it, and by nothing else; so no walk is on an entry that was
\* trimmed.  What is unreferenced is on the LRU queue, once, or in the hands
\* of the thread that is putting it there or taking it off; and there are
\* never fewer entries counted inactive than queued
\* (nc_retain, nc_release_internal, do_trim).
NamesExact ==
    /\ \A e \in Nodes :
          ncEntry[e].refcnt = Cardinality(ChildrenOf(e)) + Cardinality(Holding(e)) + Cardinality(Retained(e))
                              + Cardinality(Releasing(e)) + (IF e = NcRoot THEN 1 ELSE 0)
    /\ \A e \in Nodes : ~ncEntry[e].there => ncEntry[e].refcnt = 0
    /\ \A e \in Entries :
          LET places == Cardinality({i \in DOMAIN ncLru : ncLru[i] = e})
                        + Cardinality({t \in NcThreads : ncWalk[t].pc \in {"unused", "enqueue", "trim parent", "trim entry"}
                                                          /\ ncWalk[t].victim = e}) IN
          \/ ncEntry[e].refcnt = 0 /\ ncEntry[e].there
             /\ (places = 1 \/ \E t \in NcThreads : ncWalk[t].pc \in {"ask", "negative"} /\ Next1(t) = e)
          \/ ncEntry[e].refcnt = 0 /\ ~ncEntry[e].there /\ places = 0
          \/ ncEntry[e].refcnt > 0 /\ (places = 0 \/ \E t \in NcThreads : ncWalk[t].pc = "pull" /\ Next1(t) = e)
    /\ ncInactive >= Len(ncLru)
    /\ ncVfs = 2 * Cardinality({t \in NcThreads : ncWalk[t].cur # Nil})
=============================================================================
