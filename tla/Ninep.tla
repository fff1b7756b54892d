------------------------------- MODULE Ninep -------------------------------
(***************************************************************************)
(* The 9p file system (fs/9p/9pfs.m), the buffers of its messages          *)
(* (fs/9p/9p_buf.c) and the vnodes and vnode lists of vfs/vfs.c.           *)
(*                                                                         *)
(* Files are named by their qid.  Threads look files up, use their vnodes  *)
(* and release them; one thread syncs every vnode of the file system by an *)
(* iterator.  What runs under node_cache_lock, and under the locks taken   *)
(* by ninep_inactive, is one step; each exchange with the server is two,   *)
(* the request and the use of the reply.  A message is its length: the     *)
(* fields are written and read in order.  A kfatal, a failed kassert and   *)
(* an unexpected reply end the behaviour (npHalted).                       *)
(***************************************************************************)
EXTENDS Integers, FiniteSets, Sequences, SequencesExt

CONSTANTS Qids,       \* the files, of which RootQid is the root
          RootQid,
          NpThreads,
          NameLens,   \* lengths of the names looked up
          MaxNodes,   \* nodes ever made
          MaxLeaks    \* references to one node that lookups lose

VARIABLES npNodes,   \* sequence of [qid, refcount, junk, attrs, paging]
          npList,    \* vfs->vnode_list: nodes, and 0 for the iterator's marker
          npCall,    \* per thread [pc, node]
          npIter,    \* the iterator: [pc, vn, next_vn], 0 for NULL
          npLeaks,   \* per node, references that lookup failed to return
          npMount,   \* progress of ninep_mount
          npHalted

npVars == <<npNodes, npList, npCall, npIter, npLeaks, npMount, npHalted>>

(***************************************************************************)
(* Buffers.  A field is <<its format letter, its length if a string>>.     *)
(***************************************************************************)

Header == 7

FieldSize(f) ==
    CASE f[1] = "Q" -> 13 [] f[1] = "l" -> 8 [] f[1] \in {"F", "d"} -> 4 [] f[1] = "h" -> 2 [] f[1] = "S" -> 2 + f[2]

ninep_buf_alloc_bytes(size) == [bufsize |-> size + Header, offset |-> 0, ok |-> TRUE]

ninep_buf_alloc(fmt) == ninep_buf_alloc_bytes(FoldLeft(LAMBDA n, f : n + FieldSize(f), 0, fmt))

\* addu16, addu32, addu64 and addfid
AddNumber(buf, f) ==
    LET newoff == buf.offset + FieldSize(f) IN
    [buf EXCEPT !.ok = @ /\ newoff =< buf.bufsize - Header, !.offset = newoff]

\* the assertion adds the header where the others subtract it
ninep_buf_addstr(buf, f) ==
    LET newoff == buf.offset + FieldSize(f) IN
    [buf EXCEPT !.ok = @ /\ newoff =< buf.bufsize + Header, !.offset = newoff]

Built(fmt, fields) ==
    FoldLeft(LAMBDA b, f : IF f[1] = "S" THEN ninep_buf_addstr(b, f) ELSE AddNumber(b, f), ninep_buf_alloc(fmt), fields)

\* ninep_buf_close: what is sent, and that it is inside the buffer
ninep_buf_close(buf) == buf.offset + Header
InBuffer(buf) == ninep_buf_close(buf) =< buf.bufsize

N(letter) == <<letter, 0>>
Walk(len) == Built(<<N("F"), N("F"), N("h"), <<"S", 64>>>>, <<N("F"), N("F"), N("h"), <<"S", len>>>>)
Clone == Built(<<N("F"), N("F"), N("h")>>, <<N("F"), N("F"), N("h")>>)
Lopen == Built(<<N("F"), N("d")>>, <<N("F"), N("d")>>)
Getattr == Built(<<N("F"), N("l")>>, <<N("F"), N("l")>>)
ReadWrite == Built(<<N("F"), N("l"), N("d")>>, <<N("F"), N("l"), N("d")>>)
Version == Built(<<N("d"), <<"S", 8>>>>, <<N("d"), <<"S", 8>>>>)
Attach == Built(<<N("F"), N("F"), <<"S", 4>>, <<"S", 44>>, N("d")>>, <<N("F"), N("F"), <<"S", 4>>, <<"S", 44>>, N("d")>>)

\* What getattr reads of a reply, against the buffer made for it.
ReplyRead == FoldLeft(LAMBDA n, f : n + FieldSize(f), 0,
    <<N("l"), N("Q"), N("d"), N("d"), N("d")>> \o [i \in 1 .. 11 |-> N("l")])
ReplyRoom == ninep_buf_alloc(<<N("l"), N("Q"), N("d"), N("d"), N("d")>> \o [i \in 1 .. 15 |-> N("l")]).bufsize - Header

(***************************************************************************)
(* State.                                                                  *)
(***************************************************************************)

NpIdle == [pc |-> "idle", node |-> 0]

NpInit ==
    /\ npNodes = <<>> /\ npList = <<>>
    /\ npCall = [t \in NpThreads |-> NpIdle]
    /\ npIter = [pc |-> "idle", vn |-> 0, next_vn |-> 0]
    /\ npLeaks = <<>>
    /\ npMount = "version"
    /\ npHalted = FALSE

HaltNp == npHalted' = TRUE /\ UNCHANGED <<npNodes, npList, npCall, npIter, npLeaks, npMount>>
NpGoto(t, p, n) == npCall' = [npCall EXCEPT ![t] = [pc |-> p, node |-> n]]
Mounted == npMount = "mounted"

vnode_new(qid) == [qid |-> qid, refcount |-> 1, junk |-> FALSE, attrs |-> FALSE, paging |-> FALSE]

vn_retain(n) == [npNodes EXCEPT ![n].refcount = @ + 1]

\* ninep_mount: version, attach, and the root's node and attributes; whatever
\* goes wrong is fatal.
ninep_mount ==
    /\ ~Mounted
    /\ \/ HaltNp
       \/ /\ npMount = "version" /\ Version.ok
          /\ npMount' = "attach"
          /\ UNCHANGED <<npNodes, npList, npCall, npIter, npLeaks, npHalted>>
       \/ /\ npMount = "attach" /\ Attach.ok
          /\ npNodes' = Append(npNodes, vnode_new(RootQid))
          /\ npList' = Append(npList, 1) /\ npLeaks' = Append(npLeaks, 0)
          /\ npMount' = "getattr"
          /\ UNCHANGED <<npCall, npIter, npHalted>>
       \/ /\ npMount = "getattr" /\ Getattr.ok
          /\ npNodes' = [npNodes EXCEPT ![1].attrs = TRUE]
          /\ npMount' = "mounted"
          /\ UNCHANGED <<npList, npCall, npIter, npLeaks, npHalted>>

(***************************************************************************)
(* Lookup.                                                                 *)
(***************************************************************************)

WalkAsserts == [len \in NameLens |-> Walk(len).ok]

ninep_lookup(t, len) ==
    /\ Mounted /\ npCall[t] = NpIdle
    /\ IF WalkAsserts[len]
       THEN NpGoto(t, "walk", 0) /\ UNCHANGED npHalted
       ELSE npHalted' = TRUE /\ UNCHANGED npCall
    /\ UNCHANGED <<npNodes, npList, npIter, npLeaks, npMount>>

Cached(qid) == {n \in DOMAIN npNodes : npNodes[n].qid = qid /\ ~npNodes[n].junk}

\* The reply names no file, a file whose node is cached, or a new one.  For a
\* cached one lookup returns 1, which its caller takes for a failure: the
\* reference to the vnode is lost.
node_for_qid(t) ==
    /\ npCall[t].pc = "walk"
    /\ \/ NpGoto(t, "idle", 0) /\ UNCHANGED <<npNodes, npList, npLeaks, npHalted>>
       \/ \E qid \in Qids :
             IF Cached(qid) # {}
             THEN \E n \in Cached(qid) :
                     /\ npLeaks[n] < MaxLeaks
                     /\ npNodes' = vn_retain(n)
                     /\ npLeaks' = [npLeaks EXCEPT ![n] = @ + 1]
                     /\ NpGoto(t, "idle", 0)
                     /\ UNCHANGED <<npList, npHalted>>
             ELSE /\ Len(npNodes) < MaxNodes
                  /\ npNodes' = Append(npNodes, vnode_new(qid))
                  /\ npList' = Append(npList, Len(npNodes) + 1)
                  /\ npLeaks' = Append(npLeaks, 0)
                  /\ NpGoto(t, "getattr", Len(npNodes) + 1)
                  /\ UNCHANGED npHalted
    /\ UNCHANGED <<npIter, npMount>>

\* The attributes of a new node, under its rwlock; an error is fatal.
do_getattr(t) ==
    /\ npCall[t].pc = "getattr"
    /\ \/ /\ Getattr.ok
          /\ npNodes' = [npNodes EXCEPT ![npCall[t].node].attrs = TRUE]
          /\ NpGoto(t, "holds", npCall[t].node)
          /\ UNCHANGED <<npList, npIter, npLeaks, npMount, npHalted>>
       \/ HaltNp

(***************************************************************************)
(* Use.                                                                    *)
(***************************************************************************)

\* the request, and the reply or an error, which the caller gets
ninep_getattr(t) ==
    /\ Getattr.ok
    /\ \/ npCall[t].pc = "holds" /\ NpGoto(t, "attributes", npCall[t].node)
       \/ npCall[t].pc = "attributes" /\ NpGoto(t, "holds", npCall[t].node)
    /\ UNCHANGED <<npNodes, npList, npIter, npLeaks, npMount, npHalted>>

\* The first read or write clones the fid and opens the clone.
dispatchIOP(t) ==
    /\ npCall[t].pc = "holds"
    /\ NpGoto(t, IF npNodes[npCall[t].node].paging THEN "rw" ELSE "clone", npCall[t].node)
    /\ UNCHANGED <<npNodes, npList, npIter, npLeaks, npMount, npHalted>>

fid_clone(t) ==
    /\ npCall[t].pc = "clone"
    /\ \/ /\ Clone.ok
          /\ NpGoto(t, "lopen", npCall[t].node)
          /\ UNCHANGED <<npNodes, npList, npIter, npLeaks, npMount, npHalted>>
       \/ HaltNp

node_make_paging_fid(t) ==
    /\ npCall[t].pc = "lopen"
    /\ \/ /\ Lopen.ok
          /\ npNodes' = [npNodes EXCEPT ![npCall[t].node].paging = TRUE]
          /\ NpGoto(t, "rw", npCall[t].node)
          /\ UNCHANGED <<npList, npIter, npLeaks, npMount, npHalted>>
       \/ HaltNp

\* an error, or a count of more than was asked for, is fatal
completeIOP(t) ==
    /\ npCall[t].pc = "rw"
    /\ \/ /\ ReadWrite.ok
          /\ NpGoto(t, "holds", npCall[t].node)
          /\ UNCHANGED <<npNodes, npList, npIter, npLeaks, npMount, npHalted>>
       \/ HaltNp

(***************************************************************************)
(* Release.                                                                *)
(***************************************************************************)

\* The count goes down unless it is 1: then the vnode is made inactive first.
vn_release(t) ==
    LET n == npCall[t].node IN
    /\ npCall[t].pc \in {"holds", "retry"}
    /\ IF npNodes[n].refcount > 1
       THEN npNodes' = [npNodes EXCEPT ![n].refcount = @ - 1] /\ NpGoto(t, "idle", 0)
       ELSE NpGoto(t, "inactive", n) /\ UNCHANGED npNodes
    /\ UNCHANGED <<npList, npIter, npLeaks, npMount, npHalted>>

vfs_vn_remove(n) == SelectSeq(npList, LAMBDA x : x # n)

\* teardown without a second look at the count
AlwaysSole(n) == TRUE

SoleReference(n) == npNodes[n].refcount = 1

\* Under the locks of the node cache, the buffer cache and the vnode list the
\* count is looked at again; if it is 1 still, the vnode leaves all three.
ninep_inactive(n) ==
    IF SoleReference(n)
    THEN npNodes' = [npNodes EXCEPT ![n].junk = TRUE, ![n].refcount = 0] /\ npList' = vfs_vn_remove(n)
    ELSE UNCHANGED <<npNodes, npList>>

MakeInactive(t) ==
    LET n == npCall[t].node IN
    /\ npCall[t].pc = "inactive"
    /\ ninep_inactive(n)
    /\ IF SoleReference(n) THEN NpGoto(t, "idle", 0) ELSE NpGoto(t, "retry", n)
    /\ UNCHANGED <<npIter, npLeaks, npMount, npHalted>>

(***************************************************************************)
(* vfs_fsync_all.                                                          *)
(***************************************************************************)

\* the marker goes to the end, and the first vnode is retained
vfs_vn_iter_init ==
    /\ Mounted /\ npIter.pc = "idle"
    /\ npList' = Append(npList, 0)
    /\ npNodes' = vn_retain(Head(npList))
    /\ npIter' = [pc |-> "next", vn |-> 0, next_vn |-> Head(npList)]
    /\ UNCHANGED <<npCall, npLeaks, npMount, npHalted>>

Following(n) == npList[(CHOOSE i \in DOMAIN npList : npList[i] = n) + 1]

vfs_vn_iter_next ==
    LET vn == npIter.next_vn IN
    /\ npIter.pc = "next" /\ vn # 0
    /\ npIter' = [pc |-> "fsync", vn |-> vn, next_vn |-> Following(vn)]
    /\ npNodes' = IF Following(vn) = 0 THEN npNodes ELSE vn_retain(Following(vn))
    /\ UNCHANGED <<npList, npCall, npLeaks, npMount, npHalted>>

\* the rwlock of a node is held until its attributes are there
vn_fsync ==
    /\ npIter.pc = "fsync" /\ npNodes[npIter.vn].attrs
    /\ npIter' = [npIter EXCEPT !.pc = "release"]
    /\ UNCHANGED <<npNodes, npList, npCall, npLeaks, npMount, npHalted>>

vfs_fsync_all ==
    LET n == npIter.vn
        on == [pc |-> "next", vn |-> 0, next_vn |-> npIter.next_vn] IN
    /\ \/ /\ npIter.pc = "release"
          /\ IF npNodes[n].refcount > 1
             THEN npNodes' = [npNodes EXCEPT ![n].refcount = @ - 1] /\ npIter' = on
             ELSE npIter' = [npIter EXCEPT !.pc = "inactive"] /\ UNCHANGED npNodes
          /\ UNCHANGED npList
       \/ /\ npIter.pc = "inactive"
          /\ ninep_inactive(n)
          /\ npIter' = IF SoleReference(n) THEN on ELSE [npIter EXCEPT !.pc = "release"]
    /\ UNCHANGED <<npCall, npLeaks, npMount, npHalted>>

vfs_vn_iter_destroy ==
    /\ npIter.pc = "next" /\ npIter.next_vn = 0
    /\ npList' = vfs_vn_remove(0)
    /\ npIter' = [npIter EXCEPT !.pc = "idle"]
    /\ UNCHANGED <<npNodes, npCall, npLeaks, npMount, npHalted>>

NpNext ==
    /\ ~npHalted
    /\ \/ ninep_mount
       \/ \E t \in NpThreads :
             \/ \E len \in NameLens : ninep_lookup(t, len)
             \/ node_for_qid(t) \/ do_getattr(t) \/ ninep_getattr(t)
             \/ dispatchIOP(t) \/ fid_clone(t) \/ node_make_paging_fid(t) \/ completeIOP(t)
             \/ vn_release(t) \/ MakeInactive(t)
       \/ vfs_vn_iter_init \/ vfs_vn_iter_next \/ vn_fsync \/ vfs_fsync_all \/ vfs_vn_iter_destroy

(***************************************************************************)
(* Properties.                                                             *)
(***************************************************************************)

MessagesFit ==
    /\ \A len \in NameLens : len =< 64 => Walk(len).ok /\ InBuffer(Walk(len))
    /\ \A b \in {Clone, Lopen, Getattr, ReadWrite, Version, Attach} : b.ok /\ InBuffer(b)
    /\ ReplyRead =< ReplyRoom

HoldersOf(n) == Cardinality({t \in NpThreads : npCall[t].node = n})
                + (IF npIter.vn = n THEN 1 ELSE 0) + (IF npIter.next_vn = n THEN 1 ELSE 0)
                + (IF n = 1 THEN 1 ELSE 0)     \* the root_node of the file system

\* A vnode's count is the number of its holders and of the references that a
\* lookup of a cached node lost, so nobody holds one that was torn down,
\* although a lookup and the iterator may retain it after its last holder
\* decided to release it; a file has one node in the cache and one place in
\* the vnode list as long as it lives; a request lies within the buffer made
\* for it unless a name is longer than its 64 bytes, and a reply of getattr
\* is read within its own (vn_release and ninep_inactive, node_for_qid,
\* vfs_vn_iter_next, ninep_buf_alloc and the ninep_buf_add functions).
NodesExact ==
    /\ \A n \in DOMAIN npNodes :
          /\ ~npNodes[n].junk => npNodes[n].refcount = HoldersOf(n) + npLeaks[n]
          /\ npNodes[n].junk => HoldersOf(n) = 0
          /\ Cardinality({i \in DOMAIN npList : npList[i] = n}) = IF npNodes[n].junk THEN 0 ELSE 1
    /\ \A q \in Qids : Cardinality(Cached(q)) =< 1
    /\ MessagesFit
=============================================================================
