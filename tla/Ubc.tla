------------------------------- MODULE Ubc -------------------------------
(***************************************************************************)
(* The unified buffer cache (vm/ubc.c): cached file I/O copies through a   *)
(* few windows of kernel address space, each showing one aligned part of a *)
(* vnode.  A window no one uses waits on an LRU queue, and is unmapped and *)
(* given to another (vnode, offset) when the free queue is empty; the UBC  *)
(* lock is dropped for the unmapping.                                      *)
(*                                                                         *)
(* A failed assertion halts the system.  All windows lie under one page    *)
(* table, which exists while any window has a page in the working set.     *)
(* The reference window_replace takes on the vnode and drops again is not  *)
(* modelled.                                                               *)
(***************************************************************************)
EXTENDS Integers, FiniteSets, SequencesExt

CONSTANTS
  Windows, UbcVnodes, UbcThreads,
  UbcOffsets,    \* window-sized parts of a file: 0..UbcOffsets - 1
  NoVnode

VARIABLES
  window,        \* per window: [vnode, offset, refcnt, pages]
  ubcq,          \* [free, lru]: the two queues
  ubc_windows,   \* per vnode: its tree of windows
  io,            \* per thread: [pc, vnode, off, end, win]
  purge,         \* per vnode: [pc, win], the teardown
  ubcHalted

ubcVars == <<window, ubcq, ubc_windows, io, purge, ubcHalted>>

UbcIdle == [pc |-> "idle", vnode |-> NoVnode, off |-> 0, end |-> 0, win |-> NoVnode]

ubc_init ==
  /\ window = [w \in Windows |-> [vnode |-> NoVnode, offset |-> 0, refcnt |-> 0, pages |-> <<>>]]
  /\ ubcq = [free |-> SetToSeq(Windows), lru |-> <<>>]
  /\ ubc_windows = [v \in UbcVnodes |-> {}]
  /\ io = [t \in UbcThreads |-> UbcIdle]
  /\ purge = [v \in UbcVnodes |-> [pc |-> "no", win |-> NoVnode]]
  /\ ubcHalted = FALSE

Part(v, off) == {w \in ubc_windows[v] : window[w].offset = off}

(* unmap_window needs the page table: it asserts that there is one. *)
TableThere == \E w \in Windows : window[w].pages # <<>>

(* A thread with a reference on the vnode takes its mutex; the loop then   *)
(* goes from window to window.                                             *)
ubc_io(t, v, off, end) ==
  /\ io[t].pc = "idle"
  /\ purge[v].pc = "no"
  /\ \A u \in UbcThreads : io[u].vnode # v
  /\ io' = [io EXCEPT ![t] = [pc |-> "take", vnode |-> v, off |-> off, end |-> end, win |-> NoVnode]]
  /\ UNCHANGED <<window, ubcq, ubc_windows, purge, ubcHalted>>

At(t, pc, w) == io' = [io EXCEPT ![t].pc = pc, ![t].win = w]

take_window(t) ==
  LET v == io[t].vnode
      off == io[t].off
  IN  /\ io[t].pc = "take"
      /\ \/ \E w \in Part(v, off) :
              /\ window' = [window EXCEPT ![w].refcnt = @ + 1]
              /\ ubcq' = IF window[w].refcnt = 0 THEN [ubcq EXCEPT !.lru = Remove(@, w)] ELSE ubcq
              /\ At(t, "copy", w)
              /\ UNCHANGED <<ubc_windows, ubcHalted>>
         \/ /\ Part(v, off) = {} /\ ubcq.free # <<>>
            /\ LET w == Head(ubcq.free)
               IN  /\ window' = [window EXCEPT ![w].refcnt = 1, ![w].vnode = v, ![w].offset = off]
                   /\ ubcq' = [ubcq EXCEPT !.free = Tail(@)]
                   /\ ubc_windows' = [ubc_windows EXCEPT ![v] = @ \cup {w}]
                   /\ At(t, "copy", w)
                   /\ UNCHANGED ubcHalted
         \/ /\ Part(v, off) = {} /\ ubcq.free = <<>> /\ ubcq.lru # <<>>
            /\ LET w == Head(ubcq.lru)
               IN  /\ window' = [window EXCEPT ![w].refcnt = @ + 1]
                   /\ ubcq' = [ubcq EXCEPT !.lru = Tail(@)]
                   /\ ubc_windows' = [ubc_windows EXCEPT ![window[w].vnode] = @ \ {w}]
                   /\ At(t, "replace", w)
                   /\ UNCHANGED ubcHalted
         \/ /\ Part(v, off) = {} /\ ubcq.free = <<>> /\ ubcq.lru = <<>>
            /\ ubcHalted' = TRUE
            /\ UNCHANGED <<window, ubcq, ubc_windows, io>>
      /\ UNCHANGED purge

(* mutant of window_replace: the window is freed with its pages in place *)
ReplaceMapped(t) ==
  /\ io[t].pc = "replace"
  /\ window' = [window EXCEPT ![io[t].win].refcnt = 0]
  /\ ubcq' = [ubcq EXCEPT !.free = <<io[t].win>> \o @]
  /\ At(t, "take", NoVnode)
  /\ UNCHANGED <<ubc_windows, purge, ubcHalted>>

(* window_replace, once the lock is dropped: unmap, lock, onto the free    *)
(* queue; then the search starts again.                                    *)
window_replace(t) ==
  /\ io[t].pc = "replace"
  /\ IF TableThere
     THEN /\ window' = [window EXCEPT ![io[t].win].refcnt = 0, ![io[t].win].pages = <<>>]
          /\ ubcq' = [ubcq EXCEPT !.free = <<io[t].win>> \o @]
          /\ At(t, "take", NoVnode)
          /\ UNCHANGED ubcHalted
     ELSE /\ ubcHalted' = TRUE
          /\ UNCHANGED <<window, ubcq, io>>
  /\ UNCHANGED <<ubc_windows, purge>>

(* The copy faults in pages of the file part the window shows, where none  *)
(* are mapped yet; put_window follows it, and the next turn of the loop.   *)
Faulted(w) == IF window[w].pages # <<>> THEN window[w].pages ELSE <<window[w].vnode, window[w].offset>>

Copy(t) ==
  /\ io[t].pc = "copy"
  /\ window' = [window EXCEPT ![io[t].win].pages = Faulted(io[t].win)]
  /\ io' = [io EXCEPT ![t].pc = "put"]
  /\ UNCHANGED <<ubcq, ubc_windows, purge, ubcHalted>>

put_window(t) ==
  LET w == io[t].win
  IN  /\ io[t].pc = "put"
      /\ window' = [window EXCEPT ![w].refcnt = @ - 1]
      /\ ubcq' = IF window[w].refcnt = 1 THEN [ubcq EXCEPT !.lru = Append(@, w)] ELSE ubcq
      /\ io' = [io EXCEPT ![t] = IF @.off = @.end THEN UbcIdle
                                 ELSE [@ EXCEPT !.pc = "take", !.off = @ + 1, !.win = NoVnode]]
      /\ UNCHANGED <<ubc_windows, purge, ubcHalted>>

(* The working set trims the window's pages. *)
WindowTrimmed(w) ==
  /\ window[w].pages # <<>>
  /\ window' = [window EXCEPT ![w].pages = <<>>]
  /\ UNCHANGED <<ubcq, ubc_windows, io, purge, ubcHalted>>

(* Teardown of a vnode with no reference left: each window leaves the tree *)
(* and the LRU queue and is unmapped with the lock dropped.  None goes     *)
(* back to the free queue.                                                 *)
ubc_purge_vnode(v) ==
  /\ purge[v].pc \in {"no", "next"}
  /\ \A t \in UbcThreads : io[t].vnode # v
  /\ \/ /\ ubc_windows[v] = {}
        /\ purge' = [purge EXCEPT ![v].pc = "no"]
        /\ UNCHANGED <<ubcq, ubc_windows>>
     \/ \E w \in ubc_windows[v] :
          /\ \A x \in ubc_windows[v] : window[w].offset <= window[x].offset
          /\ ubcq' = IF window[w].refcnt = 0 THEN [ubcq EXCEPT !.lru = Remove(@, w)] ELSE ubcq
          /\ ubc_windows' = [ubc_windows EXCEPT ![v] = @ \ {w}]
          /\ purge' = [purge EXCEPT ![v] = [pc |-> "unmap", win |-> w]]
  /\ UNCHANGED <<window, io, ubcHalted>>

PurgeUnmap(v) ==
  /\ purge[v].pc = "unmap"
  /\ IF TableThere
     THEN /\ window' = [window EXCEPT ![purge[v].win].pages = <<>>]
          /\ purge' = [purge EXCEPT ![v] = [pc |-> "next", win |-> NoVnode]]
          /\ UNCHANGED ubcHalted
     ELSE /\ ubcHalted' = TRUE
          /\ UNCHANGED <<window, purge>>
  /\ UNCHANGED <<ubcq, ubc_windows, io>>

UbcNext ==
  /\ ~ubcHalted
  /\ \/ \E t \in UbcThreads, v \in UbcVnodes, off \in 0..(UbcOffsets - 1) :
          \E end \in off..(UbcOffsets - 1) : ubc_io(t, v, off, end)
     \/ \E t \in UbcThreads : take_window(t) \/ window_replace(t) \/ Copy(t) \/ put_window(t)
     \/ \E w \in Windows : WindowTrimmed(w)
     \/ \E v \in UbcVnodes : ubc_purge_vnode(v) \/ PurgeUnmap(v)

(* A thread copies through a window that shows the part of the file it     *)
(* asked for, and goes on showing it until put (ubc.c:126-216): the window *)
(* is in the vnode's tree, counted for its user and on no queue, so that   *)
(* no replacement or teardown takes it, and no page of an earlier use is   *)
(* left in it.  The queues and trees hold each window at most once, no     *)
(* part of a file is shown twice, and exactly the unused windows wait on   *)
(* the LRU queue.                                                          *)
WindowsStable ==
  LET users(w) == {t \in UbcThreads : io[t].win = w}
      trees == UNION {ubc_windows[v] : v \in UbcVnodes}
      queued == ubcq.free \o ubcq.lru
  IN  /\ \A t \in UbcThreads : io[t].pc \in {"copy", "put"} =>
           LET w == window[io[t].win]
           IN  /\ io[t].win \in ubc_windows[io[t].vnode]
               /\ w.vnode = io[t].vnode /\ w.offset = io[t].off
               /\ w.pages \in {<<>>, <<io[t].vnode, io[t].off>>}
      /\ \A w \in Windows : users(w) # {} => window[w].refcnt = Cardinality(users(w)) /\ w \notin ToSet(queued)
      /\ \A v \in UbcVnodes : \A w, x \in ubc_windows[v] :
           window[w].vnode = v /\ (w # x => window[w].offset # window[x].offset)
      /\ Cardinality(ToSet(queued)) = Len(queued)
      /\ ToSet(ubcq.lru) = {w \in trees : window[w].refcnt = 0}
=============================================================================
