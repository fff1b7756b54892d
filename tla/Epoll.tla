------------------------------- MODULE Epoll -------------------------------
(***************************************************************************)
(* Polling (executive/epoll.c) of console files (executive/kconsole.c, the *)
(* only vnodes with a chpoll operation).                                   *)
(*                                                                         *)
(* One epoll instance watches files of the console for input.  The entry   *)
(* of a watch is named by its file.  Threads add watches, wait, read and   *)
(* close; the keyboard puts characters in the buffer and delivers EPOLLIN. *)
(* A step is what runs under one spinlock; the epoll's mutex and the       *)
(* teardown mutex are held over several steps.                             *)
(***************************************************************************)
EXTENDS Integers, FiniteSets

CONSTANTS Watched,    \* the console files
          EpThreads,
          InBuf       \* size of the console's buffer (4096 in the code)

ASSUME EpAssumption == IsFiniteSet(EpThreads) /\ "ep" \notin Watched

VARIABLES in_buf_len,
          epInput,     \* the keyboard's delivery: [pc, left]
          epWatches,   \* epoll::watches
          epPollers,   \* the pollhead's list
          epReady,     \* epoll::ready
          epEvent,     \* epoll::event is signalled
          epFileList,  \* files whose epoll_watches has the entry
          epMutex,     \* holder of epoll::mutex
          epTeardown,  \* holder of epoll_teardown_mutex
          epRefs,      \* reference counts of the files and of the epoll's file
          epOpen,      \* which of them their descriptor still refers to
          epCall,      \* per thread [pc, file]
          epHalted

epVars == <<in_buf_len, epInput, epWatches, epPollers, epReady, epEvent, epFileList, epMutex, epTeardown,
            epRefs, epOpen, epCall, epHalted>>
epLists == <<epWatches, epPollers, epReady, epEvent, epFileList>>
epLocks == <<epMutex, epTeardown>>
epKeys == <<in_buf_len, epInput>>

EpFile == "ep"      \* the epoll's own file
NoOne == "none"
MaxEpRefs == Cardinality(EpThreads) + 1   \* bound on references that are leaked
EpUser == [pc |-> "user", file |-> EpFile]

pollhead_init == {}
ex_console_init == in_buf_len = 0 /\ epInput = [pc |-> "idle", left |-> {}] /\ epPollers = pollhead_init

EpInit ==
    /\ ex_console_init
    /\ epWatches = {} /\ epReady = {} /\ epFileList = {}
    /\ epEvent = FALSE
    /\ epMutex = NoOne /\ epTeardown = NoOne
    /\ epRefs = [f \in Watched \union {EpFile} |-> 1]
    /\ epOpen = Watched \union {EpFile}
    /\ epCall = [t \in EpThreads |-> EpUser]
    /\ epHalted = FALSE

EpGoto(t, p) == epCall' = [epCall EXCEPT ![t].pc = p]
Leave(t) == epCall' = [epCall EXCEPT ![t] = EpUser]

(***************************************************************************)
(* The console.                                                            *)
(***************************************************************************)

ex_console_input ==
    /\ epInput.pc = "idle" /\ in_buf_len < InBuf
    /\ in_buf_len' = in_buf_len + 1
    /\ epInput' = [epInput EXCEPT !.pc = "buffered"]
    /\ UNCHANGED <<epLists, epLocks, epRefs, epOpen, epCall, epHalted>>

\* The pollhead's lock, held from "buffered" on to the last of its entries.
pollhead_deliver_events ==
    \/ /\ epInput.pc = "buffered"
       /\ epInput' = [pc |-> "delivering", left |-> epPollers]
       /\ UNCHANGED <<in_buf_len, epLists, epLocks, epRefs, epOpen, epCall, epHalted>>
    \/ /\ epInput.pc = "delivering"
       /\ IF epInput.left = {}
          THEN epInput' = [pc |-> "idle", left |-> {}] /\ UNCHANGED <<epReady, epEvent>>
          ELSE \E f \in epInput.left :
                  /\ epInput' = [epInput EXCEPT !.left = @ \ {f}]
                  /\ epReady' = epReady \union {f}
                  /\ epEvent' = TRUE
       /\ UNCHANGED <<in_buf_len, epWatches, epPollers, epFileList, epLocks, epRefs, epOpen, epCall, epHalted>>

PollheadFree == epInput.pc # "delivering"

\* The copy to the user is outside the lock, and one character a turn.
console_read(t, f) ==
    /\ epCall[t].pc = "user" /\ f \in epOpen /\ in_buf_len > 0
    /\ in_buf_len' = in_buf_len - 1
    /\ UNCHANGED <<epInput, epLists, epLocks, epRefs, epOpen, epCall, epHalted>>

\* whether the console is ready for what the watches wait for
console_chpoll == in_buf_len > 0

(***************************************************************************)
(* Adding a watch.                                                         *)
(***************************************************************************)

desc_to_epoll == EpFile \in epOpen

\* The lookups of both descriptors.  When there is no file to watch the
\* reference to the epoll's file is kept for ever.
ex_service_epoll_ctl(t, f) ==
    /\ epCall[t].pc = "user" /\ desc_to_epoll
    /\ IF f \in epOpen
       THEN /\ epRefs' = [epRefs EXCEPT ![f] = @ + 1, ![EpFile] = @ + 1]
            /\ epCall' = [epCall EXCEPT ![t] = [pc |-> "add", file |-> f]]
       ELSE epRefs[EpFile] < MaxEpRefs /\ epRefs' = [epRefs EXCEPT ![EpFile] = @ + 1] /\ UNCHANGED epCall
    /\ UNCHANGED <<epKeys, epLists, epLocks, epOpen, epHalted>>

\* Without memory for the entry the mutex stays locked.
watch_add(t) ==
    LET f == epCall[t].file IN
    /\ epCall[t].pc = "add" /\ epMutex = NoOne
    /\ \/ /\ f \in epWatches
          /\ EpGoto(t, "added") /\ UNCHANGED <<epWatches, epMutex>>
       \/ /\ f \notin epWatches
          /\ epWatches' = epWatches \union {f} /\ epMutex' = t /\ EpGoto(t, "register")
       \/ /\ f \notin epWatches
          /\ epMutex' = t /\ EpGoto(t, "added") /\ UNCHANGED epWatches
    /\ UNCHANGED <<epKeys, epPollers, epReady, epEvent, epFileList, epTeardown, epRefs, epOpen, epHalted>>

\* poll first, then register: the order that loses an event
PollThenRegister(t) ==
    LET f == epCall[t].file IN
    \/ epCall[t].pc = "register" /\ EpGoto(t, IF console_chpoll THEN "ready" ELSE "poll") /\ UNCHANGED epPollers
    \/ epCall[t].pc = "poll" /\ PollheadFree /\ epPollers' = epPollers \union {f} /\ EpGoto(t, "link")

RegisterThenPoll(t) ==
    LET f == epCall[t].file IN
    \/ epCall[t].pc = "register" /\ PollheadFree /\ epPollers' = epPollers \union {f} /\ EpGoto(t, "poll")
    \/ epCall[t].pc = "poll" /\ EpGoto(t, IF console_chpoll THEN "ready" ELSE "link") /\ UNCHANGED epPollers

\* chpoll with an entry: it is registered, and then the state is read
pollhead_register(t) ==
    /\ RegisterThenPoll(t)
    /\ UNCHANGED <<epKeys, epWatches, epReady, epEvent, epFileList, epLocks, epRefs, epOpen, epHalted>>

\* what chpoll returned said it is ready
AddReady(t) ==
    /\ epCall[t].pc = "ready"
    /\ epReady' = epReady \union {epCall[t].file} /\ epEvent' = TRUE
    /\ EpGoto(t, "link")
    /\ UNCHANGED <<epKeys, epWatches, epPollers, epFileList, epLocks, epRefs, epOpen, epHalted>>

LinkToFile(t) ==
    /\ epCall[t].pc = "link"
    /\ epFileList' = epFileList \union {epCall[t].file}
    /\ epMutex' = NoOne
    /\ EpGoto(t, "added")
    /\ UNCHANGED <<epKeys, epWatches, epPollers, epReady, epEvent, epTeardown, epRefs, epOpen, epHalted>>

(***************************************************************************)
(* Waiting.                                                                *)
(***************************************************************************)

\* Entries found not ready leave the list; the event follows the list.
process_ready ==
    /\ epReady' = IF console_chpoll THEN epReady ELSE {}
    /\ epEvent' = IF epReady' = {} THEN FALSE ELSE epEvent

ex_service_epoll_wait(t) ==
    \/ /\ epCall[t].pc = "user" /\ desc_to_epoll
       /\ process_ready
       /\ epRefs' = [epRefs EXCEPT ![EpFile] = @ + 1]
       /\ EpGoto(t, IF epReady' # {} THEN "waited" ELSE "waiting")
       /\ UNCHANGED <<epKeys, epWatches, epPollers, epFileList, epLocks, epOpen, epHalted>>
    \/ /\ epCall[t].pc = "waiting"
       /\ EpGoto(t, "waited")    \* timed out
       /\ UNCHANGED <<epKeys, epLists, epLocks, epRefs, epOpen, epHalted>>
    \/ /\ epCall[t].pc = "waiting" /\ epEvent
       /\ EpGoto(t, "woken")
       /\ UNCHANGED <<epKeys, epLists, epLocks, epRefs, epOpen, epHalted>>
    \/ /\ epCall[t].pc = "woken"
       /\ process_ready
       /\ EpGoto(t, "waited")
       /\ UNCHANGED <<epKeys, epWatches, epPollers, epFileList, epLocks, epRefs, epOpen, epHalted>>

(***************************************************************************)
(* Closing and releasing.                                                  *)
(***************************************************************************)

Drop(t, f, next) ==
    /\ epRefs' = [epRefs EXCEPT ![f] = @ - 1]
    /\ epCall' = [epCall EXCEPT ![t] =
          IF epRefs[f] > 1 THEN next
          ELSE IF f = EpFile THEN [pc |-> "delete", file |-> EpFile]
          ELSE [pc |-> "free", file |-> f]]

EpClose(t, f) ==
    /\ epCall[t].pc = "user" /\ f \in epOpen
    /\ epOpen' = epOpen \ {f}
    /\ Drop(t, f, EpUser)
    /\ UNCHANGED <<epKeys, epLists, epLocks, epHalted>>

\* epoll_ctl releases the watched file, then the epoll's; epoll_wait the latter
EpRelease(t) ==
    /\ \/ epCall[t].pc = "added" /\ Drop(t, epCall[t].file, [pc |-> "waited", file |-> EpFile])
       \/ epCall[t].pc = "waited" /\ Drop(t, EpFile, EpUser)
    /\ UNCHANGED <<epKeys, epLists, epLocks, epOpen, epHalted>>

\* The entry's way out, first off the pollhead, then off the other lists.
pollhead_unregister(t, f) ==
    /\ PollheadFree
    /\ epPollers' = epPollers \ {f}
    /\ UNCHANGED <<epWatches, epReady, epEvent, epFileList>>

watch_del(t, f) ==
    /\ epFileList' = epFileList \ {f}
    /\ epReady' = epReady \ {f}
    /\ epWatches' = epWatches \ {f}
    /\ UNCHANGED <<epPollers, epEvent>>

\* The last release of the epoll's file.
epoll_delete(t) ==
    /\ epCall[t].file = EpFile
    /\ \/ /\ epCall[t].pc = "delete" /\ epTeardown = NoOne
          /\ epTeardown' = t /\ EpGoto(t, "deleting")
          /\ UNCHANGED <<epLists, epHalted>>
       \/ /\ epCall[t].pc = "deleting"
          /\ IF epWatches = {}
             THEN epTeardown' = NoOne /\ Leave(t) /\ UNCHANGED <<epLists, epHalted>>
             ELSE \E f \in epWatches :
                     /\ IF f \in epPollers
                        THEN pollhead_unregister(t, f) /\ UNCHANGED epHalted
                        ELSE IF f \in epFileList
                        THEN watch_del(t, f) /\ UNCHANGED epHalted
                        ELSE epHalted' = TRUE /\ UNCHANGED epLists
                     /\ UNCHANGED <<epTeardown, epCall>>
    /\ UNCHANGED <<epKeys, epMutex, epRefs, epOpen>>

\* The last release of a console file.  The teardown mutex is not released,
\* and the vnode, which has no inactive operation and no reference of the
\* file's own, is released: the kernel stops there.
poll_watched_file_did_close(t) ==
    LET f == epCall[t].file IN
    /\ f # EpFile
    /\ \/ /\ epCall[t].pc = "free"
          /\ EpGoto(t, IF f \in epFileList THEN "teardown" ELSE "released")
          /\ UNCHANGED <<epLists, epLocks>>
       \/ /\ epCall[t].pc = "teardown" /\ epTeardown = NoOne
          /\ epTeardown' = t /\ EpGoto(t, "closing")
          /\ UNCHANGED <<epLists, epMutex>>
       \/ /\ epCall[t].pc = "closing"
          /\ IF f \notin epFileList
             THEN EpGoto(t, "released") /\ UNCHANGED <<epLists, epLocks>>
             ELSE /\ IF f \in epPollers
                     THEN epMutex = NoOne /\ epMutex' = t /\ pollhead_unregister(t, f)
                     ELSE epMutex' = NoOne /\ watch_del(t, f)
                  /\ UNCHANGED <<epTeardown, epCall>>
    /\ UNCHANGED <<epKeys, epRefs, epOpen, epHalted>>

console_vn_release(t) ==
    /\ epCall[t].pc = "released"
    /\ epHalted' = TRUE
    /\ UNCHANGED <<epKeys, epLists, epLocks, epRefs, epOpen, epCall>>

EpNext ==
    /\ ~epHalted
    /\ \/ ex_console_input
       \/ pollhead_deliver_events
       \/ \E t \in EpThreads :
             \/ \E f \in Watched : console_read(t, f) \/ ex_service_epoll_ctl(t, f)
             \/ watch_add(t) \/ pollhead_register(t) \/ AddReady(t) \/ LinkToFile(t)
             \/ ex_service_epoll_wait(t)
             \/ \E f \in Watched \union {EpFile} : EpClose(t, f)
             \/ EpRelease(t)
             \/ epoll_delete(t)
             \/ poll_watched_file_did_close(t)
             \/ console_vn_release(t)

EpSpec == EpInit /\ [][EpNext]_epVars

(***************************************************************************)
(* Properties.                                                             *)
(***************************************************************************)

BeingAdded(f) == \E t \in EpThreads : epCall[t].pc \in {"register", "poll", "ready"} /\ epCall[t].file = f

\* No readiness is lost between the console, which buffers a character and
\* then delivers EPOLLIN, a watch being added, which registers and then polls,
\* and a waiter, which takes what is not ready off the list: a registered
\* watch of a console with input is on the ready list unless its addition or
\* a delivery to it is still under way; while the list is not empty waiters
\* are woken; and no list keeps an entry after its watch is gone
\* (watch_add, pollhead_deliver_events, process_ready, watch_del).
ReadyKept ==
    /\ \A f \in epPollers :
          console_chpoll => f \in epReady \/ BeingAdded(f) \/ epInput.pc = "buffered" \/ f \in epInput.left
    /\ epReady # {} => epEvent
    /\ epPollers \union epReady \union epFileList \union epInput.left \subseteq epWatches

-----------------------------------------------------------------------------
(* The inductive invariant behind ReadyKept.                               *)

EpFiles == Watched \union {EpFile}

\* where a thread has a reference to the file it adds, and to the epoll's
Adding == {"register", "poll", "ready", "link"}
HasFile == Adding \union {"add", "added"}
HasEpoll == HasFile \union {"waiting", "woken", "waited"}
Closing == {"free", "teardown", "closing", "released"}
Deleting == {"delete", "deleting"}

EpCalls == [pc : HasEpoll \union Closing \union Deleting \union {"user"}, file : EpFiles]

EpTypes ==
    /\ in_buf_len \in Nat
    /\ epInput \in [pc : {"idle", "buffered", "delivering"}, left : SUBSET Watched]
    /\ epWatches \subseteq Watched
    /\ epRefs \in [EpFiles -> Int]
    /\ epOpen \subseteq EpFiles
    /\ epCall \in [EpThreads -> EpCalls]

Holds(t, f) == IF f = EpFile THEN epCall[t].pc \in HasEpoll
               ELSE epCall[t].pc \in HasFile /\ epCall[t].file = f
EpHolders(f) == {t \in EpThreads : Holds(t, f)}

\* a file has a reference for each thread that uses it and for its descriptor
Descriptor(f) == IF f \in epOpen THEN 1 ELSE 0
Counted(f) == epRefs[f] >= Cardinality(EpHolders(f)) + Descriptor(f)

\* the watch of a thread that adds one is there, and who tears a file down
\* dropped its last reference
CallOf(t) ==
    /\ epCall[t].pc \in HasFile \union Closing => epCall[t].file \in Watched
    /\ epCall[t].pc \in Adding => epCall[t].file \in epWatches
    /\ epCall[t].pc \in Closing => epRefs[epCall[t].file] <= 0
    /\ epCall[t].pc \in Deleting => epCall[t].file = EpFile /\ epRefs[EpFile] <= 0

\* the pollhead's list does not change under a delivery
LeftInPollhead ==
    /\ epInput.left \subseteq epPollers
    /\ epInput.pc # "delivering" => epInput.left = {}

EpInv == /\ EpTypes /\ LeftInPollhead /\ ReadyKept
         /\ \A f \in EpFiles : Counted(f)
         /\ \A t \in EpThreads : CallOf(t)
=============================================================================
