---------------------------- MODULE EpollProofs ----------------------------
(* Polling loses no readiness, for any number of files and threads.          *)
EXTENDS Epoll, FiniteSetTheorems, TLAPS

USE DEF epLists, epLocks, epKeys

(* The threads with a reference to a file are finitely many.                 *)
LEMMA HoldersFinite ==
    ASSUME NEW f
    PROVE  IsFiniteSet(EpHolders(f)) /\ Cardinality(EpHolders(f)) \in Nat
<1>1. EpHolders(f) \in SUBSET EpThreads
    BY Zenon DEF EpHolders
<1>2. IsFiniteSet(EpHolders(f))
    BY Zenon, <1>1, FS_Subset, EpAssumption
<1> QED BY Zenon, <1>2, FS_CardinalityType

(* A file without a reference is used by no thread and no descriptor.        *)
LEMMA NobodyHolds ==
    ASSUME EpTypes, NEW f \in EpFiles, Counted(f), epRefs[f] <= 0
    PROVE  f \notin epOpen /\ \A t \in EpThreads : ~Holds(t, f)
<1>1. Descriptor(f) \in {0, 1} /\ (Descriptor(f) = 0 <=> f \notin epOpen)
    BY DEF Descriptor
<1>2. epRefs[f] \in Int
    BY Zenon DEF EpTypes
<1>3. epRefs[f] >= Cardinality(EpHolders(f)) + Descriptor(f)
    BY Zenon DEF Counted
<1>4. Cardinality(EpHolders(f)) = 0 /\ Descriptor(f) = 0
    BY <1>1, <1>2, <1>3, HoldersFinite
<1>5. EpHolders(f) = {}
    BY Zenon, <1>4, HoldersFinite, FS_EmptySet
<1> QED BY Zenon, <1>1, <1>4, <1>5 DEF EpHolders

(* A reference that is not dropped still counts.                             *)
LEMMA CountKept ==
    ASSUME EpTypes, EpTypes', NEW f \in EpFiles, Counted(f),
           EpHolders(f)' \subseteq EpHolders(f), f \in epOpen' => f \in epOpen,
           epRefs'[f] = epRefs[f]
    PROVE  Counted(f)'
<1>1. Cardinality(EpHolders(f)') \in Nat
      /\ Cardinality(EpHolders(f)') <= Cardinality(EpHolders(f))
    BY Zenon, HoldersFinite, FS_Subset, FS_CardinalityType
<1>2. Descriptor(f) \in {0, 1} /\ Descriptor(f)' \in {0, 1}
      /\ Descriptor(f)' <= Descriptor(f)
    BY DEF Descriptor
<1>3. epRefs[f] \in Int
    BY Zenon DEF EpTypes
<1>4. epRefs[f] >= Cardinality(EpHolders(f)) + Descriptor(f)
    BY Zenon DEF Counted
<1>5. epRefs'[f] >= Cardinality(EpHolders(f)') + Descriptor(f)'
    BY <1>1, <1>2, <1>3, <1>4, HoldersFinite
<1> QED BY Zenon, <1>5 DEF Counted

(* A reference is taken by a thread.                                         *)
LEMMA CountTaken ==
    ASSUME EpTypes, NEW f \in EpFiles, Counted(f), NEW t \in EpThreads,
           EpHolders(f)' = EpHolders(f) \cup {t}, epOpen' = epOpen,
           epRefs'[f] = epRefs[f] + 1
    PROVE  Counted(f)'
<1>1. Cardinality(EpHolders(f)') =
         IF t \in EpHolders(f) THEN Cardinality(EpHolders(f))
                               ELSE Cardinality(EpHolders(f)) + 1
    BY Zenon, HoldersFinite, FS_AddElement
<1>2. Descriptor(f) \in {0, 1} /\ Descriptor(f)' = Descriptor(f)
    BY DEF Descriptor
<1>3. epRefs[f] \in Int
    BY Zenon DEF EpTypes
<1>4. epRefs[f] >= Cardinality(EpHolders(f)) + Descriptor(f)
    BY Zenon DEF Counted
<1>5. epRefs'[f] >= Cardinality(EpHolders(f)') + Descriptor(f)'
    BY <1>1, <1>2, <1>3, <1>4, HoldersFinite
<1> QED BY Zenon, <1>5 DEF Counted

(* A reference is dropped by the thread that had it.                         *)
LEMMA CountDropped ==
    ASSUME EpTypes, NEW f \in EpFiles, Counted(f), NEW t \in EpThreads,
           t \in EpHolders(f), EpHolders(f)' = EpHolders(f) \ {t},
           epOpen' = epOpen, epRefs'[f] = epRefs[f] - 1
    PROVE  Counted(f)' /\ epRefs[f] >= 1
<1>1. /\ Cardinality(EpHolders(f)') = Cardinality(EpHolders(f)) - 1
      /\ Cardinality(EpHolders(f)') \in Nat
    BY Zenon, HoldersFinite, FS_RemoveElement, FS_CardinalityType
<1>2. Descriptor(f) \in {0, 1} /\ Descriptor(f)' = Descriptor(f)
    BY DEF Descriptor
<1>3. epRefs[f] \in Int
    BY Zenon DEF EpTypes
<1>4. epRefs[f] >= Cardinality(EpHolders(f)) + Descriptor(f)
    BY Zenon DEF Counted
<1>5. /\ epRefs'[f] >= Cardinality(EpHolders(f)') + Descriptor(f)'
      /\ epRefs[f] >= 1
    BY <1>1, <1>2, <1>3, <1>4, HoldersFinite
<1> QED BY Zenon, <1>5 DEF Counted

(* A reference is dropped with the descriptor that had it.                   *)
LEMMA CountClosed ==
    ASSUME EpTypes, NEW f \in EpFiles, Counted(f), f \in epOpen,
           f \notin epOpen', EpHolders(f)' = EpHolders(f),
           epRefs'[f] = epRefs[f] - 1
    PROVE  Counted(f)' /\ epRefs[f] >= 1
<1>1. Descriptor(f) = 1 /\ Descriptor(f)' = 0
    BY DEF Descriptor
<1>2. epRefs[f] \in Int
    BY Zenon DEF EpTypes
<1>3. epRefs[f] >= Cardinality(EpHolders(f)) + Descriptor(f)
    BY Zenon DEF Counted
<1>4. /\ epRefs'[f] >= Cardinality(EpHolders(f)') + Descriptor(f)'
      /\ epRefs[f] >= 1
    BY <1>1, <1>2, <1>3, HoldersFinite
<1> QED BY Zenon, <1>4 DEF Counted

(* only t moves in its call *)
OnlyMoves(t) == \A u \in EpThreads : u # t => epCall'[u] = epCall[u]

(* EpGoto changes the pc of the thread.                                      *)
LEMMA GotoValues ==
    ASSUME EpTypes, NEW t \in EpThreads, NEW p, EpGoto(t, p)
    PROVE  /\ OnlyMoves(t)
           /\ epCall'[t].pc = p /\ epCall'[t].file = epCall[t].file
           /\ [pc |-> p, file |-> EpFile] \in EpCalls => epCall' \in [EpThreads -> EpCalls]
BY DEF EpTypes, EpGoto, OnlyMoves, EpCalls

(* and with a whole new value for its call.                                  *)
LEMMA MoveValues ==
    ASSUME EpTypes, NEW t \in EpThreads, NEW c, epCall' = [epCall EXCEPT ![t] = c]
    PROVE  /\ OnlyMoves(t)
           /\ epCall'[t] = c
           /\ c \in EpCalls => epCall' \in [EpThreads -> EpCalls]
BY DEF EpTypes, OnlyMoves

(* What a thread's move means for the holders of a file.                     *)
LEMMA HoldersMove ==
    ASSUME NEW t \in EpThreads, OnlyMoves(t), NEW f
    PROVE  /\ (Holds(t, f)' => Holds(t, f)) => EpHolders(f)' \subseteq EpHolders(f)
           /\ (Holds(t, f)' <=> Holds(t, f)) => EpHolders(f)' = EpHolders(f)
           /\ Holds(t, f)' => EpHolders(f)' = EpHolders(f) \cup {t}
           /\ ~Holds(t, f)' => EpHolders(f)' = EpHolders(f) \ {t}
           /\ Holds(t, f) => t \in EpHolders(f)
<1>1. \A u \in EpThreads : u # t => (Holds(u, f)' <=> Holds(u, f))
    BY Zenon DEF OnlyMoves, Holds
<1> QED BY Zenon, <1>1 DEF EpHolders

(* A thread that moves without taking a reference, and drops none.           *)
LEMMA RefsAside ==
    ASSUME EpInv, EpTypes', NEW t \in EpThreads, OnlyMoves(t),
           UNCHANGED <<epRefs, epOpen>>,
           \A f \in EpFiles : Holds(t, f)' => Holds(t, f)
    PROVE  \A f \in EpFiles : Counted(f)'
<1> SUFFICES ASSUME NEW f \in EpFiles PROVE Counted(f)'
    OBVIOUS
<1>1. EpHolders(f)' \subseteq EpHolders(f)
    BY Zenon, HoldersMove
<1>2. EpTypes /\ Counted(f)
    BY Zenon DEF EpInv
<1> QED BY Zenon, <1>1, <1>2, CountKept

(* The other threads keep what is true of their calls.                       *)
LEMMA CallsAside ==
    ASSUME EpInv, NEW t \in EpThreads, OnlyMoves(t), CallOf(t)',
           \A f \in EpFiles : epRefs[f] <= 0 => epRefs'[f] <= 0,
           epWatches \subseteq epWatches'
    PROVE  \A u \in EpThreads : CallOf(u)'
<1> SUFFICES ASSUME NEW u \in EpThreads PROVE CallOf(u)'
    OBVIOUS
<1>1. CASE u = t
    BY Zenon, <1>1
<1>2. CASE u # t
    <2>1. epCall'[u] = epCall[u]
        BY Zenon, <1>2 DEF OnlyMoves
    <2>2. CallOf(u)
        BY Zenon DEF EpInv
    <2>3. Watched \subseteq EpFiles /\ EpFile \in EpFiles
        BY Zenon DEF EpFiles
    <2> QED BY Zenon, <2>1, <2>2, <2>3 DEF CallOf
<1> QED BY Zenon, <1>1, <1>2

(* The lists stay as they are, or watches come, and nobody is done adding one. *)
LEMMA ListsAside ==
    ASSUME EpInv, UNCHANGED <<in_buf_len, epInput, epPollers, epReady, epEvent, epFileList>>,
           epWatches \subseteq epWatches',
           \A f \in Watched : BeingAdded(f) => BeingAdded(f)'
    PROVE  LeftInPollhead' /\ ReadyKept'
<1>1. LeftInPollhead /\ ReadyKept /\ epWatches \subseteq Watched
    BY Zenon DEF EpInv, EpTypes
<1>2. epPollers \subseteq Watched
    BY Zenon, <1>1 DEF ReadyKept
<1>3. LeftInPollhead'
    BY Zenon, <1>1 DEF LeftInPollhead
<1>4. ReadyKept'
    BY Zenon, <1>1, <1>2 DEF ReadyKept, console_chpoll
<1> QED BY Zenon, <1>3, <1>4

(* A thread that is not adding a watch moves.                                *)
LEMMA AddersStay ==
    ASSUME NEW t \in EpThreads, OnlyMoves(t),
           epCall[t].pc \notin {"register", "poll", "ready"}
    PROVE  \A f \in Watched : BeingAdded(f) => BeingAdded(f)'
BY Zenon DEF BeingAdded, OnlyMoves

(* Nobody moves.                                                             *)
LEMMA NobodyMoves ==
    ASSUME EpInv, EpTypes', UNCHANGED <<epCall, epRefs, epOpen, epWatches>>
    PROVE  /\ \A f \in EpFiles : Counted(f)'
           /\ \A t \in EpThreads : CallOf(t)'
           /\ \A f : BeingAdded(f)' <=> BeingAdded(f)
<1>1. ASSUME NEW f \in EpFiles PROVE Counted(f)'
    <2>1. EpHolders(f)' = EpHolders(f) /\ Descriptor(f)' = Descriptor(f)
        BY Zenon DEF EpHolders, Holds, Descriptor
    <2>2. Counted(f)
        BY Zenon DEF EpInv
    <2> QED BY Zenon, <2>1, <2>2 DEF Counted
<1>2. ASSUME NEW t \in EpThreads PROVE CallOf(t)'
    BY Zenon DEF EpInv, CallOf
<1>3. \A f : BeingAdded(f)' <=> BeingAdded(f)
    BY Zenon DEF BeingAdded
<1> QED BY Zenon, <1>1, <1>2, <1>3

(* The values the types give.                                                *)
LEMMA CallFacts ==
    ASSUME EpInv, NEW t \in EpThreads
    PROVE  /\ EpTypes /\ CallOf(t) /\ epWatches \subseteq Watched
           /\ epCall[t] \in EpCalls /\ epCall[t].file \in EpFiles
           /\ Watched \subseteq EpFiles /\ EpFile \in EpFiles /\ EpFile \notin Watched
<1>1. EpTypes /\ CallOf(t) /\ epWatches \subseteq Watched
    BY Zenon DEF EpInv, EpTypes
<1>2. epCall[t] \in EpCalls
    BY Zenon, <1>1 DEF EpTypes
<1>3. epCall[t].file \in EpFiles
    BY <1>2 DEF EpCalls
<1> QED BY Zenon, <1>1, <1>2, <1>3, EpAssumption DEF EpFiles, EpFile

(* A character comes in.                                                     *)
LEMMA InputStep ==
    ASSUME EpInv, ex_console_input
    PROVE  EpInv'
<1>1. EpTypes /\ LeftInPollhead /\ ReadyKept
    BY Zenon DEF EpInv
<1>2. /\ in_buf_len' = in_buf_len + 1 /\ epInput'.pc = "buffered" /\ epInput'.left = epInput.left
      /\ epInput' \in [pc : {"idle", "buffered", "delivering"}, left : SUBSET Watched]
      /\ epInput.pc = "idle"
      /\ UNCHANGED <<epWatches, epPollers, epReady, epEvent, epFileList, epRefs, epOpen, epCall>>
    BY <1>1 DEF ex_console_input, EpTypes
<1>3. EpTypes'
    BY <1>1, <1>2 DEF EpTypes
<1>4. /\ \A f \in EpFiles : Counted(f)'
      /\ \A t \in EpThreads : CallOf(t)'
    BY Zenon, <1>2, <1>3, NobodyMoves
<1>5. LeftInPollhead'
    BY Zenon, <1>1, <1>2 DEF LeftInPollhead
<1>6. ReadyKept'
    BY Zenon, <1>1, <1>2 DEF ReadyKept
<1> QED BY Zenon, <1>3, <1>4, <1>5, <1>6 DEF EpInv

(* pollhead_deliver_events locks the pollhead.                               *)
LEMMA DeliverBegins ==
    ASSUME EpInv, pollhead_deliver_events, epInput.pc = "buffered"
    PROVE  EpInv'
<1>1. EpTypes /\ LeftInPollhead /\ ReadyKept
    BY Zenon DEF EpInv
<1>2. epPollers \subseteq Watched
    BY Zenon, <1>1 DEF EpTypes, ReadyKept
<1>3. /\ epInput' = [pc |-> "delivering", left |-> epPollers]
      /\ UNCHANGED <<in_buf_len, epWatches, epPollers, epReady, epEvent, epFileList, epRefs, epOpen, epCall>>
    BY DEF pollhead_deliver_events
<1>4. /\ epInput'.pc = "delivering" /\ epInput'.left = epPollers
      /\ epInput' \in [pc : {"idle", "buffered", "delivering"}, left : SUBSET Watched]
    BY <1>2, <1>3
<1>5. EpTypes'
    BY Zenon, <1>1, <1>3, <1>4 DEF EpTypes
<1>6. /\ \A f \in EpFiles : Counted(f)'
      /\ \A t \in EpThreads : CallOf(t)'
    BY Zenon, <1>3, <1>5, NobodyMoves
<1>7. LeftInPollhead'
    BY Zenon, <1>3, <1>4 DEF LeftInPollhead
<1>8. ReadyKept'
    BY Zenon, <1>1, <1>3, <1>4 DEF ReadyKept
<1> QED BY Zenon, <1>5, <1>6, <1>7, <1>8 DEF EpInv

(* It delivers the event to an entry, or is done.                            *)
LEMMA DeliverNext ==
    ASSUME EpInv, pollhead_deliver_events, epInput.pc = "delivering"
    PROVE  EpInv'
<1>1. EpTypes /\ LeftInPollhead /\ ReadyKept
    BY Zenon DEF EpInv
<1>2. UNCHANGED <<in_buf_len, epWatches, epPollers, epFileList, epRefs, epOpen, epCall>>
    BY DEF pollhead_deliver_events
<1>3. CASE epInput.left = {}
    <2>1. epInput' = [pc |-> "idle", left |-> {}] /\ UNCHANGED <<epReady, epEvent>>
        BY <1>3 DEF pollhead_deliver_events
    <2>2. /\ epInput'.pc = "idle" /\ epInput'.left = {}
          /\ epInput' \in [pc : {"idle", "buffered", "delivering"}, left : SUBSET Watched]
        BY <2>1
    <2>3. EpTypes'
        BY Zenon, <1>1, <1>2, <2>2 DEF EpTypes
    <2>4. /\ \A f \in EpFiles : Counted(f)'
          /\ \A t \in EpThreads : CallOf(t)'
          /\ \A f : BeingAdded(f)' <=> BeingAdded(f)
        BY Zenon, <1>2, <2>3, NobodyMoves
    <2>5. LeftInPollhead'
        BY Zenon, <2>2 DEF LeftInPollhead
    <2>6. \A f \in epPollers : console_chpoll => f \in epReady \/ BeingAdded(f)
        BY <1>1, <1>3 DEF ReadyKept
    <2>7. epPollers \union epReady \union epFileList \union {} \subseteq epWatches
        BY Zenon, <1>1 DEF ReadyKept
    <2>8. console_chpoll' <=> console_chpoll
        BY Zenon, <1>2 DEF console_chpoll
    <2>9. ReadyKept'
        BY Zenon, <1>1, <1>2, <2>1, <2>2, <2>4, <2>6, <2>7, <2>8 DEF ReadyKept
    <2> QED BY Zenon, <2>3, <2>4, <2>5, <2>9 DEF EpInv
<1>4. ASSUME epInput.left # {} PROVE EpInv'
    <2>1. PICK f \in epInput.left : /\ epInput' = [epInput EXCEPT !.left = @ \ {f}]
                                    /\ epReady' = epReady \union {f}
                                    /\ epEvent' = TRUE
        BY <1>4 DEF pollhead_deliver_events
    <2>2. /\ epInput'.pc = epInput.pc /\ epInput'.left = epInput.left \ {f}
          /\ epInput' \in [pc : {"idle", "buffered", "delivering"}, left : SUBSET Watched]
        BY <1>1, <2>1 DEF EpTypes
    <2>3. EpTypes'
        BY Zenon, <1>1, <1>2, <2>2 DEF EpTypes
    <2>4. /\ \A g \in EpFiles : Counted(g)'
          /\ \A t \in EpThreads : CallOf(t)'
          /\ \A g : BeingAdded(g)' <=> BeingAdded(g)
        BY Zenon, <1>2, <2>3, NobodyMoves
    <2>5. LeftInPollhead'
        BY Zenon, <1>1, <1>2, <2>2 DEF LeftInPollhead
    <2>6. epEvent'
        BY Zenon, <2>1
    <2>7. console_chpoll' <=> console_chpoll
        BY Zenon, <1>2 DEF console_chpoll
    <2>8. \A g \in epPollers' : console_chpoll' =>
             \/ g \in epReady' \/ BeingAdded(g)' \/ epInput'.pc = "buffered" \/ g \in epInput'.left
        BY Zenon, <1>1, <1>2, <2>1, <2>2, <2>4, <2>7 DEF ReadyKept
    <2>9. epPollers' \union epReady' \union epFileList' \union epInput'.left \subseteq epWatches'
        BY ZenonT(30), <1>1, <1>2, <2>1, <2>2 DEF ReadyKept
    <2>10. ReadyKept'
        BY Zenon, <2>6, <2>8, <2>9 DEF ReadyKept
    <2> QED BY Zenon, <2>3, <2>4, <2>5, <2>10 DEF EpInv
<1> QED BY Zenon, <1>3, <1>4

(* A character is read.                                                      *)
LEMMA ReadStep ==
    ASSUME EpInv, NEW t \in EpThreads, NEW f \in Watched, console_read(t, f)
    PROVE  EpInv'
<1>1. EpTypes /\ LeftInPollhead /\ ReadyKept
    BY Zenon DEF EpInv
<1>2. /\ in_buf_len' = in_buf_len - 1 /\ in_buf_len > 0
      /\ UNCHANGED <<epInput, epWatches, epPollers, epReady, epEvent, epFileList, epRefs, epOpen, epCall>>
    BY DEF console_read
<1>3. in_buf_len' \in Nat
    BY <1>1, <1>2 DEF EpTypes
<1>4. EpTypes'
    BY Zenon, <1>1, <1>2, <1>3 DEF EpTypes
<1>5. /\ \A g \in EpFiles : Counted(g)'
      /\ \A u \in EpThreads : CallOf(u)'
      /\ \A g : BeingAdded(g)' <=> BeingAdded(g)
    BY Zenon, <1>2, <1>4, NobodyMoves
<1>6. LeftInPollhead'
    BY Zenon, <1>1, <1>2 DEF LeftInPollhead
<1>7. console_chpoll
    BY Zenon, <1>2 DEF console_chpoll
<1>8. ReadyKept'
    BY Zenon, <1>1, <1>2, <1>5, <1>7 DEF ReadyKept
<1> QED BY Zenon, <1>4, <1>5, <1>6, <1>8 DEF EpInv

(* ex_service_epoll_ctl has found both files and references them.            *)
LEMMA CtlStep ==
    ASSUME EpInv, NEW t \in EpThreads, NEW f \in Watched, ex_service_epoll_ctl(t, f),
           f \in epOpen
    PROVE  EpInv'
<1>1. /\ EpTypes /\ Watched \subseteq EpFiles /\ EpFile \in EpFiles /\ f # EpFile
      /\ f \in EpFiles /\ EpFile \in epOpen
    BY Zenon, CallFacts DEF ex_service_epoll_ctl, desc_to_epoll
<1>2. /\ epRefs' = [epRefs EXCEPT ![f] = @ + 1, ![EpFile] = @ + 1]
      /\ epCall' = [epCall EXCEPT ![t] = [pc |-> "add", file |-> f]]
      /\ epCall[t].pc = "user"
      /\ UNCHANGED <<in_buf_len, epInput, epWatches, epPollers, epReady, epEvent, epFileList, epOpen>>
    BY DEF ex_service_epoll_ctl
<1>3. /\ epRefs'[f] = epRefs[f] + 1 /\ epRefs'[EpFile] = epRefs[EpFile] + 1
      /\ \A g \in EpFiles : g \notin {f, EpFile} => epRefs'[g] = epRefs[g]
      /\ epRefs' \in [EpFiles -> Int]
    BY <1>1, <1>2 DEF EpTypes
<1>4. [pc |-> "add", file |-> f] \in EpCalls
    BY <1>1 DEF EpCalls, HasEpoll, HasFile
<1>5. OnlyMoves(t) /\ epCall'[t] = [pc |-> "add", file |-> f] /\ epCall' \in [EpThreads -> EpCalls]
    BY Zenon, <1>1, <1>2, <1>4, MoveValues
<1>6. epCall'[t].pc = "add" /\ epCall'[t].file = f
    BY <1>5
<1>7. EpTypes'
    BY Zenon, <1>1, <1>2, <1>3, <1>5 DEF EpTypes
<1>8. /\ "user" \notin HasEpoll /\ "user" \notin HasFile /\ "add" \in HasFile /\ "add" \in HasEpoll
      /\ "add" \notin Adding /\ "add" \notin Closing /\ "add" \notin Deleting
    BY DEF HasEpoll, HasFile, Adding, Closing, Deleting
<1>9. ASSUME NEW g \in EpFiles PROVE Counted(g)'
    <2>1. Counted(g)
        BY Zenon DEF EpInv
    <2>2. CASE g \in {f, EpFile}
        <3>1. Holds(t, g)'
            BY Zenon, <1>1, <1>6, <1>8, <2>2 DEF Holds
        <3>2. EpHolders(g)' = EpHolders(g) \cup {t}
            BY Zenon, <1>5, <3>1, HoldersMove
        <3>3. epRefs'[g] = epRefs[g] + 1
            BY Zenon, <1>3, <2>2
        <3> QED BY Zenon, <1>1, <1>2, <2>1, <3>2, <3>3, CountTaken
    <2>3. CASE g \notin {f, EpFile}
        <3>1. ~Holds(t, g)'
            BY Zenon, <1>6, <2>3 DEF Holds
        <3>2. EpHolders(g)' \subseteq EpHolders(g)
            BY Zenon, <1>5, <3>1, HoldersMove
        <3>3. epRefs'[g] = epRefs[g]
            BY Zenon, <1>3, <2>3
        <3> QED BY Zenon, <1>1, <1>2, <1>7, <2>1, <3>2, <3>3, CountKept
    <2> QED BY Zenon, <2>2, <2>3
<1>10. \A g \in EpFiles : epRefs[g] <= 0 => epRefs'[g] <= 0
    <2>1. \A g \in EpFiles : epRefs[g] <= 0 => g \notin epOpen
        BY Zenon, <1>1, NobodyHolds DEF EpInv
    <2> QED BY Zenon, <1>1, <1>3, <2>1
<1>11. CallOf(t)'
    BY Zenon, <1>6, <1>8 DEF CallOf
<1>12. \A u \in EpThreads : CallOf(u)'
    BY Zenon, <1>2, <1>5, <1>10, <1>11, CallsAside
<1>13. \A g \in Watched : BeingAdded(g) => BeingAdded(g)'
    BY <1>2, <1>5, AddersStay
<1>14. LeftInPollhead' /\ ReadyKept'
    BY Zenon, <1>2, <1>13, ListsAside
<1> QED BY Zenon, <1>7, <1>9, <1>12, <1>14 DEF EpInv

(* It found no file to watch and keeps a reference.                          *)
LEMMA CtlFails ==
    ASSUME EpInv, NEW t \in EpThreads, NEW f \in Watched, ex_service_epoll_ctl(t, f),
           f \notin epOpen
    PROVE  EpInv'
<1>1. EpTypes /\ EpFile \in EpFiles /\ EpFile \in epOpen
    BY Zenon, CallFacts DEF ex_service_epoll_ctl, desc_to_epoll
<1>2. /\ epRefs' = [epRefs EXCEPT ![EpFile] = @ + 1]
      /\ UNCHANGED <<in_buf_len, epInput, epWatches, epPollers, epReady, epEvent, epFileList,
                     epOpen, epCall>>
    BY DEF ex_service_epoll_ctl
<1>3. /\ epRefs'[EpFile] = epRefs[EpFile] + 1
      /\ \A g \in EpFiles : g # EpFile => epRefs'[g] = epRefs[g]
      /\ epRefs' \in [EpFiles -> Int]
    BY <1>1, <1>2 DEF EpTypes
<1>4. EpTypes'
    BY Zenon, <1>1, <1>2, <1>3 DEF EpTypes
<1>5. OnlyMoves(t)
    BY Zenon, <1>2 DEF OnlyMoves
<1>6. ASSUME NEW g \in EpFiles PROVE Counted(g)'
    <2>1. Counted(g) /\ epRefs[g] \in Int /\ epRefs'[g] \in {epRefs[g], epRefs[g] + 1}
        BY Zenon, <1>1, <1>3 DEF EpInv, EpTypes
    <2>2. EpHolders(g)' = EpHolders(g) /\ Descriptor(g)' = Descriptor(g)
        BY Zenon, <1>2 DEF EpHolders, Holds, Descriptor
    <2>3. epRefs[g] >= Cardinality(EpHolders(g)) + Descriptor(g)
        BY Zenon, <2>1 DEF Counted
    <2>4. Descriptor(g) \in {0, 1}
        BY Zenon DEF Descriptor
    <2>5. epRefs'[g] >= Cardinality(EpHolders(g)') + Descriptor(g)'
        BY <2>1, <2>2, <2>3, <2>4, HoldersFinite
    <2> QED BY Zenon, <2>5 DEF Counted
<1>7. \A g \in EpFiles : epRefs[g] <= 0 => epRefs'[g] <= 0
    <2>1. \A g \in EpFiles : epRefs[g] <= 0 => g \notin epOpen
        BY Zenon, <1>1, NobodyHolds DEF EpInv
    <2> QED BY Zenon, <1>1, <1>3, <2>1
<1>8. CallOf(t)'
    BY Zenon, <1>2, <1>7, CallFacts DEF CallOf
<1>9. \A u \in EpThreads : CallOf(u)'
    BY Zenon, <1>2, <1>5, <1>7, <1>8, CallsAside
<1>10. \A g \in Watched : BeingAdded(g) => BeingAdded(g)'
    BY Zenon, <1>2 DEF BeingAdded
<1>11. LeftInPollhead' /\ ReadyKept'
    BY Zenon, <1>2, <1>10, ListsAside
<1> QED BY Zenon, <1>4, <1>6, <1>9, <1>11 DEF EpInv

(* A thread goes on in its call with the references it has.                  *)
LEMMA GotoAside ==
    ASSUME EpInv, NEW t \in EpThreads, NEW p, EpGoto(t, p),
           UNCHANGED <<in_buf_len, epInput, epRefs, epOpen>>,
           epWatches \subseteq epWatches', epWatches' \subseteq Watched,
           p \in HasEpoll => epCall[t].pc \in HasEpoll,
           p \in HasFile => epCall[t].pc \in HasFile,
           [pc |-> p, file |-> EpFile] \in EpCalls,
           CallOf(t)'
    PROVE  /\ EpTypes' /\ OnlyMoves(t)
           /\ \A f \in EpFiles : Counted(f)'
           /\ \A u \in EpThreads : CallOf(u)'
<1>1. EpTypes
    BY Zenon DEF EpInv
<1>2. /\ OnlyMoves(t) /\ epCall' \in [EpThreads -> EpCalls]
      /\ epCall'[t].pc = p /\ epCall'[t].file = epCall[t].file
    BY Zenon, <1>1, GotoValues
<1>3. EpTypes'
    BY Zenon, <1>1, <1>2 DEF EpTypes
<1>4. \A f \in EpFiles : Holds(t, f)' => Holds(t, f)
    BY Zenon, <1>2 DEF Holds
<1>5. \A f \in EpFiles : Counted(f)'
    BY Zenon, <1>2, <1>3, <1>4, RefsAside
<1>6. \A u \in EpThreads : CallOf(u)'
    BY Zenon, <1>2, CallsAside
<1> QED BY Zenon, <1>2, <1>3, <1>5, <1>6

(* watch_add looks the file up and inserts an entry.                         *)
LEMMA WatchAddStep ==
    ASSUME EpInv, NEW t \in EpThreads, watch_add(t)
    PROVE  EpInv'
<1>1. /\ EpTypes /\ CallOf(t) /\ epWatches \subseteq Watched /\ epCall[t].pc = "add"
      /\ UNCHANGED <<in_buf_len, epInput, epPollers, epReady, epEvent, epFileList, epRefs, epOpen>>
    BY Zenon, CallFacts DEF watch_add
<1>2. /\ {"add", "added", "register"} \subseteq HasFile /\ {"add", "added", "register"} \subseteq HasEpoll
      /\ "register" \in Adding /\ "added" \notin Adding
      /\ {"added", "register"} \cap (Closing \union Deleting) = {}
    BY DEF HasEpoll, HasFile, Adding, Closing, Deleting
<1>3. \A p \in {"added", "register"} : [pc |-> p, file |-> EpFile] \in EpCalls
    BY <1>2 DEF EpCalls, EpFiles
<1>4. epCall[t].file \in Watched
    BY Zenon, <1>1, <1>2 DEF CallOf
<1>5. PICK p \in {"added", "register"} :
         /\ EpGoto(t, p)
         /\ epWatches' = IF p = "register" THEN epWatches \union {epCall[t].file} ELSE epWatches
    <2>1. CASE EpGoto(t, "added") /\ UNCHANGED epWatches
        BY <2>1
    <2>2. CASE EpGoto(t, "register") /\ epWatches' = epWatches \union {epCall[t].file}
        BY <2>2
    <2> QED BY Zenon, <2>1, <2>2 DEF watch_add
<1>6. /\ epWatches \subseteq epWatches' /\ epWatches' \subseteq Watched
      /\ p = "register" => epCall[t].file \in epWatches'
    BY Zenon, <1>1, <1>4, <1>5
<1>7. epCall'[t].pc = p /\ epCall'[t].file = epCall[t].file
    BY Zenon, <1>1, <1>5, GotoValues
<1>8. CallOf(t)'
    BY Zenon, <1>2, <1>4, <1>6, <1>7 DEF CallOf
<1>9. /\ EpTypes' /\ OnlyMoves(t)
      /\ \A f \in EpFiles : Counted(f)'
      /\ \A u \in EpThreads : CallOf(u)'
    BY Zenon, <1>1, <1>2, <1>3, <1>5, <1>6, <1>8, GotoAside
<1>10. \A f \in Watched : BeingAdded(f) => BeingAdded(f)'
    BY <1>1, <1>9, AddersStay
<1>11. LeftInPollhead' /\ ReadyKept'
    BY Zenon, <1>1, <1>6, <1>10, ListsAside
<1> QED BY Zenon, <1>9, <1>11 DEF EpInv

(* The entry is put on the pollhead's list.                                  *)
LEMMA RegisterStep ==
    ASSUME EpInv, NEW t \in EpThreads, pollhead_register(t), epCall[t].pc = "register"
    PROVE  EpInv'
<1>0. PICK f : f = epCall[t].file
    OBVIOUS
<1>1. /\ EpTypes /\ CallOf(t) /\ LeftInPollhead /\ ReadyKept
      /\ EpGoto(t, "poll") /\ epPollers' = epPollers \union {f} /\ epInput.pc # "delivering"
      /\ UNCHANGED <<in_buf_len, epInput, epWatches, epReady, epEvent, epFileList, epRefs, epOpen>>
    BY Zenon, <1>0, CallFacts DEF pollhead_register, RegisterThenPoll, PollheadFree, EpInv
<1>2. /\ {"register", "poll"} \subseteq Adding /\ {"register", "poll"} \subseteq HasFile
      /\ {"register", "poll"} \subseteq HasEpoll
      /\ "poll" \notin Closing /\ "poll" \notin Deleting
    BY DEF HasEpoll, HasFile, Adding, Closing, Deleting
<1>3. [pc |-> "poll", file |-> EpFile] \in EpCalls
    BY <1>2 DEF EpCalls, EpFiles
<1>4. f \in Watched /\ f \in epWatches /\ epWatches' \subseteq Watched /\ epWatches \subseteq epWatches'
    BY Zenon, <1>0, <1>1, <1>2 DEF CallOf, EpTypes
<1>5. epCall'[t].pc = "poll" /\ epCall'[t].file = f
    BY Zenon, <1>0, <1>1, GotoValues
<1>6. CallOf(t)'
    BY Zenon, <1>1, <1>2, <1>4, <1>5 DEF CallOf
<1>7. /\ EpTypes' /\ OnlyMoves(t)
      /\ \A g \in EpFiles : Counted(g)'
      /\ \A u \in EpThreads : CallOf(u)'
    BY Zenon, <1>1, <1>2, <1>3, <1>4, <1>6, GotoAside
<1>8. BeingAdded(f)'
    BY Zenon, <1>5 DEF BeingAdded
<1>9. \A g : BeingAdded(g) => BeingAdded(g)'
    <2> SUFFICES ASSUME NEW g, NEW u \in EpThreads, epCall[u].file = g,
                        epCall[u].pc \in {"register", "poll", "ready"}
                 PROVE  BeingAdded(g)'
        BY Zenon DEF BeingAdded
    <2>1. CASE u = t
        BY Zenon, <1>0, <1>8, <2>1
    <2>2. CASE u # t
        BY Zenon, <1>7, <2>2 DEF BeingAdded, OnlyMoves
    <2> QED BY Zenon, <2>1, <2>2
<1>10. LeftInPollhead'
    BY Zenon, <1>1 DEF LeftInPollhead
<1>11. \A g \in epPollers' : console_chpoll' =>
          g \in epReady' \/ BeingAdded(g)' \/ epInput'.pc = "buffered" \/ g \in epInput'.left
    BY Zenon, <1>1, <1>8, <1>9 DEF ReadyKept, console_chpoll
<1>12. ReadyKept'
    BY ZenonT(30), <1>1, <1>4, <1>11 DEF ReadyKept
<1> QED BY Zenon, <1>7, <1>10, <1>12 DEF EpInv

(* What the files are ready for is looked up after that.                     *)
LEMMA PollStep ==
    ASSUME EpInv, NEW t \in EpThreads, pollhead_register(t), epCall[t].pc = "poll"
    PROVE  EpInv'
<1> DEFINE f == epCall[t].file
           p == IF console_chpoll THEN "ready" ELSE "link"
<1>1. /\ EpTypes /\ CallOf(t) /\ LeftInPollhead /\ ReadyKept
      /\ EpGoto(t, p)
      /\ UNCHANGED <<in_buf_len, epInput, epWatches, epPollers, epReady, epEvent, epFileList, epRefs, epOpen>>
    BY Zenon, CallFacts DEF pollhead_register, RegisterThenPoll, EpInv
<1>2. /\ {"poll", "ready", "link"} \subseteq Adding /\ {"poll", "ready", "link"} \subseteq HasFile
      /\ {"poll", "ready", "link"} \subseteq HasEpoll
      /\ {"ready", "link"} \cap (Closing \union Deleting) = {}
    BY DEF HasEpoll, HasFile, Adding, Closing, Deleting
<1>3. p \in {"ready", "link"} /\ (p = "ready" <=> console_chpoll)
    BY DEF console_chpoll
<1> HIDE DEF p
<1>4. [pc |-> p, file |-> EpFile] \in EpCalls
    BY <1>2, <1>3 DEF EpCalls, EpFiles
<1>5. f \in Watched /\ f \in epWatches /\ epWatches' \subseteq Watched /\ epWatches \subseteq epWatches'
    BY Zenon, <1>1, <1>2 DEF CallOf, EpTypes
<1>6. epCall'[t].pc = p /\ epCall'[t].file = f
    BY Zenon, <1>1, GotoValues
<1>7. CallOf(t)'
    BY Zenon, <1>1, <1>2, <1>3, <1>5, <1>6 DEF CallOf
<1>8. /\ EpTypes' /\ OnlyMoves(t)
      /\ \A g \in EpFiles : Counted(g)'
      /\ \A u \in EpThreads : CallOf(u)'
    BY Zenon, <1>1, <1>2, <1>3, <1>4, <1>5, <1>7, GotoAside
<1>9. console_chpoll' <=> console_chpoll
    BY Zenon, <1>1 DEF console_chpoll
<1>10. console_chpoll => \A g : BeingAdded(g) => BeingAdded(g)'
    <2> SUFFICES ASSUME console_chpoll, NEW g, NEW u \in EpThreads, epCall[u].file = g,
                        epCall[u].pc \in {"register", "poll", "ready"}
                 PROVE  BeingAdded(g)'
        BY Zenon DEF BeingAdded
    <2>1. CASE u = t
        BY Zenon, <1>3, <1>6, <2>1 DEF BeingAdded
    <2>2. CASE u # t
        BY Zenon, <1>8, <2>2 DEF BeingAdded, OnlyMoves
    <2> QED BY Zenon, <2>1, <2>2
<1>11. LeftInPollhead'
    BY Zenon, <1>1 DEF LeftInPollhead
<1>12. ReadyKept'
    BY Zenon, <1>1, <1>9, <1>10 DEF ReadyKept
<1> QED BY Zenon, <1>8, <1>11, <1>12 DEF EpInv

(* An entry that is ready is put on the ready list.                          *)
LEMMA AddReadyStep ==
    ASSUME EpInv, NEW t \in EpThreads, AddReady(t)
    PROVE  EpInv'
<1>0. PICK f : f = epCall[t].file
    OBVIOUS
<1>1. /\ EpTypes /\ CallOf(t) /\ LeftInPollhead /\ ReadyKept
      /\ epCall[t].pc = "ready" /\ EpGoto(t, "link")
      /\ epReady' = epReady \union {f} /\ epEvent' = TRUE
      /\ UNCHANGED <<in_buf_len, epInput, epWatches, epPollers, epFileList, epRefs, epOpen>>
    BY Zenon, <1>0, CallFacts DEF AddReady, EpInv
<1>2. /\ {"ready", "link"} \subseteq Adding /\ {"ready", "link"} \subseteq HasFile
      /\ {"ready", "link"} \subseteq HasEpoll
      /\ "link" \notin Closing /\ "link" \notin Deleting
    BY DEF HasEpoll, HasFile, Adding, Closing, Deleting
<1>3. [pc |-> "link", file |-> EpFile] \in EpCalls
    BY <1>2 DEF EpCalls, EpFiles
<1>4. f \in Watched /\ f \in epWatches /\ epWatches' \subseteq Watched /\ epWatches \subseteq epWatches'
    BY Zenon, <1>0, <1>1, <1>2 DEF CallOf, EpTypes
<1>5. epCall'[t].pc = "link" /\ epCall'[t].file = f
    BY Zenon, <1>0, <1>1, GotoValues
<1>6. CallOf(t)'
    BY Zenon, <1>1, <1>2, <1>4, <1>5 DEF CallOf
<1>7. /\ EpTypes' /\ OnlyMoves(t)
      /\ \A g \in EpFiles : Counted(g)'
      /\ \A u \in EpThreads : CallOf(u)'
    BY Zenon, <1>1, <1>2, <1>3, <1>4, <1>6, GotoAside
<1>8. \A g : BeingAdded(g) /\ g # f => BeingAdded(g)'
    BY Zenon, <1>0, <1>7 DEF BeingAdded, OnlyMoves
<1>9. LeftInPollhead'
    BY Zenon, <1>1 DEF LeftInPollhead
<1>10. \A g \in epPollers' : console_chpoll' =>
          g \in epReady' \/ BeingAdded(g)' \/ epInput'.pc = "buffered" \/ g \in epInput'.left
    BY Zenon, <1>1, <1>8 DEF ReadyKept, console_chpoll
<1>11. epEvent'
    BY Zenon, <1>1
<1>12. ReadyKept'
    BY ZenonT(30), <1>1, <1>4, <1>10, <1>11 DEF ReadyKept
<1> QED BY Zenon, <1>7, <1>9, <1>12 DEF EpInv

(* The entry is linked to its file.                                          *)
LEMMA LinkStep ==
    ASSUME EpInv, NEW t \in EpThreads, LinkToFile(t)
    PROVE  EpInv'
<1>1. /\ EpTypes /\ CallOf(t) /\ LeftInPollhead /\ ReadyKept
      /\ epCall[t].pc = "link" /\ EpGoto(t, "added")
      /\ epFileList' = epFileList \union {epCall[t].file}
      /\ UNCHANGED <<in_buf_len, epInput, epWatches, epPollers, epReady, epEvent, epRefs, epOpen>>
    BY Zenon, CallFacts DEF LinkToFile, EpInv
<1>2. /\ "link" \in Adding /\ {"link", "added"} \subseteq HasFile /\ {"link", "added"} \subseteq HasEpoll
      /\ "added" \notin Adding /\ "added" \notin Closing /\ "added" \notin Deleting
    BY DEF HasEpoll, HasFile, Adding, Closing, Deleting
<1>3. [pc |-> "added", file |-> EpFile] \in EpCalls
    BY <1>2 DEF EpCalls, EpFiles
<1>4. /\ epCall[t].file \in Watched /\ epCall[t].file \in epWatches
      /\ epWatches' \subseteq Watched /\ epWatches \subseteq epWatches'
    BY Zenon, <1>1, <1>2 DEF CallOf, EpTypes
<1>5. epCall'[t].pc = "added" /\ epCall'[t].file = epCall[t].file
    BY Zenon, <1>1, GotoValues
<1>6. CallOf(t)'
    BY Zenon, <1>2, <1>4, <1>5 DEF CallOf
<1>7. /\ EpTypes' /\ OnlyMoves(t)
      /\ \A g \in EpFiles : Counted(g)'
      /\ \A u \in EpThreads : CallOf(u)'
    BY Zenon, <1>1, <1>2, <1>3, <1>4, <1>6, GotoAside
<1>8. epPollers \subseteq Watched
    BY Zenon, <1>1 DEF ReadyKept, EpTypes
<1>9. \A g \in Watched : BeingAdded(g) => BeingAdded(g)'
    BY <1>1, <1>7, AddersStay
<1>10. LeftInPollhead'
    BY Zenon, <1>1 DEF LeftInPollhead
<1>11. \A g \in epPollers' : console_chpoll' =>
          g \in epReady' \/ BeingAdded(g)' \/ epInput'.pc = "buffered" \/ g \in epInput'.left
    BY Zenon, <1>1, <1>8, <1>9 DEF ReadyKept, console_chpoll
<1>12. ReadyKept'
    BY Zenon, <1>1, <1>4, <1>11 DEF ReadyKept
<1> QED BY Zenon, <1>7, <1>10, <1>12 DEF EpInv

(* process_ready takes entries off the ready list only when there is no input. *)
LEMMA ProcessReadyStep ==
    ASSUME EpInv, process_ready, UNCHANGED <<in_buf_len, epInput, epWatches, epPollers, epFileList>>,
           \A f \in Watched : BeingAdded(f) => BeingAdded(f)'
    PROVE  LeftInPollhead' /\ ReadyKept'
<1>1. LeftInPollhead /\ ReadyKept /\ epWatches \subseteq Watched
    BY Zenon DEF EpInv, EpTypes
<1>2. epPollers \subseteq Watched
    BY Zenon, <1>1 DEF ReadyKept
<1>3. /\ console_chpoll => epReady' = epReady
      /\ epReady' \subseteq epReady
    BY Zenon DEF process_ready
<1>4. ASSUME epReady' # {} PROVE epEvent'
    <2>1. epReady # {}
        BY Zenon, <1>3, <1>4
    <2>2. epEvent
        BY Zenon, <1>1, <2>1 DEF ReadyKept
    <2>3. epEvent' = epEvent
        BY Zenon, <1>4 DEF process_ready
    <2> QED BY Zenon, <2>2, <2>3
<1>5. console_chpoll' <=> console_chpoll
    BY Zenon DEF console_chpoll
<1>6. LeftInPollhead'
    BY Zenon, <1>1 DEF LeftInPollhead
<1>7. ReadyKept'
    BY Zenon, <1>1, <1>2, <1>3, <1>4, <1>5 DEF ReadyKept
<1> QED BY Zenon, <1>6, <1>7

(* ex_service_epoll_wait references the epoll's file and looks at its list.  *)
LEMMA WaitBegins ==
    ASSUME EpInv, NEW t \in EpThreads, ex_service_epoll_wait(t), epCall[t].pc = "user"
    PROVE  EpInv'
<1>1. /\ EpTypes /\ EpFile \in EpFiles /\ EpFile \in epOpen /\ process_ready
      /\ epRefs' = [epRefs EXCEPT ![EpFile] = @ + 1]
      /\ UNCHANGED <<in_buf_len, epInput, epWatches, epPollers, epFileList, epOpen>>
    BY CallFacts DEF ex_service_epoll_wait, desc_to_epoll
<1>2. PICK p \in {"waited", "waiting"} : EpGoto(t, p)
    <2>1. CASE EpGoto(t, "waited")
        BY <2>1
    <2>2. CASE EpGoto(t, "waiting")
        BY <2>2
    <2> QED BY <2>1, <2>2 DEF ex_service_epoll_wait
<1>3. /\ epRefs'[EpFile] = epRefs[EpFile] + 1
      /\ \A g \in EpFiles : g # EpFile => epRefs'[g] = epRefs[g]
      /\ epRefs' \in [EpFiles -> Int]
    BY <1>1 DEF EpTypes
<1>4. /\ p \in HasEpoll /\ p \notin HasFile /\ p \notin Adding /\ p \notin Closing /\ p \notin Deleting
      /\ [pc |-> p, file |-> EpFile] \in EpCalls
    BY DEF HasEpoll, HasFile, Adding, Closing, Deleting, EpCalls, EpFiles
<1>5. /\ OnlyMoves(t) /\ epCall' \in [EpThreads -> EpCalls]
      /\ epCall'[t].pc = p /\ epCall'[t].file = epCall[t].file
    BY Zenon, <1>1, <1>2, <1>4, GotoValues
<1>6. EpTypes'
    BY Zenon, <1>1, <1>3, <1>5 DEF EpTypes
<1>7. ASSUME NEW g \in EpFiles PROVE Counted(g)'
    <2>1. Counted(g)
        BY Zenon DEF EpInv
    <2>2. CASE g = EpFile
        <3>1. Holds(t, g)'
            BY Zenon, <1>4, <1>5, <2>2 DEF Holds
        <3>2. EpHolders(g)' = EpHolders(g) \cup {t}
            BY Zenon, <1>5, <3>1, HoldersMove
        <3>3. epRefs'[g] = epRefs[g] + 1
            BY Zenon, <1>3, <2>2
        <3> QED BY Zenon, <1>1, <2>1, <3>2, <3>3, CountTaken
    <2>3. CASE g # EpFile
        <3>1. ~Holds(t, g)'
            BY Zenon, <1>4, <1>5, <2>3 DEF Holds
        <3>2. EpHolders(g)' \subseteq EpHolders(g)
            BY Zenon, <1>5, <3>1, HoldersMove
        <3>3. epRefs'[g] = epRefs[g]
            BY Zenon, <1>3, <2>3
        <3> QED BY Zenon, <1>1, <1>6, <2>1, <3>2, <3>3, CountKept
    <2> QED BY Zenon, <2>2, <2>3
<1>8. \A g \in EpFiles : epRefs[g] <= 0 => epRefs'[g] <= 0
    <2>1. \A g \in EpFiles : epRefs[g] <= 0 => g \notin epOpen
        BY Zenon, <1>1, NobodyHolds DEF EpInv
    <2> QED BY Zenon, <1>1, <1>3, <2>1
<1>9. CallOf(t)'
    BY Zenon, <1>4, <1>5 DEF CallOf
<1>10. \A u \in EpThreads : CallOf(u)'
    BY Zenon, <1>1, <1>5, <1>8, <1>9, CallsAside
<1>11. \A g \in Watched : BeingAdded(g) => BeingAdded(g)'
    BY <1>5, AddersStay
<1>12. LeftInPollhead' /\ ReadyKept'
    BY Zenon, <1>1, <1>11, ProcessReadyStep
<1> QED BY Zenon, <1>6, <1>7, <1>10, <1>12 DEF EpInv

(* The wait ends, by a timeout or by the event.                              *)
LEMMA WaitStep ==
    ASSUME EpInv, NEW t \in EpThreads, ex_service_epoll_wait(t), epCall[t].pc # "user"
    PROVE  EpInv'
<1>1. /\ EpTypes /\ epWatches \subseteq Watched /\ epCall[t].pc \in {"waiting", "woken"}
      /\ UNCHANGED <<in_buf_len, epInput, epWatches, epPollers, epFileList, epRefs, epOpen>>
      /\ process_ready \/ UNCHANGED <<epReady, epEvent>>
    BY CallFacts DEF ex_service_epoll_wait
<1>2. PICK p \in {"waited", "woken"} : EpGoto(t, p)
    <2>1. CASE EpGoto(t, "waited")
        BY <2>1
    <2>2. CASE EpGoto(t, "woken")
        BY <2>2
    <2> QED BY <2>1, <2>2 DEF ex_service_epoll_wait
<1>3. /\ p \notin HasFile /\ p \notin Adding /\ p \notin Closing /\ p \notin Deleting
      /\ [pc |-> p, file |-> EpFile] \in EpCalls
      /\ epCall[t].pc \in HasEpoll /\ epCall[t].pc \notin {"register", "poll", "ready"}
    BY <1>1 DEF HasEpoll, HasFile, Adding, Closing, Deleting, EpCalls, EpFiles
<1>4. epCall'[t].pc = p
    BY Zenon, <1>1, <1>2, GotoValues
<1>5. CallOf(t)'
    BY Zenon, <1>3, <1>4 DEF CallOf
<1>6. epWatches \subseteq epWatches' /\ epWatches' \subseteq Watched
    BY Zenon, <1>1
<1>7. /\ EpTypes' /\ OnlyMoves(t)
      /\ \A g \in EpFiles : Counted(g)'
      /\ \A u \in EpThreads : CallOf(u)'
    BY Zenon, <1>1, <1>2, <1>3, <1>5, <1>6, GotoAside
<1>8. \A g \in Watched : BeingAdded(g) => BeingAdded(g)'
    BY Zenon, <1>3, <1>7, AddersStay
<1>9. LeftInPollhead' /\ ReadyKept'
    BY Zenon, <1>1, <1>6, <1>8, ProcessReadyStep, ListsAside
<1> QED BY Zenon, <1>7, <1>9 DEF EpInv

(* t has dropped a reference to f, and is at p or tears the file down *)
Dropped(t, f, p) ==
    /\ OnlyMoves(t) /\ epCall' \in [EpThreads -> EpCalls]
    /\ epRefs' \in [EpFiles -> Int] /\ epRefs'[f] = epRefs[f] - 1
    /\ \A g \in EpFiles : g # f => epRefs'[g] = epRefs[g]
    /\ \A g \in EpFiles : epRefs[g] <= 0 => epRefs'[g] <= 0
    /\ \/ epCall'[t].pc = p
       \/ /\ epCall'[t].pc = (IF f = EpFile THEN "delete" ELSE "free")
          /\ epCall'[t].file = f /\ epRefs'[f] <= 0

(* A reference is dropped; with the last one the file is torn down.          *)
LEMMA DropValues ==
    ASSUME EpTypes, NEW t \in EpThreads, NEW f \in EpFiles, NEW next \in EpCalls, Drop(t, f, next)
    PROVE  Dropped(t, f, next.pc)
<1>1. /\ epRefs' \in [EpFiles -> Int] /\ epRefs'[f] = epRefs[f] - 1 /\ epRefs[f] \in Int
      /\ \A g \in EpFiles : g # f => epRefs'[g] = epRefs[g]
      /\ \A g \in EpFiles : epRefs[g] <= 0 => epRefs'[g] <= 0
    BY DEF EpTypes, Drop
<1>2. PICK c : /\ epCall' = [epCall EXCEPT ![t] = c]
               /\ c = IF epRefs[f] > 1 THEN next
                      ELSE IF f = EpFile THEN [pc |-> "delete", file |-> EpFile]
                      ELSE [pc |-> "free", file |-> f]
    BY Zenon DEF Drop
<1>3. \/ c = next
      \/ f = EpFile /\ c = [pc |-> "delete", file |-> f] /\ epRefs'[f] <= 0
      \/ f # EpFile /\ c = [pc |-> "free", file |-> f] /\ epRefs'[f] <= 0
    BY <1>1, <1>2
<1>4. [pc |-> "delete", file |-> f] \in EpCalls /\ [pc |-> "free", file |-> f] \in EpCalls
    BY DEF EpCalls, Closing, Deleting
<1>5. c \in EpCalls
    BY Zenon, <1>3, <1>4
<1>6. OnlyMoves(t) /\ epCall'[t] = c /\ epCall' \in [EpThreads -> EpCalls]
    BY Zenon, <1>2, <1>5, MoveValues
<1>7. \/ epCall'[t].pc = next.pc
      \/ /\ epCall'[t].pc = (IF f = EpFile THEN "delete" ELSE "free")
         /\ epCall'[t].file = f /\ epRefs'[f] <= 0
    BY <1>3, <1>6
<1> QED BY Zenon, <1>1, <1>6, <1>7 DEF Dropped

(* where a thread goes that has dropped a reference *)
DropPc == {"user", "waited", "delete", "free"}

(* The thread that dropped it is where the invariant allows it to be.        *)
LEMMA DropCall ==
    ASSUME EpInv, EpTypes', NEW t \in EpThreads, NEW f \in EpFiles,
           NEW p \in {"user", "waited"}, NEW next \in EpCalls, next.pc = p,
           Drop(t, f, next), UNCHANGED epWatches
    PROVE  /\ OnlyMoves(t) /\ CallOf(t)' /\ epCall'[t].pc \in DropPc
           /\ epCall'[t].pc = "waited" => p = "waited"
           /\ \A u \in EpThreads : CallOf(u)'
<1>1. /\ EpTypes /\ EpFile \notin Watched /\ EpFile \in EpFiles
    BY Zenon, CallFacts
<1>2. f # EpFile => f \in Watched
    BY Zenon DEF EpFiles
<1>3. Dropped(t, f, p)
    BY Zenon, <1>1, DropValues
<1>4. OnlyMoves(t) /\ \A g \in EpFiles : epRefs[g] <= 0 => epRefs'[g] <= 0
    BY Zenon, <1>3 DEF Dropped
<1>5. \/ epCall'[t].pc = p
      \/ f = EpFile /\ epCall'[t].pc = "delete" /\ epCall'[t].file = f /\ epRefs'[f] <= 0
      \/ f # EpFile /\ epCall'[t].pc = "free" /\ epCall'[t].file = f /\ epRefs'[f] <= 0
    BY Zenon, <1>3 DEF Dropped
<1>6. /\ {"user", "waited"} \cap (HasFile \union Adding \union Closing \union Deleting) = {}
      /\ "delete" \notin HasFile \union Adding \union Closing
      /\ "free" \notin HasFile \union Adding \union Deleting
    BY DEF HasFile, Adding, Closing, Deleting
<1>7. CallOf(t)'
    BY Zenon, <1>2, <1>5, <1>6 DEF CallOf
<1>8. epCall'[t].pc \in DropPc /\ (epCall'[t].pc = "waited" => p = "waited")
    BY <1>5 DEF DropPc
<1>9. epWatches \subseteq epWatches'
    BY Zenon
<1> QED BY Zenon, <1>4, <1>7, <1>8, <1>9, CallsAside

(* A descriptor is closed.                                                   *)
LEMMA CloseStep ==
    ASSUME EpInv, NEW t \in EpThreads, NEW f \in EpFiles, EpClose(t, f)
    PROVE  EpInv'
<1>0. PICK next : next = EpUser
    OBVIOUS
<1>1. /\ EpTypes /\ EpFile \in EpFiles /\ epCall[t].pc = "user" /\ f \in epOpen
      /\ epOpen' = epOpen \ {f} /\ Drop(t, f, next)
      /\ UNCHANGED <<in_buf_len, epInput, epWatches, epPollers, epReady, epEvent, epFileList>>
    BY Zenon, <1>0, CallFacts DEF EpClose
<1>2. next \in EpCalls /\ next.pc = "user"
    BY <1>0, <1>1 DEF EpCalls, EpUser
<1>3. /\ OnlyMoves(t) /\ epCall' \in [EpThreads -> EpCalls]
      /\ epRefs' \in [EpFiles -> Int] /\ epRefs'[f] = epRefs[f] - 1
      /\ \A g \in EpFiles : g # f => epRefs'[g] = epRefs[g]
    BY ZenonT(30), <1>1, <1>2, DropValues DEF Dropped
<1>4. EpTypes'
    BY Zenon, <1>1, <1>3 DEF EpTypes
<1>5. /\ epCall'[t].pc \in DropPc /\ epCall'[t].pc # "waited"
      /\ \A u \in EpThreads : CallOf(u)'
  <2>1. "user" \in {"user", "waited"} /\ "user" # "waited"
    OBVIOUS
  <2> QED BY Zenon, <1>1, <1>2, <1>4, <2>1, DropCall
<1>6. /\ epCall'[t].pc \notin HasEpoll /\ epCall'[t].pc \notin HasFile
      /\ epCall[t].pc \notin HasEpoll /\ epCall[t].pc \notin HasFile
      /\ epCall[t].pc \notin {"register", "poll", "ready"}
    BY <1>1, <1>5 DEF DropPc, HasEpoll, HasFile, Adding
<1>7. ASSUME NEW g \in EpFiles PROVE Counted(g)'
    <2>1. Counted(g)
        BY Zenon DEF EpInv
    <2>2. EpHolders(g)' = EpHolders(g)
        BY Zenon, <1>3, <1>6, HoldersMove DEF Holds
    <2>3. CASE g = f
        BY Zenon, <1>1, <1>3, <2>1, <2>2, <2>3, CountClosed
    <2>4. CASE g # f
        <3>1. g \in epOpen' => g \in epOpen
            BY Zenon, <1>1
        <3>2. EpHolders(g)' \subseteq EpHolders(g) /\ epRefs'[g] = epRefs[g]
            BY Zenon, <1>3, <2>2, <2>4
        <3> QED BY Zenon, <1>1, <1>4, <2>1, <3>1, <3>2, CountKept
    <2> QED BY Zenon, <2>3, <2>4
<1>8. \A g \in Watched : BeingAdded(g) => BeingAdded(g)'
    BY Zenon, <1>3, <1>6, AddersStay
<1>9. LeftInPollhead' /\ ReadyKept'
    BY Zenon, <1>1, <1>8, ListsAside
<1> QED BY Zenon, <1>4, <1>5, <1>7, <1>9 DEF EpInv

(* epoll_ctl drops its reference to the watched file.                        *)
LEMMA ReleaseFile ==
    ASSUME EpInv, NEW t \in EpThreads, EpRelease(t), epCall[t].pc = "added"
    PROVE  EpInv'
<1>0. PICK next : next = [pc |-> "waited", file |-> EpFile]
    BY Zenon
<1>1. PICK f : f = epCall[t].file
    OBVIOUS
<1>2. /\ EpTypes /\ CallOf(t) /\ EpFile \in EpFiles /\ EpFile \notin Watched /\ f \in EpFiles
      /\ Drop(t, f, next)
      /\ UNCHANGED <<in_buf_len, epInput, epWatches, epPollers, epReady, epEvent, epFileList, epOpen>>
    BY <1>0, <1>1, CallFacts DEF EpRelease
<1>3. next \in EpCalls /\ next.pc = "waited"
    BY <1>0, <1>2 DEF EpCalls, HasEpoll
<1>4. /\ OnlyMoves(t) /\ epCall' \in [EpThreads -> EpCalls]
      /\ epRefs' \in [EpFiles -> Int] /\ epRefs'[f] = epRefs[f] - 1
      /\ \A g \in EpFiles : g # f => epRefs'[g] = epRefs[g]
    BY ZenonT(30), <1>2, <1>3, DropValues DEF Dropped
<1>5. EpTypes'
    BY Zenon, <1>2, <1>4 DEF EpTypes
<1>6. /\ epCall'[t].pc \in DropPc
      /\ \A u \in EpThreads : CallOf(u)'
  <2>1. "waited" \in {"user", "waited"}
    OBVIOUS
  <2> QED BY Zenon, <1>2, <1>3, <1>5, <2>1, DropCall
<1>7. /\ epCall'[t].pc \notin HasFile /\ epCall[t].pc \in HasFile /\ epCall[t].pc \in HasEpoll
      /\ epCall[t].pc \notin {"register", "poll", "ready"}
    BY <1>6 DEF DropPc, HasEpoll, HasFile, Adding
<1>8. f \in Watched /\ f # EpFile
    BY Zenon, <1>1, <1>2, <1>7 DEF CallOf
<1>9. ASSUME NEW g \in EpFiles PROVE Counted(g)'
    <2>1. Counted(g)
        BY Zenon DEF EpInv
    <2>2. CASE g = f
        <3>1. Holds(t, g) /\ ~Holds(t, g)'
            BY Zenon, <1>1, <1>7, <1>8, <2>2 DEF Holds
        <3>2. t \in EpHolders(g) /\ EpHolders(g)' = EpHolders(g) \ {t}
            BY Zenon, <1>4, <3>1, HoldersMove
        <3> QED BY Zenon, <1>2, <1>4, <2>1, <2>2, <3>2, CountDropped
    <2>3. CASE g # f
        <3>1. Holds(t, g)' => Holds(t, g)
            BY Zenon, <1>7 DEF Holds
        <3>2. EpHolders(g)' \subseteq EpHolders(g) /\ epRefs'[g] = epRefs[g]
            BY Zenon, <1>4, <2>3, <3>1, HoldersMove
        <3> QED BY Zenon, <1>2, <1>5, <2>1, <3>2, CountKept
    <2> QED BY Zenon, <2>2, <2>3
<1>10. \A g \in Watched : BeingAdded(g) => BeingAdded(g)'
    BY Zenon, <1>4, <1>7, AddersStay
<1>11. LeftInPollhead' /\ ReadyKept'
    BY Zenon, <1>2, <1>10, ListsAside
<1> QED BY Zenon, <1>5, <1>6, <1>9, <1>11 DEF EpInv

(* epoll_ctl and epoll_wait drop their reference to the epoll's file.        *)
LEMMA ReleaseEpoll ==
    ASSUME EpInv, NEW t \in EpThreads, EpRelease(t), epCall[t].pc # "added"
    PROVE  EpInv'
<1>0. PICK next : next = EpUser
    BY Zenon
<1>1. PICK f : f = EpFile
    OBVIOUS
<1>2. /\ EpTypes /\ f \in EpFiles /\ epCall[t].pc = "waited"
      /\ Drop(t, f, next)
      /\ UNCHANGED <<in_buf_len, epInput, epWatches, epPollers, epReady, epEvent, epFileList, epOpen>>
    BY Zenon, <1>0, <1>1, CallFacts DEF EpRelease
<1>3. next \in EpCalls /\ next.pc = "user"
    BY <1>0, <1>1, <1>2 DEF EpCalls, EpUser
<1>4. /\ OnlyMoves(t) /\ epCall' \in [EpThreads -> EpCalls]
      /\ epRefs' \in [EpFiles -> Int] /\ epRefs'[f] = epRefs[f] - 1
      /\ \A g \in EpFiles : g # f => epRefs'[g] = epRefs[g]
    BY ZenonT(30), <1>2, <1>3, DropValues DEF Dropped
<1>5. EpTypes'
    BY Zenon, <1>2, <1>4 DEF EpTypes
<1>6. /\ epCall'[t].pc \in DropPc /\ epCall'[t].pc # "waited"
      /\ \A u \in EpThreads : CallOf(u)'
  <2>1. "user" \in {"user", "waited"} /\ "user" # "waited"
    OBVIOUS
  <2> QED BY Zenon, <1>2, <1>3, <1>5, <2>1, DropCall
<1>7. /\ epCall'[t].pc \notin HasFile /\ epCall'[t].pc \notin HasEpoll /\ epCall[t].pc \in HasEpoll
      /\ epCall[t].pc \notin {"register", "poll", "ready"}
    BY <1>2, <1>6 DEF DropPc, HasEpoll, HasFile, Adding
<1>8. ASSUME NEW g \in EpFiles PROVE Counted(g)'
    <2>1. Counted(g)
        BY Zenon DEF EpInv
    <2>2. ~Holds(t, g)'
        BY Zenon, <1>7 DEF Holds
    <2>3. CASE g = f
        <3>1. Holds(t, g)
            BY Zenon, <1>1, <1>7, <2>3 DEF Holds
        <3>2. t \in EpHolders(g) /\ EpHolders(g)' = EpHolders(g) \ {t}
            BY Zenon, <1>4, <2>2, <3>1, HoldersMove
        <3> QED BY Zenon, <1>2, <1>4, <2>1, <2>3, <3>2, CountDropped
    <2>4. CASE g # f
        <3>1. EpHolders(g)' \subseteq EpHolders(g) /\ epRefs'[g] = epRefs[g]
            BY Zenon, <1>4, <2>2, <2>4, HoldersMove
        <3> QED BY Zenon, <1>2, <1>5, <2>1, <3>1, CountKept
    <2> QED BY Zenon, <2>3, <2>4
<1>9. \A g \in Watched : BeingAdded(g) => BeingAdded(g)'
    BY Zenon, <1>4, <1>7, AddersStay
<1>10. LeftInPollhead' /\ ReadyKept'
    BY Zenon, <1>2, <1>9, ListsAside
<1> QED BY Zenon, <1>5, <1>6, <1>8, <1>10 DEF EpInv

(* An entry is taken off the pollhead's list while nobody walks it.          *)
LEMMA UnregisterStep ==
    ASSUME EpInv, NEW t, NEW f, pollhead_unregister(t, f),
           UNCHANGED <<in_buf_len, epInput, epRefs, epOpen, epCall>>
    PROVE  EpInv'
<1>1. /\ EpTypes /\ LeftInPollhead /\ ReadyKept
      /\ epInput.pc # "delivering" /\ epPollers' = epPollers \ {f}
      /\ UNCHANGED <<epWatches, epReady, epEvent, epFileList>>
    BY Zenon DEF EpInv, pollhead_unregister, PollheadFree
<1>2. EpTypes'
    BY Zenon, <1>1 DEF EpTypes
<1>3. /\ \A g \in EpFiles : Counted(g)'
      /\ \A u \in EpThreads : CallOf(u)'
      /\ \A g : BeingAdded(g)' <=> BeingAdded(g)
    BY Zenon, <1>1, <1>2, NobodyMoves
<1>4. epInput.left = {}
    BY Zenon, <1>1 DEF LeftInPollhead
<1>5. LeftInPollhead'
    BY Zenon, <1>4 DEF LeftInPollhead
<1>6. \A g \in epPollers' : console_chpoll' =>
          g \in epReady' \/ BeingAdded(g)' \/ epInput'.pc = "buffered" \/ g \in epInput'.left
    BY Zenon, <1>1, <1>3 DEF ReadyKept, console_chpoll
<1>7. ReadyKept'
    BY Zenon, <1>1, <1>6 DEF ReadyKept
<1> QED BY Zenon, <1>2, <1>3, <1>5, <1>7 DEF EpInv

(* The watch of a file that is off that list, and that nobody adds, is deleted. *)
LEMMA WatchDelStep ==
    ASSUME EpInv, NEW t, NEW f, watch_del(t, f), f \notin epPollers,
           \A u \in EpThreads : epCall[u].pc \in Adding => epCall[u].file # f,
           UNCHANGED <<in_buf_len, epInput, epRefs, epOpen, epCall>>
    PROVE  EpInv'
<1>1. /\ EpTypes /\ LeftInPollhead /\ ReadyKept
      /\ epFileList' = epFileList \ {f} /\ epReady' = epReady \ {f} /\ epWatches' = epWatches \ {f}
      /\ UNCHANGED <<epPollers, epEvent>>
    BY Zenon DEF EpInv, watch_del
<1>2. EpTypes'
    BY Zenon, <1>1 DEF EpTypes
<1>3. ASSUME NEW g \in EpFiles PROVE Counted(g)'
    <2>1. EpHolders(g)' = EpHolders(g) /\ Descriptor(g)' = Descriptor(g)
        BY Zenon DEF EpHolders, Holds, Descriptor
    <2>2. Counted(g)
        BY Zenon DEF EpInv
    <2> QED BY Zenon, <2>1, <2>2 DEF Counted
<1>4. ASSUME NEW u \in EpThreads PROVE CallOf(u)'
    <2>1. CallOf(u)
        BY Zenon DEF EpInv
    <2>2. epCall[u].pc \in Adding => epCall[u].file \in epWatches'
        BY Zenon, <1>1, <2>1 DEF CallOf
    <2> QED BY Zenon, <2>1, <2>2 DEF CallOf
<1>5. LeftInPollhead'
    BY Zenon, <1>1 DEF LeftInPollhead
<1>6. \A g : BeingAdded(g)' <=> BeingAdded(g)
    BY Zenon DEF BeingAdded
<1>7. \A g \in epPollers' : console_chpoll' =>
          g \in epReady' \/ BeingAdded(g)' \/ epInput'.pc = "buffered" \/ g \in epInput'.left
    BY Zenon, <1>1, <1>6 DEF ReadyKept, console_chpoll
<1>8. epInput.left \subseteq epPollers
    BY Zenon, <1>1 DEF LeftInPollhead
<1>9. epPollers' \union epReady' \union epFileList' \union epInput'.left \subseteq epWatches'
    BY Zenon, <1>1, <1>8 DEF ReadyKept
<1>10. ASSUME epReady' # {} PROVE epEvent'
    <2>1. epReady # {}
        BY Zenon, <1>1, <1>10
    <2>2. epEvent /\ epEvent' = epEvent
        BY Zenon, <1>1, <2>1 DEF ReadyKept
    <2> QED BY Zenon, <2>2
<1>11. ReadyKept'
    BY Zenon, <1>7, <1>9, <1>10 DEF ReadyKept
<1> QED BY Zenon, <1>2, <1>3, <1>4, <1>5, <1>11 DEF EpInv

(* A thread that is tearing a file down goes on, and no list changes.        *)
LEMMA TeardownGoto ==
    ASSUME EpInv, NEW t \in EpThreads, NEW p, EpGoto(t, p),
           \/ epCall[t].pc \in Closing /\ p \in Closing
           \/ epCall[t].pc \in Deleting /\ p \in Deleting,
           UNCHANGED <<in_buf_len, epInput, epRefs, epOpen, epLists>>
    PROVE  EpInv'
<1>1. EpTypes /\ CallOf(t) /\ epWatches \subseteq epWatches' /\ epWatches' \subseteq Watched
    BY Zenon, CallFacts
<1>2. /\ p \notin HasEpoll /\ p \notin HasFile /\ p \notin Adding
      /\ [pc |-> p, file |-> EpFile] \in EpCalls
      /\ epCall[t].pc \notin {"register", "poll", "ready"}
      /\ p \in Closing => p \notin Deleting /\ epCall[t].pc \in Closing
      /\ p \in Deleting => epCall[t].pc \in Deleting
    BY DEF HasEpoll, HasFile, Adding, Closing, Deleting, EpCalls, EpFiles
<1>3. epCall'[t].pc = p /\ epCall'[t].file = epCall[t].file
    BY Zenon, <1>1, GotoValues
<1>4. CallOf(t)'
    BY Zenon, <1>1, <1>2, <1>3 DEF CallOf
<1>5. /\ EpTypes' /\ OnlyMoves(t)
      /\ \A f \in EpFiles : Counted(f)'
      /\ \A u \in EpThreads : CallOf(u)'
    BY Zenon, <1>1, <1>2, <1>4, GotoAside
<1>6. \A g \in Watched : BeingAdded(g) => BeingAdded(g)'
    BY Zenon, <1>2, <1>5, AddersStay
<1>7. LeftInPollhead' /\ ReadyKept'
    BY Zenon, <1>1, <1>6, ListsAside
<1> QED BY Zenon, <1>5, <1>7 DEF EpInv

(* Nothing that the invariant speaks of changes.                             *)
LEMMA EpStutter ==
    ASSUME EpInv, UNCHANGED <<in_buf_len, epInput, epRefs, epOpen, epCall, epLists>>
    PROVE  EpInv'
<1>1. EpTypes /\ LeftInPollhead /\ ReadyKept
    BY Zenon DEF EpInv
<1>2. EpTypes'
    BY Zenon, <1>1 DEF EpTypes
<1>3. /\ \A g \in EpFiles : Counted(g)'
      /\ \A u \in EpThreads : CallOf(u)'
      /\ \A g : BeingAdded(g)' <=> BeingAdded(g)
    BY Zenon, <1>2, NobodyMoves
<1>4. LeftInPollhead' /\ ReadyKept'
    BY Zenon, <1>3, ListsAside
<1> QED BY Zenon, <1>2, <1>3, <1>4 DEF EpInv

(* The epoll is deleted: nobody has a reference to it, so nobody adds a watch. *)
LEMMA DeleteStep ==
    ASSUME EpInv, NEW t \in EpThreads, epoll_delete(t)
    PROVE  EpInv'
<1>1. /\ EpTypes /\ CallOf(t) /\ EpFile \in EpFiles /\ epCall[t].file = EpFile
      /\ UNCHANGED <<in_buf_len, epInput, epRefs, epOpen>>
    BY Zenon, CallFacts DEF epoll_delete
<1>2. {"delete", "deleting"} \subseteq Deleting
    BY DEF Deleting
<1>3. CASE epCall[t].pc = "delete"
    <2>1. EpGoto(t, "deleting") /\ UNCHANGED epLists
        BY <1>3 DEF epoll_delete
    <2> QED BY Zenon, <1>1, <1>2, <1>3, <2>1, TeardownGoto
<1>4. CASE epCall[t].pc = "deleting" /\ epWatches = {}
    <2>1. Leave(t) /\ UNCHANGED epLists
        BY <1>4 DEF epoll_delete
    <2>2. EpUser \in EpCalls /\ EpUser.pc = "user"
        BY <1>1 DEF EpUser, EpCalls
    <2>3. OnlyMoves(t) /\ epCall'[t] = EpUser /\ epCall' \in [EpThreads -> EpCalls]
        BY Zenon, <1>1, <2>1, <2>2, MoveValues DEF Leave
    <2>4. /\ "user" \notin HasFile /\ "user" \notin HasEpoll /\ "user" \notin Adding
          /\ "user" \notin Closing /\ "user" \notin Deleting
          /\ "deleting" \notin {"register", "poll", "ready"}
        BY DEF HasEpoll, HasFile, Adding, Closing, Deleting
    <2>5. EpTypes'
        BY Zenon, <1>1, <2>1, <2>3 DEF EpTypes
    <2>6. \A g \in EpFiles : Holds(t, g)' => Holds(t, g)
        BY Zenon, <2>2, <2>3, <2>4 DEF Holds
    <2>7. \A g \in EpFiles : Counted(g)'
        BY Zenon, <1>1, <2>3, <2>5, <2>6, RefsAside
    <2>8. CallOf(t)'
        BY Zenon, <2>2, <2>3, <2>4 DEF CallOf
    <2>9. \A u \in EpThreads : CallOf(u)'
        BY Zenon, <1>1, <2>1, <2>3, <2>8, CallsAside
    <2>10. \A g \in Watched : BeingAdded(g) => BeingAdded(g)'
        BY Zenon, <1>4, <2>3, <2>4, AddersStay
    <2>11. LeftInPollhead' /\ ReadyKept'
        BY Zenon, <1>1, <2>1, <2>10, ListsAside
    <2> QED BY Zenon, <2>5, <2>7, <2>9, <2>11 DEF EpInv
<1>5. CASE epCall[t].pc = "deleting" /\ epWatches # {}
    <2>1. PICK f : \/ pollhead_unregister(t, f)
                   \/ watch_del(t, f) /\ f \notin epPollers
                   \/ UNCHANGED epLists
        BY Zenon, <1>5 DEF epoll_delete
    <2>2. UNCHANGED epCall
        BY <1>5 DEF epoll_delete
    <2>3. ASSUME NEW u \in EpThreads PROVE epCall[u].pc \notin Adding
        <3>1. epRefs[EpFile] <= 0
            BY Zenon, <1>1, <1>2, <1>5 DEF CallOf
        <3>2. Counted(EpFile)
            BY Zenon, <1>1 DEF EpInv
        <3>3. ~Holds(u, EpFile)
            BY Zenon, <1>1, <3>1, <3>2, NobodyHolds
        <3>4. epCall[u].pc \notin HasEpoll
            BY Zenon, <3>3 DEF Holds
        <3> QED BY Zenon, <3>4 DEF HasEpoll, HasFile
    <2>4. CASE pollhead_unregister(t, f)
        BY Zenon, <1>1, <2>2, <2>4, UnregisterStep
    <2>5. CASE watch_del(t, f) /\ f \notin epPollers
        BY Zenon, <1>1, <2>2, <2>3, <2>5, WatchDelStep
    <2>6. CASE UNCHANGED epLists
        BY Zenon, <1>1, <2>2, <2>6, EpStutter
    <2> QED BY Zenon, <2>1, <2>4, <2>5, <2>6
<1> QED BY Zenon, <1>3, <1>4, <1>5 DEF epoll_delete

(* A watched file is closed: nobody has a reference to it, so nobody adds it. *)
LEMMA DidCloseStep ==
    ASSUME EpInv, NEW t \in EpThreads, poll_watched_file_did_close(t)
    PROVE  EpInv'
<1>0. PICK f : f = epCall[t].file
    OBVIOUS
<1>1. /\ EpTypes /\ CallOf(t) /\ Watched \subseteq EpFiles /\ EpFile \notin Watched
      /\ UNCHANGED <<in_buf_len, epInput, epRefs, epOpen>>
    BY Zenon, CallFacts DEF poll_watched_file_did_close
<1>2. {"free", "teardown", "closing", "released"} \subseteq Closing
    BY DEF Closing
<1>3. CASE epCall[t].pc = "free"
    <2>1. PICK p \in {"teardown", "released"} : EpGoto(t, p)
        <3>1. CASE EpGoto(t, "teardown")
            BY <3>1
        <3>2. CASE EpGoto(t, "released")
            BY <3>2
        <3> QED BY <1>3, <3>1, <3>2 DEF poll_watched_file_did_close
    <2>2. UNCHANGED epLists
        BY <1>3 DEF poll_watched_file_did_close
    <2> QED BY Zenon, <1>1, <1>2, <1>3, <2>1, <2>2, TeardownGoto
<1>4. CASE epCall[t].pc = "teardown"
    <2>1. EpGoto(t, "closing") /\ UNCHANGED epLists
        BY <1>4 DEF poll_watched_file_did_close
    <2> QED BY Zenon, <1>1, <1>2, <1>4, <2>1, TeardownGoto
<1>5. CASE epCall[t].pc = "closing" /\ f \notin epFileList
    <2>1. EpGoto(t, "released") /\ UNCHANGED epLists
        BY <1>0, <1>5 DEF poll_watched_file_did_close
    <2> QED BY Zenon, <1>1, <1>2, <1>5, <2>1, TeardownGoto
<1>6. CASE epCall[t].pc = "closing" /\ f \in epFileList
    <2>1. /\ UNCHANGED epCall
          /\ pollhead_unregister(t, f) \/ (watch_del(t, f) /\ f \notin epPollers)
        <3>1. epCall[t].pc # "free" /\ epCall[t].pc # "teardown"
            BY <1>6
        <3> QED BY Zenon, <1>0, <1>6, <3>1 DEF poll_watched_file_did_close
    <2>2. ASSUME NEW u \in EpThreads, epCall[u].pc \in Adding PROVE epCall[u].file # f
        <3>1. f \in Watched /\ epRefs[f] <= 0
            BY Zenon, <1>0, <1>1, <1>2, <1>6 DEF CallOf
        <3>2. f \in EpFiles /\ Counted(f)
            BY Zenon, <1>1, <3>1 DEF EpInv
        <3>3. ~Holds(u, f)
            BY Zenon, <1>1, <3>1, <3>2, NobodyHolds
        <3> QED BY Zenon, <1>1, <2>2, <3>1, <3>3 DEF Holds, HasFile
    <2>3. CASE pollhead_unregister(t, f)
        BY Zenon, <1>1, <2>1, <2>3, UnregisterStep
    <2>4. CASE watch_del(t, f) /\ f \notin epPollers
        BY Zenon, <1>1, <2>1, <2>2, <2>4, WatchDelStep
    <2> QED BY Zenon, <2>1, <2>3, <2>4
<1> QED BY Zenon, <1>3, <1>4, <1>5, <1>6 DEF poll_watched_file_did_close

(* The invariant holds at first.                                             *)
LEMMA EpStart == EpInit => EpInv
<1> SUFFICES ASSUME EpInit PROVE EpInv
    OBVIOUS
<1>1. /\ in_buf_len = 0 /\ epInput = [pc |-> "idle", left |-> {}] /\ epPollers = {}
      /\ epWatches = {} /\ epReady = {} /\ epFileList = {}
      /\ epRefs = [f \in EpFiles |-> 1] /\ epOpen = EpFiles
      /\ epCall = [t \in EpThreads |-> EpUser]
    BY DEF EpInit, ex_console_init, pollhead_init, EpFiles
<1>2. EpUser \in EpCalls /\ EpUser.pc = "user"
    BY DEF EpUser, EpCalls, EpFiles
<1>3. epInput.left = {}
    BY <1>1
<1>4. EpTypes
    <2>1. epInput \in [pc : {"idle", "buffered", "delivering"}, left : SUBSET Watched]
        BY <1>1
    <2>2. epRefs \in [EpFiles -> Int] /\ epCall \in [EpThreads -> EpCalls]
        BY <1>1, <1>2
    <2> QED BY <1>1, <2>1, <2>2 DEF EpTypes
<1>5. LeftInPollhead
    BY Zenon, <1>3 DEF LeftInPollhead
<1>6. ReadyKept
    BY Zenon, <1>1, <1>3 DEF ReadyKept
<1>7. /\ "user" \notin HasFile /\ "user" \notin HasEpoll /\ "user" \notin Adding
      /\ "user" \notin Closing /\ "user" \notin Deleting
    BY DEF HasEpoll, HasFile, Adding, Closing, Deleting
<1>8. \A t \in EpThreads : epCall[t].pc = "user"
    BY Zenon, <1>1, <1>2
<1>9. ASSUME NEW f \in EpFiles PROVE Counted(f)
    <2>1. EpHolders(f) = {}
        BY Zenon, <1>7, <1>8 DEF EpHolders, Holds
    <2>2. Cardinality(EpHolders(f)) = 0
        BY Zenon, <2>1, FS_EmptySet
    <2>3. Descriptor(f) = 1 /\ epRefs[f] = 1
        BY Zenon, <1>1 DEF Descriptor
    <2> QED BY <2>2, <2>3 DEF Counted
<1>10. \A t \in EpThreads : CallOf(t)
    BY Zenon, <1>7, <1>8 DEF CallOf
<1> QED BY Zenon, <1>4, <1>5, <1>6, <1>9, <1>10 DEF EpInv

(* Every step preserves it.                                                  *)
LEMMA EpStep == EpInv /\ [EpNext]_epVars => EpInv'
<1> SUFFICES ASSUME EpInv, [EpNext]_epVars PROVE EpInv'
    OBVIOUS
<1>1. CASE UNCHANGED epVars
    <2>1. UNCHANGED <<in_buf_len, epInput, epRefs, epOpen, epCall, epLists>>
        BY Zenon, <1>1 DEF epVars
    <2> QED BY Zenon, <2>1, EpStutter
<1>2. CASE pollhead_deliver_events
    <2>1. epInput.pc \in {"buffered", "delivering"}
        BY <1>2 DEF pollhead_deliver_events
    <2>2. CASE epInput.pc = "buffered"
        BY Zenon, <1>2, <2>2, DeliverBegins
    <2>3. CASE epInput.pc = "delivering"
        BY Zenon, <1>2, <2>3, DeliverNext
    <2> QED BY <2>1, <2>2, <2>3
<1>3. ASSUME NEW t \in EpThreads, NEW f \in Watched,
             console_read(t, f) \/ ex_service_epoll_ctl(t, f)
      PROVE  EpInv'
    BY Zenon, <1>3, ReadStep, CtlStep, CtlFails
<1>4. ASSUME NEW t \in EpThreads, pollhead_register(t) PROVE EpInv'
    <2>1. epCall[t].pc = "register" \/ epCall[t].pc = "poll"
        BY Zenon, <1>4 DEF pollhead_register, RegisterThenPoll
    <2> QED BY Zenon, <1>4, <2>1, RegisterStep, PollStep
<1>5. ASSUME NEW t \in EpThreads, ex_service_epoll_wait(t) PROVE EpInv'
    BY Zenon, <1>5, WaitBegins, WaitStep
<1>6. ASSUME NEW t \in EpThreads, EpRelease(t) PROVE EpInv'
    BY Zenon, <1>6, ReleaseFile, ReleaseEpoll
<1>7. ASSUME NEW t \in EpThreads, console_vn_release(t) PROVE EpInv'
    <2>1. UNCHANGED <<in_buf_len, epInput, epRefs, epOpen, epCall, epLists>>
        BY Zenon, <1>7 DEF console_vn_release
    <2> QED BY Zenon, <2>1, EpStutter
<1>8. ASSUME NEW t \in EpThreads,
             \/ watch_add(t) \/ AddReady(t) \/ LinkToFile(t)
             \/ epoll_delete(t) \/ poll_watched_file_did_close(t)
      PROVE  EpInv'
    BY Zenon, <1>8, WatchAddStep, AddReadyStep, LinkStep, DeleteStep, DidCloseStep
<1>9. ASSUME NEW t \in EpThreads, NEW f \in Watched \union {EpFile}, EpClose(t, f)
      PROVE  EpInv'
    BY Zenon, <1>9, CloseStep DEF EpFiles
<1> QED
    BY Zenon, <1>1, <1>2, <1>3, <1>4, <1>5, <1>6, <1>7, <1>8, <1>9, InputStep DEF EpNext

(* Whatever is typed, added, waited for and closed, and however these steps  *)
(* interleave, a registered watch of a console with input is on the ready    *)
(* list or about to be put there, waiters are woken while the list is not    *)
(* empty, and no list keeps the entry of a watch that is gone (epoll.c), for *)
(* any number of files and threads.                                          *)
THEOREM ReadinessKept == EpSpec => []ReadyKept
<1>1. EpInv => ReadyKept
    BY Zenon DEF EpInv
<1> QED
    BY <1>1, EpStart, EpStep, PTL DEF EpSpec
=============================================================================
