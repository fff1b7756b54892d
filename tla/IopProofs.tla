----------------------------- MODULE IopProofs ------------------------------
(* Every step of iop_continue and iop_send_sync preserves the invariant of   *)
(* Iop, for any number of slave packets.                                     *)
EXTENDS Iop, FiniteSetTheorems, TLAPS

(* the packets and the contexts that move them *)
LEMMA PacketFacts ==
    /\ 0 \in Packets /\ 0 \notin Slaves /\ 1 \in Slaves
    /\ \A i \in Slaves : i \in Packets /\ i # 0 /\ stack_count(i) = 1
    /\ \A i \in Packets : i = 0 \/ i \in Slaves
    /\ Sender \in Contexts /\ NumSlaves \in Slaves /\ stack_count(0) = 2
    /\ \A i, j \in Slaves : i # j <=> j < i \/ i < j
<1>1. NumSlaves \in Nat \ {0}
    BY Zenon, IopAssumption
<1> QED BY <1>1 DEF Packets, Slaves, Sender, Contexts, stack_count

(* the fields of a context and of a packet *)
LEMMA FieldTypes ==
    ASSUME IopTypes
    PROVE  /\ \A c \in Contexts : iopCtx[c].iop \in Packets
           /\ \A i \in Packets : /\ iopPkt[i].cur \in Int
                                 /\ iopPkt[i].dir \in {"down", "up"}
                                 /\ iopPkt[i].begun \in BOOLEAN
BY DEF IopTypes

(* A step moves one context: what it moves then is what ctx says, and the    *)
(* other contexts move what they did.                                        *)
LEMMA MoveFacts ==
    ASSUME IopTypes, MovedByOne, NEW c \in Contexts, NEW ctx, Move(c, ctx)
    PROVE  /\ iopCtx'[c] = ctx
           /\ \A d \in Contexts : d # c => iopCtx'[d] = iopCtx[d]
           /\ \A i : Moves(c, i)' <=> ctx.pc = "loop" /\ ctx.iop = i
           /\ \A i : StartedAt(c, i)' <=> ctx.pc = "started" /\ ctx.iop = i
           /\ \A i : \A d \in Contexts : d # c =>
                 /\ Moves(d, i)' <=> Moves(d, i)
                 /\ StartedAt(d, i)' <=> StartedAt(d, i)
           /\ \A i \in Packets :
                 Moving(i)' <=> \/ ctx.pc = "loop" /\ ctx.iop = i
                                \/ Moving(i) /\ ~Moves(c, i)
<1>1. iopCtx'[c] = ctx /\ \A d \in Contexts : d # c => iopCtx'[d] = iopCtx[d]
    BY Zenon DEF Move, IopTypes
<1>2. /\ \A i : Moves(c, i)' <=> ctx.pc = "loop" /\ ctx.iop = i
      /\ \A i : StartedAt(c, i)' <=> ctx.pc = "started" /\ ctx.iop = i
    BY Zenon, <1>1 DEF Moves, StartedAt
<1>3. \A i : \A d \in Contexts : d # c =>
         /\ Moves(d, i)' <=> Moves(d, i)
         /\ StartedAt(d, i)' <=> StartedAt(d, i)
    BY Zenon, <1>1 DEF Moves, StartedAt
<1>4. ASSUME NEW i \in Packets
      PROVE  Moving(i)' <=> \/ ctx.pc = "loop" /\ ctx.iop = i
                            \/ Moving(i) /\ ~Moves(c, i)
  <2>1. Moving(i)' <=> Moves(c, i)' \/ \E d \in Contexts : d # c /\ Moves(d, i)
    BY Zenon, <1>3 DEF Moving
  <2>2. (\E d \in Contexts : d # c /\ Moves(d, i)) <=> Moving(i) /\ ~Moves(c, i)
    BY Zenon DEF MovedByOne, Moving
  <2> QED BY Zenon, <1>2, <2>1, <2>2
<1> QED BY Zenon, <1>1, <1>2, <1>3, <1>4

(* the records a context is set to *)
LEMMA CtxFields ==
    /\ \A i : At(i).pc = "loop" /\ At(i).iop = i /\ At(i).ret = "none"
    /\ Idle.pc = "idle" /\ Idle.iop = 0
    /\ \A r : /\ [Idle EXCEPT !.ret = r].pc = "idle"
              /\ [Idle EXCEPT !.ret = r].iop = 0
              /\ [Idle EXCEPT !.ret = r].ret = r
BY DEF At, Idle

(* the set of values of a context *)
CtxType == [pc : {"idle", "loop", "started"}, iop : Packets,
            ret : {"none", "pending", "completed"}]

(* A context is set to a well-typed value.                                   *)
LEMMA CtxTypes ==
    /\ \A i \in Packets : At(i) \in CtxType
    /\ \A r \in {"none", "pending", "completed"} : [Idle EXCEPT !.ret = r] \in CtxType
    /\ \A i \in Packets, r \in {"pending", "completed"} :
          [pc |-> "started", iop |-> i, ret |-> r] \in CtxType
BY PacketFacts DEF At, Idle, CtxType

(* A context turns to the packet j: it is the only one that moves it if it   *)
(* was, or nobody did.                                                       *)
LEMMA ToLoop ==
    ASSUME IopTypes, MovedByOne, NEW c \in Contexts, NEW j \in Packets,
           Move(c, At(j))
    PROVE  /\ iopCtx' \in [Contexts -> CtxType] /\ iopCtx'[c].pc = "loop"
           /\ \A d \in Contexts : d # c => iopCtx'[d] = iopCtx[d]
           /\ \A i : (Moves(c, i)' <=> i = j) /\ ~StartedAt(c, i)'
           /\ \A i : \A d \in Contexts : d # c =>
                 /\ Moves(d, i)' <=> Moves(d, i)
                 /\ StartedAt(d, i)' <=> StartedAt(d, i)
           /\ \A i \in Packets :
                 Moving(i)' <=> i = j \/ (Moving(i) /\ ~Moves(c, i))
           /\ /\ Moving(j) => Moves(c, j)
              /\ j \notin iopDevice' /\ iopDevice' \subseteq iopDevice
              => MovedByOne'
<1>1. PICK ctx : ctx = At(j)
    BY Zenon
<1>2. ctx.pc = "loop" /\ ctx.iop = j /\ Move(c, ctx) /\ ctx \in CtxType
    BY Zenon, <1>1, CtxFields, CtxTypes
<1>3. ctx.pc # "started"
    BY <1>2
<1>4. /\ iopCtx'[c] = ctx
      /\ \A d \in Contexts : d # c => iopCtx'[d] = iopCtx[d]
      /\ \A i : Moves(c, i)' <=> ctx.pc = "loop" /\ ctx.iop = i
      /\ \A i : StartedAt(c, i)' <=> ctx.pc = "started" /\ ctx.iop = i
      /\ \A i : \A d \in Contexts : d # c =>
            /\ Moves(d, i)' <=> Moves(d, i)
            /\ StartedAt(d, i)' <=> StartedAt(d, i)
      /\ \A i \in Packets :
            Moving(i)' <=> \/ ctx.pc = "loop" /\ ctx.iop = i
                           \/ Moving(i) /\ ~Moves(c, i)
    BY Zenon, <1>2, MoveFacts
<1>5. iopCtx' \in [Contexts -> CtxType]
    BY Zenon, <1>2 DEF Move, IopTypes, CtxType
<1>6. \A i \in Packets : Moving(i)' <=> i = j \/ (Moving(i) /\ ~Moves(c, i))
    BY Zenon, <1>2, <1>4
<1>7. ASSUME Moving(j) => Moves(c, j), j \notin iopDevice', iopDevice' \subseteq iopDevice
      PROVE  MovedByOne'
  <2>1. ASSUME NEW i \in Packets, NEW d \in Contexts, NEW e \in Contexts,
               Moves(d, i)', Moves(e, i)'
        PROVE  d = e
    <3>1. CASE i = j
      <4>1. \A f \in Contexts : f # c => ~Moves(f, j)'
        BY Zenon, <1>4, <1>7 DEF Moving, MovedByOne
      <4> QED BY Zenon, <2>1, <3>1, <4>1
    <3>2. CASE i # j
      <4>1. d # c /\ e # c
        BY Zenon, <1>2, <1>4, <2>1, <3>2
      <4> QED BY Zenon, <1>4, <2>1, <4>1 DEF MovedByOne
    <3> QED BY Zenon, <3>1, <3>2
  <2>2. ASSUME NEW i \in iopDevice' PROVE ~Moving(i)'
    <3>1. i \in iopDevice /\ i \in Packets /\ i # j
      BY Zenon, <1>7 DEF IopTypes
    <3> QED BY Zenon, <1>6, <3>1 DEF MovedByOne
  <2> QED BY Zenon, <2>1, <2>2 DEF MovedByOne
<1> QED BY Zenon, <1>2, <1>3, <1>4, <1>5, <1>6, <1>7

(* A context leaves the packet it moved, maybe with a device.                *)
LEMMA Away ==
    ASSUME IopTypes, MovedByOne, NEW c \in Contexts, NEW ctx \in CtxType,
           ctx.pc # "loop", Move(c, ctx)
    PROVE  /\ iopCtx' \in [Contexts -> CtxType] /\ iopCtx'[c] = ctx
           /\ \A d \in Contexts : d # c => iopCtx'[d] = iopCtx[d]
           /\ \A i : /\ ~Moves(c, i)'
                     /\ StartedAt(c, i)' <=> ctx.pc = "started" /\ ctx.iop = i
           /\ \A i : \A d \in Contexts : d # c =>
                 /\ Moves(d, i)' <=> Moves(d, i)
                 /\ StartedAt(d, i)' <=> StartedAt(d, i)
           /\ \A i \in Packets : Moving(i)' <=> Moving(i) /\ ~Moves(c, i)
           /\ (\A i \in iopDevice' : i \in iopDevice \/ (i \in Packets /\ Moves(c, i)))
                 => MovedByOne'
<1>1. /\ iopCtx'[c] = ctx
      /\ \A d \in Contexts : d # c => iopCtx'[d] = iopCtx[d]
      /\ \A i : Moves(c, i)' <=> ctx.pc = "loop" /\ ctx.iop = i
      /\ \A i : StartedAt(c, i)' <=> ctx.pc = "started" /\ ctx.iop = i
      /\ \A i : \A d \in Contexts : d # c =>
            /\ Moves(d, i)' <=> Moves(d, i)
            /\ StartedAt(d, i)' <=> StartedAt(d, i)
      /\ \A i \in Packets :
            Moving(i)' <=> \/ ctx.pc = "loop" /\ ctx.iop = i
                           \/ Moving(i) /\ ~Moves(c, i)
    BY Zenon, MoveFacts
<1>2. iopCtx' \in [Contexts -> CtxType]
    BY Zenon DEF Move, IopTypes, CtxType
<1>3. \A i \in Packets : Moving(i)' <=> Moving(i) /\ ~Moves(c, i)
    BY Zenon, <1>1
<1>4. ASSUME \A i \in iopDevice' : i \in iopDevice \/ (i \in Packets /\ Moves(c, i))
      PROVE  MovedByOne'
  <2>1. ASSUME NEW i \in Packets, NEW d \in Contexts, NEW e \in Contexts,
               Moves(d, i)', Moves(e, i)'
        PROVE  d = e
    <3>1. d # c /\ e # c
      BY Zenon, <1>1, <2>1
    <3> QED BY Zenon, <1>1, <2>1, <3>1 DEF MovedByOne
  <2>2. ASSUME NEW i \in iopDevice' PROVE ~Moving(i)'
    <3>1. i \in Packets
      BY Zenon, <1>4 DEF IopTypes
    <3> QED BY Zenon, <1>3, <1>4, <3>1 DEF MovedByOne
  <2> QED BY Zenon, <2>1, <2>2 DEF MovedByOne
<1> QED BY Zenon, <1>1, <1>2, <1>3, <1>4

(* No context turns to anything else.                                        *)
LEMMA Stay ==
    ASSUME iopCtx' = iopCtx
    PROVE  /\ \A i, c : (Moves(c, i)' <=> Moves(c, i))
                        /\ (StartedAt(c, i)' <=> StartedAt(c, i))
           /\ \A i : Moving(i)' <=> Moving(i)
           /\ MovedByOne /\ iopDevice' = iopDevice => MovedByOne'
<1>1. \A i, c : (Moves(c, i)' <=> Moves(c, i)) /\ (StartedAt(c, i)' <=> StartedAt(c, i))
    BY Zenon DEF Moves, StartedAt
<1>2. \A i : Moving(i)' <=> Moving(i)
    BY Zenon, <1>1 DEF Moving
<1> QED BY Zenon, <1>1, <1>2 DEF MovedByOne

(* the set of values of a packet *)
PktType == [cur : Int, dir : {"down", "up"}, begun : BOOLEAN]

(* A change of one field of a packet: the record,                           *)
LEMMA PktFields ==
    ASSUME NEW q \in PktType, NEW n \in Int, NEW d \in {"down", "up"}
    PROVE  /\ [q EXCEPT !.cur = n] = [cur |-> n, dir |-> q.dir, begun |-> q.begun]
           /\ [q EXCEPT !.dir = d] = [cur |-> q.cur, dir |-> d, begun |-> q.begun]
           /\ [q EXCEPT !.begun = TRUE] = [cur |-> q.cur, dir |-> q.dir, begun |-> TRUE]
           /\ [q EXCEPT !.cur = n] \in PktType
           /\ [q EXCEPT !.dir = d] \in PktType
           /\ [q EXCEPT !.begun = TRUE] \in PktType
<1>1. PICK a \in Int, b \in {"down", "up"}, e \in BOOLEAN :
         q = [cur |-> a, dir |-> b, begun |-> e]
  <2>1. q = [cur |-> q.cur, dir |-> q.dir, begun |-> q.begun]
    BY Zenon DEF PktType
  <2>2. q.cur \in Int /\ q.dir \in {"down", "up"} /\ q.begun \in BOOLEAN
    BY Zenon DEF PktType
  <2> QED BY Zenon, <2>1, <2>2
<1>2. q.cur = a /\ q.dir = b /\ q.begun = e
    BY <1>1
<1>3. [[cur |-> a, dir |-> b, begun |-> e] EXCEPT !.cur = n] = [cur |-> n, dir |-> b, begun |-> e]
    BY SMT
<1>4. [[cur |-> a, dir |-> b, begun |-> e] EXCEPT !.dir = d] = [cur |-> a, dir |-> d, begun |-> e]
    BY SMT
<1>5. \A x : [[cur |-> a, dir |-> b, begun |-> e] EXCEPT !.begun = x] = [cur |-> a, dir |-> b, begun |-> x]
    BY SMT
<1>6. /\ [cur |-> n, dir |-> b, begun |-> e] \in PktType
      /\ [cur |-> a, dir |-> d, begun |-> e] \in PktType
      /\ [cur |-> a, dir |-> b, begun |-> TRUE] \in PktType
    BY Zenon DEF PktType
<1>7. /\ [q EXCEPT !.cur = n] = [cur |-> n, dir |-> b, begun |-> e]
      /\ [q EXCEPT !.dir = d] = [cur |-> a, dir |-> d, begun |-> e]
      /\ [q EXCEPT !.begun = TRUE] = [cur |-> a, dir |-> b, begun |-> TRUE]
    BY Zenon, <1>1, <1>3, <1>4, <1>5
<1> QED BY Zenon, <1>2, <1>6, <1>7
(* a packet with one field changed *)
WithCur(q, n) == [q EXCEPT !.cur = n]
WithDir(q, d) == [q EXCEPT !.dir = d]
WithBegun(q) == [q EXCEPT !.begun = TRUE]

(* A packet at the frame n,                                                  *)
LEMMA CurValues ==
    ASSUME NEW q \in PktType, NEW n \in Int
    PROVE  /\ WithCur(q, n) \in PktType
           /\ WithCur(q, n).cur = n
           /\ WithCur(q, n).dir = q.dir
           /\ WithCur(q, n).begun = q.begun
<1>1. PICK d \in {"down", "up"} : TRUE
    OBVIOUS
<1>2. WithCur(q, n) \in PktType
    BY Zenon, PktFields DEF WithCur
<1> QED BY <1>2 DEF WithCur, PktType

(* in the direction d,                                                       *)
LEMMA DirValues ==
    ASSUME NEW q \in PktType, NEW d \in {"down", "up"}
    PROVE  /\ WithDir(q, d) \in PktType
           /\ WithDir(q, d).cur = q.cur
           /\ WithDir(q, d).dir = d
           /\ WithDir(q, d).begun = q.begun
<1>1. PICK n \in Int : TRUE
    OBVIOUS
<1>2. WithDir(q, d) \in PktType
    BY Zenon, PktFields DEF WithDir
<1> QED BY <1>2 DEF WithDir, PktType

(* and begun.                                                                *)
LEMMA BegunValues ==
    ASSUME NEW q \in PktType
    PROVE  /\ WithBegun(q) \in PktType
           /\ WithBegun(q).cur = q.cur
           /\ WithBegun(q).dir = q.dir
           /\ WithBegun(q).begun
<1>1. PICK n \in Int, d \in {"down", "up"} : TRUE
    OBVIOUS
<1>2. WithBegun(q) \in PktType
    BY Zenon, PktFields DEF WithBegun
<1> QED BY <1>2 DEF WithBegun, PktType

(* A packet moves to the frame n and may turn round.                         *)
LEMMA PktMoved ==
    ASSUME IopTypes, NEW i \in Packets, NEW n \in Int, NEW d \in {"down", "up"},
           iopPkt' = [iopPkt EXCEPT ![i].cur = n, ![i].dir = d]
    PROVE  /\ iopPkt' \in [Packets -> PktType]
           /\ iopPkt'[i].cur = n /\ iopPkt'[i].dir = d
           /\ iopPkt'[i].begun = iopPkt[i].begun
           /\ \A j \in Packets : j # i => iopPkt'[j] = iopPkt[j]
<1>1. iopPkt \in [Packets -> PktType] /\ iopPkt[i] \in PktType
    BY Zenon DEF IopTypes, PktType
<1>2. /\ WithCur(iopPkt[i], n) \in PktType
      /\ WithCur(iopPkt[i], n).cur = n
      /\ WithCur(iopPkt[i], n).begun = iopPkt[i].begun
    BY Zenon, <1>1, CurValues
<1>3. /\ WithDir(WithCur(iopPkt[i], n), d) \in PktType
      /\ WithDir(WithCur(iopPkt[i], n), d).cur = WithCur(iopPkt[i], n).cur
      /\ WithDir(WithCur(iopPkt[i], n), d).dir = d
      /\ WithDir(WithCur(iopPkt[i], n), d).begun = WithCur(iopPkt[i], n).begun
    BY Zenon, <1>2, DirValues
<1>4. /\ iopPkt'[i] = WithDir(WithCur(iopPkt[i], n), d)
      /\ \A j \in Packets : j # i => iopPkt'[j] = iopPkt[j]
    BY <1>1 DEF WithCur, WithDir
<1>5. iopPkt'[i] \in PktType /\ iopPkt'[i].cur = n /\ iopPkt'[i].dir = d
      /\ iopPkt'[i].begun = iopPkt[i].begun
    BY Zenon, <1>2, <1>3, <1>4
<1>6. \A j \in Packets : iopPkt'[j] \in PktType
    BY Zenon, <1>1, <1>4, <1>5
<1>7. iopPkt' \in [Packets -> PktType]
    BY Zenon, <1>1, <1>6
<1> QED BY Zenon, <1>4, <1>5, <1>7

(* It moves without turning.                                                 *)
LEMMA PktAdvanced ==
    ASSUME IopTypes, NEW i \in Packets, NEW n \in Int,
           iopPkt' = [iopPkt EXCEPT ![i].cur = n]
    PROVE  /\ iopPkt' \in [Packets -> PktType]
           /\ iopPkt'[i].cur = n /\ iopPkt'[i].dir = iopPkt[i].dir
           /\ iopPkt'[i].begun = iopPkt[i].begun
           /\ \A j \in Packets : j # i => iopPkt'[j] = iopPkt[j]
<1>1. iopPkt \in [Packets -> PktType] /\ iopPkt[i] \in PktType
    BY Zenon DEF IopTypes, PktType
<1>2. /\ iopPkt'[i] = WithCur(iopPkt[i], n)
      /\ \A j \in Packets : j # i => iopPkt'[j] = iopPkt[j]
    BY Zenon, <1>1 DEF WithCur, WithDir, WithBegun
<1>3. iopPkt'[i] \in PktType /\ iopPkt'[i].cur = n
      /\ iopPkt'[i].dir = iopPkt[i].dir /\ iopPkt'[i].begun = iopPkt[i].begun
  <2>1. /\ WithCur(iopPkt[i], n) \in PktType
        /\ WithCur(iopPkt[i], n).cur = n
        /\ WithCur(iopPkt[i], n).dir = iopPkt[i].dir
        /\ WithCur(iopPkt[i], n).begun = iopPkt[i].begun
    BY Zenon, <1>1, CurValues
  <2> QED BY Zenon, <1>2, <2>1
<1>4. \A j \in Packets : iopPkt'[j] \in PktType
    BY Zenon, <1>1, <1>2, <1>3
<1>5. iopPkt' \in [Packets -> PktType]
    BY Zenon, <1>1, <1>4
<1> QED BY Zenon, <1>2, <1>3, <1>5

(* It turns without moving.                                                  *)
LEMMA PktTurned ==
    ASSUME IopTypes, NEW i \in Packets, NEW d \in {"down", "up"},
           iopPkt' = [iopPkt EXCEPT ![i].dir = d]
    PROVE  /\ iopPkt' \in [Packets -> PktType]
           /\ iopPkt'[i].dir = d /\ iopPkt'[i].cur = iopPkt[i].cur
           /\ iopPkt'[i].begun = iopPkt[i].begun
           /\ \A j \in Packets : j # i => iopPkt'[j] = iopPkt[j]
<1>1. iopPkt \in [Packets -> PktType] /\ iopPkt[i] \in PktType
    BY Zenon DEF IopTypes, PktType
<1>2. /\ iopPkt'[i] = WithDir(iopPkt[i], d)
      /\ \A j \in Packets : j # i => iopPkt'[j] = iopPkt[j]
    BY Zenon, <1>1 DEF WithCur, WithDir, WithBegun
<1>3. iopPkt'[i] \in PktType /\ iopPkt'[i].dir = d
      /\ iopPkt'[i].cur = iopPkt[i].cur /\ iopPkt'[i].begun = iopPkt[i].begun
  <2>1. /\ WithDir(iopPkt[i], d) \in PktType
        /\ WithDir(iopPkt[i], d).dir = d
        /\ WithDir(iopPkt[i], d).cur = iopPkt[i].cur
        /\ WithDir(iopPkt[i], d).begun = iopPkt[i].begun
    BY Zenon, <1>1, DirValues
  <2> QED BY Zenon, <1>2, <2>1
<1>4. \A j \in Packets : iopPkt'[j] \in PktType
    BY Zenon, <1>1, <1>2, <1>3
<1>5. iopPkt' \in [Packets -> PktType]
    BY Zenon, <1>1, <1>4
<1> QED BY Zenon, <1>2, <1>3, <1>5

(* A slave is begun.                                                         *)
LEMMA PktBegun ==
    ASSUME IopTypes, NEW i \in Packets,
           iopPkt' = [iopPkt EXCEPT ![i].begun = TRUE]
    PROVE  /\ iopPkt' \in [Packets -> PktType]
           /\ iopPkt'[i].cur = iopPkt[i].cur /\ iopPkt'[i].dir = iopPkt[i].dir
           /\ iopPkt'[i].begun
           /\ \A j \in Packets : j # i => iopPkt'[j] = iopPkt[j]
<1>1. iopPkt \in [Packets -> PktType] /\ iopPkt[i] \in PktType
    BY Zenon DEF IopTypes, PktType
<1>2. /\ iopPkt'[i] = WithBegun(iopPkt[i])
      /\ \A j \in Packets : j # i => iopPkt'[j] = iopPkt[j]
    BY Zenon, <1>1 DEF WithCur, WithDir, WithBegun
<1>3. iopPkt'[i] \in PktType /\ iopPkt'[i].cur = iopPkt[i].cur
      /\ iopPkt'[i].dir = iopPkt[i].dir /\ iopPkt'[i].begun
  <2>1. /\ WithBegun(iopPkt[i]) \in PktType
        /\ WithBegun(iopPkt[i]).cur = iopPkt[i].cur
        /\ WithBegun(iopPkt[i]).dir = iopPkt[i].dir
        /\ WithBegun(iopPkt[i]).begun
    BY Zenon, <1>1, BegunValues
  <2> QED BY Zenon, <1>2, <2>1
<1>4. \A j \in Packets : iopPkt'[j] \in PktType
    BY Zenon, <1>1, <1>2, <1>3
<1>5. iopPkt' \in [Packets -> PktType]
    BY Zenon, <1>1, <1>4
<1> QED BY Zenon, <1>2, <1>3, <1>5

(* A slave is complete, and its master may turn round.                       *)
LEMMA PktDone ==
    ASSUME IopTypes, NEW i \in Slaves, NEW d \in {"down", "up"},
           iopPkt' = [iopPkt EXCEPT ![i].cur = -1, ![0].dir = d]
    PROVE  /\ iopPkt' \in [Packets -> PktType]
           /\ iopPkt'[i].cur = -1 /\ iopPkt'[i].dir = iopPkt[i].dir
           /\ iopPkt'[i].begun = iopPkt[i].begun
           /\ iopPkt'[0].cur = iopPkt[0].cur /\ iopPkt'[0].dir = d
           /\ \A j \in Packets : j # i /\ j # 0 => iopPkt'[j] = iopPkt[j]
<1>1. 0 \in Packets /\ i \in Packets /\ i # 0 /\ 0 \in Int
    BY PacketFacts
<1>2. PICK n \in Int : n = -1
    OBVIOUS
<1>3. /\ iopPkt \in [Packets -> PktType] /\ iopPkt[i] \in PktType
      /\ iopPkt[0] \in PktType
    BY Zenon, <1>1 DEF IopTypes, PktType
<1>4. iopPkt' = [iopPkt EXCEPT ![i].cur = n, ![0].dir = d]
    BY Zenon, <1>2
<1>5. /\ iopPkt'[i] = WithCur(iopPkt[i], n)
      /\ iopPkt'[0] = WithDir(iopPkt[0], d)
      /\ \A j \in Packets : j # i /\ j # 0 => iopPkt'[j] = iopPkt[j]
    BY <1>1, <1>3, <1>4 DEF WithCur, WithDir
<1>6. /\ WithCur(iopPkt[i], n) \in PktType
      /\ WithCur(iopPkt[i], n).cur = n
      /\ WithCur(iopPkt[i], n).dir = iopPkt[i].dir
      /\ WithCur(iopPkt[i], n).begun = iopPkt[i].begun
    BY Zenon, <1>3, CurValues
<1>7. /\ WithDir(iopPkt[0], d) \in PktType
      /\ WithDir(iopPkt[0], d).cur = iopPkt[0].cur
      /\ WithDir(iopPkt[0], d).dir = d
    BY Zenon, <1>1, <1>3, DirValues
<1>8. \A j \in Packets : iopPkt'[j] \in PktType
    BY Zenon, <1>3, <1>5, <1>6, <1>7
<1>9. iopPkt' \in [Packets -> PktType]
    BY Zenon, <1>3, <1>4, <1>8
<1> QED BY Zenon, <1>2, <1>5, <1>6, <1>7, <1>9

(* nothing happens to the slaves *)
SlavesAside ==
    /\ \A i \in Slaves : /\ iopPkt'[i] = iopPkt[i] /\ iopCount'[i] = iopCount[i]
                         /\ Moving(i)' <=> Moving(i)
                         /\ i \in iopDevice' <=> i \in iopDevice
    /\ \A i \in Slaves, c \in Contexts : StartedAt(c, i)' => StartedAt(c, i)

(* The slaves are where they were after such a step.                         *)
LEMMA SlavesKept ==
    ASSUME SlavesAside
    PROVE  /\ \A i \in Slaves : /\ Undispatched(i)' <=> Undispatched(i)
                                /\ Sent(i)' <=> Sent(i)
                                /\ Over(i)' <=> Over(i)
                                /\ Active(i)' <=> Active(i)
                                /\ Launched(i)' <=> Launched(i)
           /\ SlavesUntouched' <=> SlavesUntouched
           /\ SlavesOver' <=> SlavesOver
           /\ SlavesAtRest' <=> SlavesAtRest
           /\ Incomplete' = Incomplete
           /\ SlavesInOrder /\ iopSlaves' = iopSlaves /\ iopIncomplete' = iopIncomplete
                 => SlavesInOrder'
           /\ /\ SlavesInOrder
              /\ iopIncomplete' = IF iopSlaves' THEN Cardinality(Incomplete) ELSE 0
              => SlavesInOrder'
<1>1. ASSUME NEW i \in Slaves
      PROVE  /\ Undispatched(i)' <=> Undispatched(i)
             /\ Sent(i)' <=> Sent(i)
             /\ Over(i)' <=> Over(i)
             /\ Active(i)' <=> Active(i)
             /\ iopPkt'[i].begun = iopPkt[i].begun
    BY Zenon DEF SlavesAside, Undispatched, Sent, Over, Active
<1>2. \A i \in Slaves : Launched(i)' <=> Launched(i)
    BY Zenon, <1>1, PacketFacts DEF Launched
<1>3. SlavesUntouched' <=> SlavesUntouched
    BY Zenon, <1>1 DEF SlavesUntouched
<1>4. (SlavesOver' <=> SlavesOver) /\ (SlavesAtRest' <=> SlavesAtRest)
    BY Zenon, <1>1 DEF SlavesOver, SlavesAtRest
<1>5. Incomplete' = Incomplete
    BY Zenon, <1>1 DEF Incomplete
<1>6. ASSUME SlavesInOrder,
             iopIncomplete' = IF iopSlaves' THEN Cardinality(Incomplete) ELSE 0
      PROVE  SlavesInOrder'
  <2>1. ASSUME NEW i \in Slaves
        PROVE  /\ Undispatched(i)' \/ Sent(i)' \/ Over(i)'
               /\ i # 1 /\ ~iopPkt'[i].begun => Undispatched(i)' /\ ~Active(i)'
               /\ i \in iopDevice' => Sent(i)'
               /\ \A c \in Contexts : StartedAt(c, i)' => ~Undispatched(i)'
    BY Zenon, <1>1, <1>6 DEF SlavesInOrder, SlavesAside
  <2>2. ~iopPkt'[1].begun
    BY Zenon, <1>1, <1>6, PacketFacts DEF SlavesInOrder
  <2>3. iopIncomplete' = IF iopSlaves' THEN Cardinality(Incomplete') ELSE 0
    BY Zenon, <1>5, <1>6
  <2> QED BY Zenon, <2>1, <2>2, <2>3 DEF SlavesInOrder
<1>7. SlavesInOrder /\ iopSlaves' = iopSlaves /\ iopIncomplete' = iopIncomplete
         => iopIncomplete' = IF iopSlaves' THEN Cardinality(Incomplete) ELSE 0
    BY DEF SlavesInOrder
<1> QED BY Zenon, <1>1, <1>2, <1>3, <1>4, <1>5, <1>6, <1>7

(* While a slave is moved, the master waits for its slaves, or begins them   *)
(* again; while the master is moved it does its own work.                    *)
LEMMA PhaseFacts ==
    ASSUME IopInv
    PROVE  /\ Active(0) => OwnWork
           /\ \A i \in Slaves : Active(i) =>
                 /\ Launched(i)
                 /\ (AwaitsSlaves /\ ~Over(i)) \/ (BeginsAgain /\ Over(i))
<1>1. Active(0) => OwnWork
    BY Zenon DEF IopInv, Unsent, AwaitsSlaves, BeginsAgain, IsComplete
<1>2. ASSUME NEW i \in Slaves, Active(i)
      PROVE  Launched(i) /\ ((AwaitsSlaves /\ ~Over(i)) \/ (BeginsAgain /\ Over(i)))
  <2>1. Launched(i)
    BY Zenon, <1>2 DEF Launched, IopInv, SlavesInOrder
  <2>2. ~Unsent /\ ~OwnWork /\ ~IsComplete
    BY Zenon, <1>2 DEF Unsent, OwnWork, IsComplete, SlavesUntouched, SlavesAtRest
  <2>3. AwaitsSlaves => ~Over(i)
    BY Zenon, <1>2, <2>1 DEF AwaitsSlaves
  <2>4. BeginsAgain => Over(i)
    BY Zenon DEF BeginsAgain, SlavesOver
  <2> QED BY Zenon, <2>1, <2>2, <2>3, <2>4 DEF IopInv
<1> QED BY Zenon, <1>1, <1>2

(* A step that changes nothing preserves the invariant.                      *)
LEMMA QuietStep ==
    ASSUME IopInv,
           UNCHANGED <<iopPkt, iopIncomplete, iopSlaves, iopCtx, iopDevice, iopCount,
                       iopSignals, iopAgain>>
    PROVE  IopInv'
<1>1. IopTypes'
    BY Zenon DEF IopInv, IopTypes
<1>2. /\ \A c \in Contexts : \A i : (Moves(c, i)' <=> Moves(c, i))
                                    /\ (StartedAt(c, i)' <=> StartedAt(c, i))
      /\ \A i : Moving(i)' <=> Moving(i)
      /\ \A i : Active(i)' <=> Active(i)
    BY Zenon DEF Moves, StartedAt, Moving, Active
<1>3. MovedByOne'
    BY Zenon, <1>2 DEF IopInv, MovedByOne
<1>4. SlavesAside
    BY Zenon, <1>2 DEF SlavesAside
<1>5. SlavesInOrder'
    BY Zenon, <1>4, SlavesKept DEF IopInv
<1>6. Unsent => Unsent'
    BY Zenon, <1>2, <1>4, SlavesKept DEF Unsent
<1>7. OwnWork => OwnWork'
    BY Zenon, <1>2, <1>4, SlavesKept DEF OwnWork
<1>8. AwaitsSlaves => AwaitsSlaves'
    BY Zenon, <1>2, <1>4, SlavesKept DEF AwaitsSlaves, BegunUpTo
<1>9. BeginsAgain => BeginsAgain'
    BY Zenon, <1>2, <1>4, SlavesKept DEF BeginsAgain
<1>10. IsComplete => IsComplete'
    BY Zenon, <1>2, <1>4, SlavesKept DEF IsComplete
<1> QED BY Zenon, <1>1, <1>3, <1>5, <1>6, <1>7, <1>8, <1>9, <1>10 DEF IopInv

(* A failed assertion changes nothing else.                                  *)
LEMMA HaltStep ==
    ASSUME IopInv, HaltIop
    PROVE  IopInv'
BY Zenon, QuietStep DEF HaltIop

(* A step of a context c that moves only the master leaves the slaves alone. *)
LEMMA MasterAside ==
    ASSUME IopTypes, MovedByOne, NEW c \in Contexts, NEW ctx, Move(c, ctx),
           ctx.pc # "idle" => ctx.iop = 0,
           \A i \in Slaves : ~Moves(c, i),
           \A i \in Slaves : iopPkt'[i] = iopPkt[i] /\ iopCount'[i] = iopCount[i],
           \A i \in Slaves : i \in iopDevice' <=> i \in iopDevice
    PROVE  SlavesAside
<1>1. \A i \in Slaves : Moving(i)' <=> Moving(i)
  <2>1. ASSUME NEW i \in Slaves, ctx.pc = "loop", ctx.iop = i PROVE FALSE
    <3>1. ctx.pc # "idle"
      BY <2>1
    <3> QED BY Zenon, <2>1, <3>1, PacketFacts
  <2> QED BY Zenon, <2>1, MoveFacts, PacketFacts
<1>2. ASSUME NEW i \in Slaves, NEW d \in Contexts, StartedAt(d, i)'
      PROVE  StartedAt(d, i)
  <2>1. CASE d = c
    <3>1. ctx.pc = "started" /\ ctx.iop = i
      BY Zenon, <1>2, <2>1, MoveFacts
    <3>2. ctx.pc # "idle"
      BY <3>1
    <3> QED BY Zenon, <3>1, <3>2, PacketFacts
  <2>2. CASE d # c
    BY Zenon, <1>2, <2>2, MoveFacts
  <2> QED BY Zenon, <2>1, <2>2
<1> QED BY Zenon, <1>1, <1>2 DEF SlavesAside

(* iop_send_sync begins to move the master.                                  *)
LEMMA SendStep ==
    ASSUME IopInv, iop_send_sync
    PROVE  IopInv'
<1>1. /\ iopCtx[Sender] = Idle /\ iopPkt[0] = iop_init
      /\ Move(Sender, At(0))
      /\ UNCHANGED <<iopPkt, iopIncomplete, iopSlaves, iopDevice, iopCount,
                     iopSignals, iopAgain>>
    BY Zenon DEF iop_send_sync
<1>2. iopPkt[0].cur = -1 /\ iopPkt[0].dir = "down"
    BY <1>1 DEF iop_init
<1>3. iopCtx[Sender].pc = "idle"
    BY Zenon, <1>1, CtxFields
<1>4. Unsent
  <2>1. ~OwnWork
    <3>1. ~Moving(0) \/ ~OwnWork
      <4>1. iopCtx[Sender].pc # "loop"
        BY <1>3
      <4> QED BY Zenon, <1>2, <4>1 DEF OwnWork
    <3>2. 0 \notin iopDevice \/ ~OwnWork
      BY <1>2 DEF OwnWork
    <3> QED BY Zenon, <3>1, <3>2 DEF OwnWork, Active
  <2>2. ~AwaitsSlaves /\ ~BeginsAgain /\ ~IsComplete
    BY <1>2 DEF AwaitsSlaves, BeginsAgain, IsComplete
  <2> QED BY Zenon, <2>1, <2>2 DEF IopInv
<1>5. IopTypes /\ MovedByOne /\ SlavesInOrder
    BY Zenon DEF IopInv
<1>6. Sender \in Contexts /\ 0 \in Packets
    BY Zenon, PacketFacts
<1>7. \A i : ~Moves(Sender, i)
    BY <1>3 DEF Moves
<1>8. SlavesAside
    BY Zenon, <1>1, <1>5, <1>6, <1>7, CtxFields, MasterAside
<1>9. /\ iopCtx' \in [Contexts -> CtxType] /\ iopCtx'[Sender].pc = "loop"
      /\ Moving(0)'
      /\ /\ Moving(0) => Moves(Sender, 0)
         /\ 0 \notin iopDevice' /\ iopDevice' \subseteq iopDevice
         => MovedByOne'
    BY Zenon, <1>1, <1>5, <1>6, ToLoop
<1>10. ~Moving(0) /\ 0 \notin iopDevice'
    BY Zenon, <1>1, <1>4 DEF Unsent, Active
<1>11. MovedByOne' /\ IopTypes'
    BY Zenon, <1>1, <1>5, <1>9, <1>10 DEF IopTypes, CtxType
<1>12. SlavesInOrder'
    BY Zenon, <1>1, <1>5, <1>8, SlavesKept
<1>13. OwnWork'
  <2>1. SlavesUntouched'
    BY Zenon, <1>4, <1>8, SlavesKept DEF Unsent
  <2>2. iopPkt'[0].dir # "up"
    BY <1>1, <1>2
  <2>3. Active(0)' /\ iopSignals' = 0 /\ ~iopSlaves' /\ iopPkt'[0].cur = -1
    BY Zenon, <1>1, <1>2, <1>4, <1>9 DEF Unsent, Active
  <2> QED BY Zenon, <1>9, <1>10, <2>1, <2>2, <2>3 DEF OwnWork
<1> QED BY Zenon, <1>11, <1>12, <1>13 DEF IopInv

(* iop_continue, in place of a frame of the master, turns to its first slave. *)
LEMMA BeginSlavesStep ==
    ASSUME IopInv, NEW c \in Contexts, Moves(c, 0), OwnWork, iopSlaves,
           iopPkt[0].dir = "down", iopPkt[0].cur = 0,
           iopPkt' = [iopPkt EXCEPT ![0].cur = 1],
           Move(c, At(1)),
           UNCHANGED <<iopIncomplete, iopSlaves, iopDevice, iopCount, iopSignals,
                       iopAgain>>
    PROVE  IopInv'
<1>1. IopTypes /\ MovedByOne /\ SlavesInOrder
    BY Zenon DEF IopInv
<1>2. /\ 0 \in Packets /\ 1 \in Packets /\ 1 \in Slaves /\ 0 \notin Slaves /\ 1 \in Int
      /\ \A i \in Slaves : i \in Packets /\ i # 0
    BY PacketFacts
<1>3. /\ iopPkt' \in [Packets -> PktType]
      /\ iopPkt'[0].cur = 1 /\ iopPkt'[0].dir = iopPkt[0].dir
      /\ \A j \in Packets : j # 0 => iopPkt'[j] = iopPkt[j]
    BY Zenon, <1>1, <1>2, PktAdvanced
<1>4. /\ iopCtx' \in [Contexts -> CtxType]
      /\ \A i : ~StartedAt(c, i)'
      /\ \A i : \A d \in Contexts : d # c => (StartedAt(d, i)' <=> StartedAt(d, i))
      /\ \A i \in Packets : Moving(i)' <=> i = 1 \/ (Moving(i) /\ ~Moves(c, i))
      /\ /\ Moving(1) => Moves(c, 1)
         /\ 1 \notin iopDevice' /\ iopDevice' \subseteq iopDevice
         => MovedByOne'
    BY Zenon, <1>1, <1>2, ToLoop
<1>5. SlavesAtRest /\ ~Moving(1) /\ 1 \notin iopDevice
  <2>1. SlavesAtRest
    BY Zenon DEF OwnWork, SlavesUntouched, SlavesAtRest
  <2> QED BY Zenon, <1>2, <2>1 DEF SlavesAtRest, Active
<1>6. \A i : i # 0 => ~Moves(c, i)
    BY Zenon DEF Moves
<1>7. IopTypes' /\ MovedByOne'
    BY Zenon, <1>1, <1>3, <1>4, <1>5 DEF IopTypes, PktType, CtxType
<1>8. /\ Moving(1)' /\ ~Moving(0)'
      /\ \A i \in Slaves : i # 1 => (Moving(i)' <=> Moving(i))
  <2>1. 0 # 1
    OBVIOUS
  <2> QED BY Zenon, <1>2, <1>4, <1>6, <2>1
<1>9. /\ \A i \in Slaves : /\ Undispatched(i)' <=> Undispatched(i)
                           /\ Sent(i)' <=> Sent(i)
                           /\ Over(i)' <=> Over(i)
                           /\ iopPkt'[i].begun = iopPkt[i].begun
                           /\ i # 1 => ~Active(i)'
      /\ Active(1)' /\ ~Active(0)'
  <2>1. 0 \notin iopDevice
    BY Zenon, <1>1 DEF MovedByOne, Moving
  <2> QED BY Zenon, <1>2, <1>3, <1>5, <1>8, <2>1
          DEF Undispatched, Sent, Over, Active, SlavesAtRest
<1>10. SlavesInOrder'
  <2>1. ASSUME NEW i \in Slaves
        PROVE  /\ Undispatched(i)' \/ Sent(i)' \/ Over(i)'
               /\ i # 1 /\ ~iopPkt'[i].begun => Undispatched(i)' /\ ~Active(i)'
               /\ i \in iopDevice' => Sent(i)'
               /\ \A d \in Contexts : StartedAt(d, i)' => ~Undispatched(i)'
    BY Zenon, <1>1, <1>4, <1>9 DEF SlavesInOrder
  <2>2. ~iopPkt'[1].begun
    BY Zenon, <1>1, <1>2, <1>9 DEF SlavesInOrder
  <2>3. Incomplete' = Incomplete
    BY Zenon, <1>9 DEF Incomplete
  <2> QED BY Zenon, <1>1, <2>1, <2>2, <2>3 DEF SlavesInOrder
<1>11. CASE SlavesUntouched
  <2>1. ASSUME NEW i \in Slaves
        PROVE  /\ Launched(i)' <=> i = 1
               /\ Launched(i)' => Active(i)' /\ ~Over(i)'
    <3>1. ~iopPkt'[i].begun /\ Undispatched(i)'
      BY Zenon, <1>9, <1>11 DEF SlavesUntouched
    <3>2. ~Over(i)'
      BY <3>1 DEF Undispatched, Over
    <3> QED BY Zenon, <1>9, <3>1, <3>2 DEF Launched
  <2>2. \A i \in Slaves : i <= 1 <=> i = 1
    BY DEF Slaves
  <2>3. BegunUpTo(1)'
    BY Zenon, <1>2, <1>9, <2>1, <2>2 DEF BegunUpTo
  <2>4. ~SlavesOver'
    BY Zenon, <1>2, <2>1 DEF SlavesOver
  <2>5. AwaitsSlaves'
    BY Zenon, <1>2, <1>3, <1>9, <2>1, <2>3, <2>4 DEF AwaitsSlaves, OwnWork
  <2> QED BY Zenon, <1>7, <1>10, <2>5 DEF IopInv
<1>12. CASE SlavesOver /\ SlavesAtRest
  <2>1. SlavesOver'
    BY Zenon, <1>9, <1>12 DEF SlavesOver
  <2>2. iopDevice' = {}
    <3>1. \A i \in iopDevice : i \in Packets /\ (i = 0 \/ i \in Slaves)
      BY Zenon, <1>1, PacketFacts DEF IopTypes
    <3>2. 0 \notin iopDevice
      BY Zenon, <1>1 DEF MovedByOne, Moving
    <3> QED BY Zenon, <1>12, <3>1, <3>2 DEF SlavesAtRest, Active
  <2>3. BeginsAgain'
    BY Zenon, <1>3, <1>8, <1>9, <2>1, <2>2 DEF BeginsAgain, OwnWork
  <2> QED BY Zenon, <1>7, <1>10, <2>3 DEF IopInv
<1> QED BY Zenon, <1>11, <1>12 DEF OwnWork

(* what the dispatch routine of a frame n of the master answers, and does *)
MasterDispatches(c, n, r, d) ==
    /\ d = IF r = "completed" THEN "up" ELSE "down"
    /\ iopPkt' = [iopPkt EXCEPT ![0].cur = n, ![0].dir = d]
    /\ iopCount' = [iopCount EXCEPT ![0] = @ + 1]
    /\ IF r = "slaves" THEN iop_append_slave ELSE UNCHANGED <<iopSlaves, iopIncomplete>>
    /\ IF r = "pending"
       THEN /\ Move(c, [pc |-> "started", iop |-> 0, ret |-> "pending"])
            /\ iopDevice' = iopDevice \union {0}
       ELSE UNCHANGED <<iopCtx, iopDevice>>
    /\ UNCHANGED <<iopSignals, iopAgain>>

(* A dispatch routine of the master leaves it with a device, or at work.     *)
LEMMA DispatchStep ==
    ASSUME IopInv, NEW c \in Contexts, Moves(c, 0), OwnWork, ~iopSlaves,
           NEW n \in {0, 1}, NEW r \in DispatchReturns(0, n), NEW d \in {"down", "up"},
           MasterDispatches(c, n, r, d)
    PROVE  IopInv'
<1>1. IopTypes /\ MovedByOne /\ SlavesInOrder
    BY Zenon DEF IopInv
<1>2. 0 \in Packets /\ n \in Int /\ \A i \in Slaves : i \in Packets /\ i # 0
    BY PacketFacts
<1>3. /\ iopPkt' \in [Packets -> PktType]
      /\ iopPkt'[0].cur = n /\ iopPkt'[0].dir = d
      /\ \A j \in Packets : j # 0 => iopPkt'[j] = iopPkt[j]
  <2>1. iopPkt' = [iopPkt EXCEPT ![0].cur = n, ![0].dir = d]
    BY Zenon DEF MasterDispatches
  <2> QED BY Zenon, <1>1, <1>2, <2>1, PktMoved
<1>4. /\ iopCount' \in [Packets -> Nat]
      /\ \A i \in Slaves : iopCount'[i] = iopCount[i]
    BY <1>1, <1>2 DEF IopTypes, MasterDispatches
<1>5. SlavesUntouched /\ Moving(0) /\ 0 \notin iopDevice
    BY Zenon, <1>1 DEF OwnWork, Moving, MovedByOne
<1>6. /\ r \in {"continue", "slaves"} => n = 0
      /\ r \in {"completed", "pending", "continue", "slaves"}
    BY PacketFacts DEF DispatchReturns
<1>7. SlavesAside /\ MovedByOne' /\ iopCtx' \in [Contexts -> CtxType]
      /\ iopDevice' \subseteq Packets
      /\ IF r = "pending" THEN ~Moving(0)' /\ 0 \in iopDevice'
                          ELSE Moving(0)' /\ 0 \notin iopDevice'
  <2>1. CASE r = "pending"
    <3>1. PICK ctx : ctx = [pc |-> "started", iop |-> 0, ret |-> "pending"]
      BY Zenon
    <3>2. /\ ctx \in CtxType /\ Move(c, ctx) /\ ctx.pc # "loop" /\ ctx.iop = 0
          /\ iopDevice' = iopDevice \union {0}
      <4>1. ctx \in CtxType
        BY Zenon, <1>2, <3>1, CtxTypes
      <4>2. ctx.pc # "loop" /\ ctx.iop = 0
        BY <3>1
      <4> QED BY Zenon, <2>1, <3>1, <4>1, <4>2 DEF MasterDispatches
    <3>3. \A i \in Slaves : ~Moves(c, i)
      BY Zenon, <1>2 DEF Moves
    <3>4. SlavesAside
      BY Zenon, <1>1, <1>2, <1>3, <1>4, <3>2, <3>3, MasterAside
    <3>5. /\ iopCtx' \in [Contexts -> CtxType]
          /\ \A i \in Packets : Moving(i)' <=> Moving(i) /\ ~Moves(c, i)
          /\ (\A i \in iopDevice' : i \in iopDevice \/ (i \in Packets /\ Moves(c, i)))
                => MovedByOne'
      BY Zenon, <1>1, <3>2, Away
    <3>6. ~Moving(0)' /\ MovedByOne'
      BY Zenon, <1>2, <3>2, <3>5
    <3> QED BY Zenon, <1>1, <1>2, <2>1, <3>2, <3>4, <3>5, <3>6 DEF IopTypes
  <2>2. CASE r # "pending"
    <3>1. iopCtx' = iopCtx /\ iopDevice' = iopDevice
      BY Zenon, <2>2 DEF MasterDispatches
    <3>2. SlavesAside
      BY Zenon, <1>2, <1>3, <1>4, <3>1, Stay DEF SlavesAside
    <3> QED BY Zenon, <1>1, <1>5, <2>2, <3>1, <3>2, Stay DEF IopTypes, CtxType
  <2> QED BY Zenon, <2>1, <2>2
<1>8. SlavesUntouched'
    BY Zenon, <1>5, <1>7, SlavesKept
<1>9. IF r = "slaves" THEN iopSlaves' /\ iopIncomplete' = NumSlaves
                       ELSE ~iopSlaves' /\ iopIncomplete' = 0
  <2>1. iopIncomplete = 0 /\ NumSlaves \in Nat
    BY Zenon, <1>1, IopAssumption DEF SlavesInOrder
  <2> QED BY <2>1 DEF iop_append_slave, MasterDispatches
<1>10. SlavesInOrder'
  <2>1. Incomplete = 1 .. NumSlaves
    <3>1. \A i \in Slaves : ~Over(i)
      BY <1>5 DEF SlavesUntouched, Undispatched, Over
    <3> QED BY Zenon, <3>1 DEF Incomplete, Slaves
  <2>2. Cardinality(Incomplete) = NumSlaves
    BY <2>1, FS_Interval, IopAssumption
  <2> QED BY Zenon, <1>1, <1>7, <1>9, <2>2, SlavesKept
<1>11. IopTypes'
  <2>1. iopIncomplete' \in Int
    BY <1>9, IopAssumption
  <2>2. iopSlaves' \in BOOLEAN
    BY Zenon, <1>1 DEF IopTypes, iop_append_slave, MasterDispatches
  <2> QED BY Zenon, <1>1, <1>3, <1>4, <1>7, <2>1, <2>2
          DEF IopTypes, PktType, CtxType, MasterDispatches
<1>12. OwnWork'
  <2>1. Active(0)' /\ iopSignals' = 0
    BY Zenon, <1>7 DEF Active, OwnWork, MasterDispatches
  <2>2. Moving(0)' /\ iopPkt'[0].dir = "down" => iopPkt'[0].cur = 0
    BY <1>3, <1>6, <1>7 DEF MasterDispatches
  <2>3. iopPkt'[0].cur \in {0, 1} /\ iopPkt'[0].cur # -1
    BY <1>3
  <2>4. iopSlaves' => Moving(0)' /\ iopPkt'[0].dir = "down" /\ iopPkt'[0].cur = 0
    BY <1>3, <1>6, <1>7, <1>9 DEF MasterDispatches
  <2>5. 0 \in {-1, 0}
    OBVIOUS
  <2> QED BY Zenon, <1>8, <2>1, <2>2, <2>3, <2>4, <2>5 DEF OwnWork
<1> QED BY Zenon, <1>7, <1>10, <1>11, <1>12 DEF IopInv

(* a turn of the loop of iop_continue downwards, at the master *)
LEMMA DownMaster ==
    ASSUME IopInv, NEW c \in Contexts, iopCtx[c].iop = 0, StepDown(c)
    PROVE  IopInv'
<1>1. iopCtx[c].pc = "loop" /\ iopPkt[0].dir = "down" /\ Moves(c, 0)
    BY Zenon DEF StepDown, Moves
<1>2. OwnWork /\ Moving(0)
    BY Zenon, <1>1, PhaseFacts DEF Active, Moving
<1>3. PICK n : n = iopPkt[0].cur + 1
    BY Zenon
<1>4. /\ iopPkt[0].cur \in {-1, 0} /\ n \in {0, 1} /\ ~(n >= stack_count(0))
      /\ iopSlaves => iopPkt[0].cur = 0 /\ n = 1
  <2>1. iopPkt[0].cur \in {-1, 0} /\ (iopPkt[0].cur = -1 => ~iopSlaves)
    BY Zenon, <1>1, <1>2 DEF OwnWork
  <2>2. stack_count(0) = 2
    BY Zenon, PacketFacts
  <2> QED BY <1>3, <2>1, <2>2
<1>5. CASE iopSlaves
  <2>1. /\ iopPkt' = [iopPkt EXCEPT ![0].cur = n] /\ Move(c, At(1))
        /\ UNCHANGED <<iopIncomplete, iopSlaves, iopDevice, iopCount, iopSignals,
                       iopAgain>>
    BY Zenon, <1>3, <1>4, <1>5 DEF StepDown, IopInv, SlavesInOrder
  <2> QED BY Zenon, <1>1, <1>2, <1>4, <1>5, <2>1, BeginSlavesStep
<1>6. CASE ~iopSlaves
  <2>1. PICK r \in DispatchReturns(0, n) :
           MasterDispatches(c, n, r, IF r = "completed" THEN "up" ELSE "down")
    BY Zenon, <1>3, <1>4, <1>6 DEF StepDown, MasterDispatches
  <2>2. PICK d \in {"down", "up"} : d = IF r = "completed" THEN "up" ELSE "down"
    BY Zenon
  <2> QED BY Zenon, <1>1, <1>2, <1>4, <1>6, <2>1, <2>2, DispatchStep
<1> QED BY Zenon, <1>5, <1>6

(* nothing happens to the packets other than the slave i *)
OthersAside(i) ==
    /\ iopPkt'[0].cur = iopPkt[0].cur
    /\ \A j \in Slaves : j # i =>
          /\ iopPkt'[j] = iopPkt[j] /\ iopCount'[j] = iopCount[j]
          /\ Moving(j)' <=> Moving(j)
          /\ j \in iopDevice' <=> j \in iopDevice
          /\ \A c \in Contexts : StartedAt(c, j)' <=> StartedAt(c, j)

(* They are where they were after such a step.                               *)
LEMMA OthersKept ==
    ASSUME NEW i \in Slaves, OthersAside(i)
    PROVE  \A j \in Slaves : j # i => /\ Undispatched(j)' <=> Undispatched(j)
                                      /\ Sent(j)' <=> Sent(j)
                                      /\ Over(j)' <=> Over(j)
                                      /\ Active(j)' <=> Active(j)
                                      /\ Launched(j)' <=> Launched(j)
                                      /\ iopPkt'[j].begun = iopPkt[j].begun
<1>1. ASSUME NEW j \in Slaves, j # i
      PROVE  /\ Undispatched(j)' <=> Undispatched(j)
             /\ Sent(j)' <=> Sent(j)
             /\ Over(j)' <=> Over(j)
             /\ Active(j)' <=> Active(j)
             /\ iopPkt'[j].begun = iopPkt[j].begun
    BY Zenon, <1>1 DEF OthersAside, Undispatched, Sent, Over, Active
<1> QED BY Zenon, <1>1 DEF Launched

(* The slaves are in order if the one that changes is, and is counted.       *)
LEMMA OneInOrder ==
    ASSUME SlavesInOrder, NEW i \in Slaves, OthersAside(i),
           Sent(i)' \/ Over(i)', ~Undispatched(i)',
           i # 1 => iopPkt'[i].begun, i = 1 => ~iopPkt'[1].begun,
           i \in iopDevice' => Sent(i)',
           iopIncomplete' = IF iopSlaves' THEN Cardinality(Incomplete') ELSE 0
    PROVE  SlavesInOrder'
<1>1. ASSUME NEW j \in Slaves
      PROVE  /\ Undispatched(j)' \/ Sent(j)' \/ Over(j)'
             /\ j # 1 /\ ~iopPkt'[j].begun => Undispatched(j)' /\ ~Active(j)'
             /\ j \in iopDevice' => Sent(j)'
             /\ \A c \in Contexts : StartedAt(c, j)' => ~Undispatched(j)'
  <2>1. CASE j = i
    BY Zenon, <2>1
  <2>2. CASE j # i
    BY Zenon, <2>2, OthersKept DEF SlavesInOrder, OthersAside
  <2> QED BY Zenon, <2>1, <2>2
<1>2. ~iopPkt'[1].begun
    BY Zenon, OthersKept, PacketFacts DEF SlavesInOrder
<1> QED BY Zenon, <1>1, <1>2 DEF SlavesInOrder

(* A slave that is moved, and is not complete, stays on its way.             *)
LEMMA OnTheWay ==
    ASSUME IopInv, AwaitsSlaves, NEW i \in Slaves, Active(i), ~Over(i),
           OthersAside(i), Sent(i)', Active(i)', iopPkt'[i].begun = iopPkt[i].begun,
           iopPkt'[0] = iopPkt[0], ~Active(0)', IopTypes', MovedByOne',
           iopSlaves' = iopSlaves, iopIncomplete' = iopIncomplete,
           iopSignals' = iopSignals
    PROVE  IopInv'
<1>1. SlavesInOrder /\ Launched(i)
    BY Zenon, PhaseFacts DEF IopInv
<1>2. ~Undispatched(i)' /\ ~Over(i)'
    BY DEF Sent, Undispatched, Over
<1>3. Launched(i)' /\ (i # 1 => iopPkt[i].begun)
    BY Zenon, <1>1, <1>2 DEF Launched
<1>4. /\ \A j \in Slaves : (Launched(j)' <=> Launched(j)) /\ (Over(j)' <=> Over(j))
      /\ \A j \in Slaves : Active(j)' <=> Active(j)
    BY Zenon, <1>1, <1>2, <1>3, OthersKept
<1>5. Incomplete' = Incomplete
    BY Zenon, <1>4 DEF Incomplete
<1>6. iopIncomplete' = IF iopSlaves' THEN Cardinality(Incomplete') ELSE 0
  <2>1. iopIncomplete = IF iopSlaves THEN Cardinality(Incomplete) ELSE 0
    BY Zenon, <1>1 DEF SlavesInOrder
  <2> QED BY <1>5, <2>1
<1>7. SlavesInOrder'
  <2>1. i = 1 => ~iopPkt'[1].begun
    BY Zenon, <1>1 DEF SlavesInOrder
  <2> QED BY Zenon, <1>1, <1>2, <1>3, <1>6, <2>1, OneInOrder
<1>8. \E k \in Slaves : BegunUpTo(k)'
  <2>1. PICK k \in Slaves : BegunUpTo(k)
    BY Zenon DEF AwaitsSlaves
  <2>2. k = NumSlaves \/ Active(k)' \/ \E c \in Contexts : StartedAt(c, k)'
    <3>1. CASE k = i
      BY Zenon, <3>1
    <3>2. CASE k # i
      BY Zenon, <1>4, <2>1, <3>2 DEF BegunUpTo, OthersAside
    <3> QED BY Zenon, <3>1, <3>2
  <2>3. \A j \in Slaves : Launched(j)' <=> j <= k
    BY Zenon, <1>4, <2>1 DEF BegunUpTo
  <2> QED BY Zenon, <2>2, <2>3 DEF BegunUpTo
<1>9. AwaitsSlaves'
    BY Zenon, <1>2, <1>4, <1>8 DEF AwaitsSlaves, SlavesOver
<1> QED BY Zenon, <1>7, <1>9 DEF IopInv

(* A step of a context c that moves, or takes up, only the slave i leaves    *)
(* the other packets alone.                                                  *)
LEMMA SlaveAside ==
    ASSUME IopTypes, MovedByOne, NEW c \in Contexts, NEW i \in Slaves, NEW ctx,
           Move(c, ctx), ctx.pc # "idle", ctx.iop = i,
           \A j \in Packets : j # i => ~Moves(c, j) /\ ~StartedAt(c, j),
           \A j \in Packets : j # i => iopPkt'[j] = iopPkt[j],
           \A j \in Slaves : j # i => iopCount'[j] = iopCount[j],
           \A j \in Packets : j # i => (j \in iopDevice' <=> j \in iopDevice)
    PROVE  OthersAside(i) /\ (Active(0)' <=> Active(0))
<1>1. 0 \in Packets /\ i # 0 /\ \A j \in Slaves : j \in Packets
    BY Zenon, PacketFacts
<1>2. \A j \in Packets : j # i => (Moving(j)' <=> Moving(j))
    BY Zenon, MoveFacts
<1>3. ASSUME NEW j \in Slaves, j # i, NEW d \in Contexts
      PROVE  StartedAt(d, j)' <=> StartedAt(d, j)
  <2>1. /\ StartedAt(c, j)' <=> ctx.pc = "started" /\ ctx.iop = j
        /\ d # c => (StartedAt(d, j)' <=> StartedAt(d, j))
    BY Zenon, MoveFacts
  <2>2. ~StartedAt(c, j)' /\ ~StartedAt(c, j)
    BY Zenon, <1>1, <1>3, <2>1
  <2> QED BY Zenon, <2>1, <2>2
<1> QED BY Zenon, <1>1, <1>2, <1>3 DEF OthersAside, Active

(* what the dispatch routine of the frame of a slave i answers, and does *)
SlaveDispatches(c, i, r, d) ==
    /\ r \in {"completed", "pending"}
    /\ d = IF r = "completed" THEN "up" ELSE "down"
    /\ iopPkt' = [iopPkt EXCEPT ![i].cur = 0, ![i].dir = d]
    /\ iopCount' = [iopCount EXCEPT ![i] = @ + 1]
    /\ IF r = "pending"
       THEN /\ Move(c, [pc |-> "started", iop |-> i, ret |-> "pending"])
            /\ iopDevice' = iopDevice \union {i}
       ELSE UNCHANGED <<iopCtx, iopDevice>>
    /\ UNCHANGED <<iopSlaves, iopIncomplete, iopSignals, iopAgain>>

(* A slave is dispatched, once.                                              *)
LEMMA DispatchSlave ==
    ASSUME IopInv, NEW c \in Contexts, NEW i \in Slaves, Moves(c, i), Undispatched(i),
           AwaitsSlaves, ~Over(i), NEW r, NEW d \in {"down", "up"},
           SlaveDispatches(c, i, r, d)
    PROVE  IopInv'
<1>1. /\ i \in Packets /\ i # 0 /\ 0 \in Packets /\ 0 \in Int
      /\ \A j \in Slaves : j \in Packets
    BY PacketFacts
<1>2. IopTypes /\ MovedByOne /\ SlavesInOrder
    BY Zenon DEF IopInv
<1>3. Active(i) /\ i \notin iopDevice
    BY Zenon, <1>2 DEF Active, Moving, MovedByOne
<1>4. UNCHANGED <<iopSlaves, iopIncomplete, iopSignals, iopAgain>>
    BY Zenon DEF SlaveDispatches
<1>5. /\ iopPkt' \in [Packets -> PktType]
      /\ iopPkt'[i].cur = 0 /\ iopPkt'[i].begun = iopPkt[i].begun
      /\ \A j \in Packets : j # i => iopPkt'[j] = iopPkt[j]
  <2>1. iopPkt' = [iopPkt EXCEPT ![i].cur = 0, ![i].dir = d]
    BY Zenon DEF SlaveDispatches
  <2> QED BY Zenon, <1>1, <1>2, <2>1, PktMoved
<1>6. /\ iopCount' \in [Packets -> Nat] /\ iopCount'[i] = 1
      /\ \A j \in Slaves : j # i => iopCount'[j] = iopCount[j]
  <2>1. /\ iopCount' = [iopCount EXCEPT ![i] = @ + 1] /\ iopCount[i] = 0
        /\ iopCount \in [Packets -> Nat]
    BY Zenon, <1>2 DEF IopTypes, Undispatched, SlaveDispatches
  <2> QED BY <1>1, <2>1
<1>7. Sent(i)'
    BY Zenon, <1>5, <1>6 DEF Sent
<1>8. \A j \in Packets : j # i => ~Moves(c, j) /\ ~StartedAt(c, j)
  <2>1. iopCtx[c].pc # "started"
    BY DEF Moves
  <2> QED BY Zenon, <2>1 DEF Moves, StartedAt
<1>9. /\ OthersAside(i) /\ (Active(0)' <=> Active(0)) /\ Active(i)' /\ MovedByOne'
      /\ iopCtx' \in [Contexts -> CtxType] /\ iopDevice' \subseteq Packets
  <2>1. CASE r = "pending"
    <3>1. PICK ctx : ctx = [pc |-> "started", iop |-> i, ret |-> "pending"]
      BY Zenon
    <3>2. /\ ctx \in CtxType /\ Move(c, ctx)
          /\ iopDevice' = iopDevice \union {i}
      BY Zenon, <1>1, <2>1, <3>1, CtxTypes DEF SlaveDispatches
    <3>3. ctx.pc # "loop" /\ ctx.pc # "idle" /\ ctx.iop = i
      BY <3>1
    <3>4. OthersAside(i) /\ (Active(0)' <=> Active(0))
      BY Zenon, <1>2, <1>5, <1>6, <1>8, <3>2, <3>3, SlaveAside
    <3>5. /\ iopCtx' \in [Contexts -> CtxType]
          /\ (\A j \in iopDevice' : j \in iopDevice \/ (j \in Packets /\ Moves(c, j)))
                => MovedByOne'
      BY Zenon, <1>2, <3>2, <3>3, Away
    <3>6. MovedByOne' /\ Active(i)' /\ iopDevice' \subseteq Packets
      BY Zenon, <1>1, <1>2, <3>2, <3>5 DEF Active, IopTypes
    <3> QED BY Zenon, <3>4, <3>5, <3>6
  <2>2. CASE r # "pending"
    <3>1. iopCtx' = iopCtx /\ iopDevice' = iopDevice
      BY Zenon, <2>2 DEF SlaveDispatches
    <3>2. OthersAside(i)
      BY Zenon, <1>1, <1>5, <1>6, <3>1, Stay DEF OthersAside
    <3> QED BY Zenon, <1>2, <1>3, <3>1, <3>2, Stay DEF Active, IopTypes, CtxType
  <2> QED BY Zenon, <2>1, <2>2
<1>10. IopTypes'
    BY Zenon, <1>2, <1>4, <1>5, <1>6, <1>9 DEF IopTypes, PktType, CtxType
<1>11. ~Active(0)' /\ iopPkt'[0] = iopPkt[0]
    BY Zenon, <1>1, <1>5, <1>9 DEF AwaitsSlaves
<1> QED BY Zenon, <1>3, <1>4, <1>5, <1>7, <1>9, <1>10, <1>11, OnTheWay

(* a turn of the loop of iop_continue downwards, at a slave *)
LEMMA DownSlave ==
    ASSUME IopInv, NEW c \in Contexts, NEW i \in Slaves, iopCtx[c].iop = i, StepDown(c)
    PROVE  IopInv'
<1>1. iopCtx[c].pc = "loop" /\ iopPkt[i].dir = "down" /\ Moves(c, i)
    BY Zenon DEF StepDown, Moves
<1>2. /\ i \in Packets /\ i # 0 /\ 0 \in Packets /\ stack_count(i) = 1
      /\ \A j \in Slaves : j \in Packets
    BY Zenon, PacketFacts
<1>3. IopTypes /\ MovedByOne /\ SlavesInOrder
    BY Zenon DEF IopInv
<1>4. Active(i) /\ i \notin iopDevice
    BY Zenon, <1>1, <1>3 DEF Active, Moving, MovedByOne
<1>5. AwaitsSlaves /\ ~Over(i)
  <2>1. ~Over(i)
    BY <1>1 DEF Over
  <2> QED BY Zenon, <1>4, <2>1, PhaseFacts
<1>6. PICK n : n = iopPkt[i].cur + 1
    BY Zenon
<1>7. CASE Sent(i)
  <2>1. n >= stack_count(i)
    BY <1>2, <1>6, <1>7 DEF Sent
  <2>2. HaltIop
    BY Zenon, <1>6, <2>1 DEF StepDown
  <2> QED BY Zenon, <2>2, HaltStep
<1>8. CASE Undispatched(i)
  <2>1. n = 0 /\ ~(n >= stack_count(i)) /\ ~(n + 1 < stack_count(i))
    BY <1>2, <1>6, <1>8 DEF Undispatched
  <2>2. DispatchReturns(i, n) = {"completed", "pending"}
    BY Zenon, <2>1 DEF DispatchReturns
  <2>3. PICK r \in {"completed", "pending"} :
           /\ iopPkt' = [iopPkt EXCEPT ![i].cur = n,
                                       ![i].dir = IF r = "completed" THEN "up" ELSE "down"]
           /\ iopCount' = [iopCount EXCEPT ![i] = @ + 1]
           /\ IF r = "slaves" THEN iop_append_slave ELSE UNCHANGED <<iopSlaves, iopIncomplete>>
           /\ IF r = "pending"
              THEN /\ Move(c, [pc |-> "started", iop |-> i, ret |-> "pending"])
                   /\ iopDevice' = iopDevice \union {i}
              ELSE UNCHANGED <<iopCtx, iopDevice>>
           /\ UNCHANGED <<iopSignals, iopAgain>>
    BY Zenon, <1>2, <1>6, <2>1, <2>2 DEF StepDown
  <2>4. PICK d \in {"down", "up"} : d = IF r = "completed" THEN "up" ELSE "down"
    BY Zenon
  <2>5. r # "slaves"
    OBVIOUS
  <2>6. SlaveDispatches(c, i, r, d)
    BY Zenon, <2>1, <2>3, <2>4, <2>5 DEF SlaveDispatches
  <2> QED BY Zenon, <1>1, <1>5, <1>8, <2>6, DispatchSlave
<1> QED BY Zenon, <1>3, <1>5, <1>7, <1>8 DEF SlavesInOrder

(* iop_continue after a device, of the master *)
LEMMA ContinueMaster ==
    ASSUME IopInv, NEW c \in Contexts, iop_continue(c, 0)
    PROVE  IopInv'
<1>1. /\ 0 \in iopDevice /\ iopCtx[c] = Idle /\ iopDevice' = iopDevice \ {0}
      /\ iopPkt' = [iopPkt EXCEPT ![0].dir = "up"] /\ Move(c, At(0))
      /\ UNCHANGED <<iopIncomplete, iopSlaves, iopCount, iopSignals, iopAgain>>
    BY Zenon DEF iop_continue
<1>2. IopTypes /\ MovedByOne /\ SlavesInOrder
    BY Zenon DEF IopInv
<1>3. 0 \in Packets /\ \A i \in Slaves : i \in Packets /\ i # 0
    BY Zenon, PacketFacts
<1>4. OwnWork /\ ~Moving(0)
    BY Zenon, <1>1, <1>2, PhaseFacts DEF Active, MovedByOne
<1>5. /\ iopPkt' \in [Packets -> PktType]
      /\ iopPkt'[0].cur = iopPkt[0].cur /\ iopPkt'[0].dir = "up"
      /\ \A j \in Packets : j # 0 => iopPkt'[j] = iopPkt[j]
    BY Zenon, <1>1, <1>2, <1>3, PktTurned
<1>6. \A i : ~Moves(c, i)
  <2>1. iopCtx[c].pc = "idle"
    BY Zenon, <1>1, CtxFields
  <2> QED BY <2>1 DEF Moves
<1>7. SlavesAside
    BY Zenon, <1>1, <1>2, <1>3, <1>5, <1>6, CtxFields, MasterAside
<1>8. /\ iopCtx' \in [Contexts -> CtxType]
      /\ \A i \in Packets : Moving(i)' <=> i = 0 \/ (Moving(i) /\ ~Moves(c, i))
      /\ /\ Moving(0) => Moves(c, 0)
         /\ 0 \notin iopDevice' /\ iopDevice' \subseteq iopDevice
         => MovedByOne'
    BY Zenon, <1>1, <1>2, <1>3, ToLoop
<1>9. MovedByOne' /\ Moving(0)' /\ 0 \notin iopDevice' /\ iopDevice' \subseteq Packets
    BY Zenon, <1>1, <1>2, <1>3, <1>4, <1>8 DEF IopTypes
<1>10. IopTypes'
    BY Zenon, <1>1, <1>2, <1>5, <1>8, <1>9 DEF IopTypes, PktType, CtxType
<1>11. SlavesInOrder'
    BY Zenon, <1>1, <1>2, <1>7, SlavesKept
<1>12. OwnWork'
  <2>1. iopPkt'[0].dir # "down"
    BY <1>5
  <2>2. iopPkt'[0].cur \in {0, 1} /\ Active(0)' /\ iopSignals' = 0
    BY Zenon, <1>1, <1>4, <1>5, <1>9 DEF OwnWork, Active
  <2>3. \/ SlavesUntouched' /\ ~iopSlaves'
        \/ SlavesOver' /\ SlavesAtRest' /\ iopSlaves'
    BY Zenon, <1>1, <1>4, <1>7, SlavesKept DEF OwnWork
  <2> QED BY Zenon, <2>1, <2>2, <2>3 DEF OwnWork
<1> QED BY Zenon, <1>9, <1>10, <1>11, <1>12 DEF IopInv

(* iop_continue after a device, of a slave *)
LEMMA ContinueSlave ==
    ASSUME IopInv, NEW c \in Contexts, NEW i \in Slaves, iop_continue(c, i)
    PROVE  IopInv'
<1>1. /\ i \in iopDevice /\ iopCtx[c] = Idle /\ iopDevice' = iopDevice \ {i}
      /\ iopPkt' = [iopPkt EXCEPT ![i].dir = "up"] /\ Move(c, At(i))
      /\ UNCHANGED <<iopIncomplete, iopSlaves, iopCount, iopSignals, iopAgain>>
    BY Zenon DEF iop_continue
<1>2. IopTypes /\ MovedByOne /\ SlavesInOrder
    BY Zenon DEF IopInv
<1>3. i \in Packets /\ i # 0 /\ 0 \in Packets /\ \A j \in Slaves : j \in Packets
    BY Zenon, PacketFacts
<1>4. Active(i) /\ ~Moving(i) /\ Sent(i)
    BY Zenon, <1>1, <1>2 DEF Active, MovedByOne, SlavesInOrder
<1>5. AwaitsSlaves /\ ~Over(i)
  <2>1. ~Over(i)
    BY <1>4 DEF Over, Sent
  <2> QED BY Zenon, <1>4, <2>1, PhaseFacts
<1>6. /\ iopPkt' \in [Packets -> PktType]
      /\ iopPkt'[i].cur = iopPkt[i].cur /\ iopPkt'[i].begun = iopPkt[i].begun
      /\ \A j \in Packets : j # i => iopPkt'[j] = iopPkt[j]
    BY Zenon, <1>1, <1>2, <1>3, PktTurned
<1>7. \A j : ~Moves(c, j) /\ ~StartedAt(c, j)
  <2>1. iopCtx[c].pc = "idle"
    BY Zenon, <1>1, CtxFields
  <2> QED BY <2>1 DEF Moves, StartedAt
<1>8. OthersAside(i) /\ (Active(0)' <=> Active(0))
  <2>1. At(i).pc # "idle" /\ At(i).iop = i
    BY CtxFields
  <2>2. \A j \in Packets : j # i => (j \in iopDevice' <=> j \in iopDevice)
    BY Zenon, <1>1
  <2> QED BY Zenon, <1>1, <1>2, <1>6, <1>7, <2>1, <2>2, SlaveAside
<1>9. /\ iopCtx' \in [Contexts -> CtxType]
      /\ \A j \in Packets : Moving(j)' <=> j = i \/ (Moving(j) /\ ~Moves(c, j))
      /\ /\ Moving(i) => Moves(c, i)
         /\ i \notin iopDevice' /\ iopDevice' \subseteq iopDevice
         => MovedByOne'
    BY Zenon, <1>1, <1>2, <1>3, ToLoop
<1>10. MovedByOne' /\ Active(i)' /\ iopDevice' \subseteq Packets
    BY Zenon, <1>1, <1>2, <1>3, <1>4, <1>9 DEF IopTypes, Active
<1>11. IopTypes'
    BY Zenon, <1>1, <1>2, <1>6, <1>9, <1>10 DEF IopTypes, PktType, CtxType
<1>12. Sent(i)' /\ ~Active(0)' /\ iopPkt'[0] = iopPkt[0]
    BY Zenon, <1>1, <1>3, <1>4, <1>5, <1>6, <1>8 DEF Sent, AwaitsSlaves
<1> QED BY Zenon, <1>1, <1>4, <1>5, <1>6, <1>8, <1>10, <1>11, <1>12, OnTheWay

(* do_complete: the packet is complete, and the event is signalled           *)
LEMMA CompleteStep ==
    ASSUME IopInv, NEW c \in Contexts, Moves(c, 0), OwnWork, iopPkt[0].dir = "up",
           do_complete(c)
    PROVE  IopInv'
<1>1. /\ iopSignals' = iopSignals + 1 /\ iopPkt' = [iopPkt EXCEPT ![0].cur = -1]
      /\ Move(c, [Idle EXCEPT !.ret = IF c = Sender THEN "completed" ELSE "none"])
      /\ UNCHANGED <<iopIncomplete, iopSlaves, iopDevice, iopCount, iopAgain>>
    BY Zenon DEF do_complete
<1>2. IopTypes /\ MovedByOne /\ SlavesInOrder
    BY Zenon DEF IopInv
<1>3. 0 \in Packets /\ -1 \in Int /\ \A i \in Slaves : i \in Packets /\ i # 0
    BY PacketFacts
<1>4. PICK r \in {"none", "pending", "completed"} :
         r = IF c = Sender THEN "completed" ELSE "none"
    BY Zenon
<1>5. PICK ctx \in CtxType : ctx = [Idle EXCEPT !.ret = r]
    BY Zenon, CtxTypes
<1>6. Move(c, ctx) /\ ctx.pc = "idle"
  <2>1. Move(c, [Idle EXCEPT !.ret = IF c = Sender THEN "completed" ELSE "none"])
    BY Zenon, <1>1
  <2>2. Move(c, [Idle EXCEPT !.ret = r])
    BY Zenon, <1>4, <2>1
  <2>3. ctx.pc = "idle"
    BY Zenon, <1>5, CtxFields
  <2> QED BY Zenon, <1>5, <2>2, <2>3
<1>7. ctx.pc # "loop" /\ ctx.pc # "started"
    BY <1>6
<1>8. /\ iopPkt' \in [Packets -> PktType]
      /\ iopPkt'[0].cur = -1 /\ iopPkt'[0].dir = iopPkt[0].dir
      /\ \A j \in Packets : j # 0 => iopPkt'[j] = iopPkt[j]
  <2>1. iopPkt' = [iopPkt EXCEPT ![0].cur = -1]
    BY Zenon, <1>1
  <2> QED BY Zenon, <1>2, <1>3, <2>1, PktAdvanced
<1>9. \A i \in Slaves : ~Moves(c, i)
    BY Zenon, <1>3 DEF Moves
<1>10. SlavesAside
  <2>1. iopDevice' = iopDevice /\ iopCount' = iopCount
    BY Zenon, <1>1
  <2> QED BY Zenon, <1>2, <1>3, <1>6, <1>8, <1>9, <2>1, MasterAside
<1>11. /\ iopCtx' \in [Contexts -> CtxType]
       /\ \A i \in Packets : Moving(i)' <=> Moving(i) /\ ~Moves(c, i)
       /\ (\A i \in iopDevice' : i \in iopDevice \/ (i \in Packets /\ Moves(c, i)))
             => MovedByOne'
    BY Zenon, <1>2, <1>6, <1>7, Away
<1>12. MovedByOne' /\ ~Active(0)'
  <2>1. 0 \notin iopDevice
    BY Zenon, <1>2 DEF MovedByOne, Moving
  <2> QED BY Zenon, <1>1, <1>3, <1>11, <2>1 DEF Active
<1>13. iopSignals' = 1
    BY <1>1 DEF OwnWork
<1>14. IopTypes'
    BY Zenon, <1>1, <1>2, <1>8, <1>11, <1>13 DEF IopTypes, PktType, CtxType
<1>15. SlavesInOrder'
    BY Zenon, <1>1, <1>2, <1>10, SlavesKept
<1>16. IsComplete'
  <2>1. IF iopSlaves THEN SlavesOver /\ SlavesAtRest ELSE SlavesUntouched
    <3>1. iopPkt[0].dir # "down"
      OBVIOUS
    <3> QED BY Zenon, <3>1 DEF OwnWork
  <2>2. SlavesAtRest
    BY Zenon, <2>1 DEF SlavesUntouched, SlavesAtRest
  <2>3. SlavesAtRest' /\ IF iopSlaves' THEN SlavesOver' ELSE SlavesUntouched'
    BY Zenon, <1>1, <1>10, <2>1, <2>2, SlavesKept
  <2> QED BY Zenon, <1>8, <1>12, <1>13, <2>3 DEF IsComplete
<1> QED BY Zenon, <1>12, <1>14, <1>15, <1>16 DEF IopInv

(* what the completion routine of the first frame of the master does *)
MasterCompletes(c, r, d) ==
    /\ d = IF r = "continue" THEN "down" ELSE "up"
    /\ iopPkt' = [iopPkt EXCEPT ![0].cur = 0, ![0].dir = d]
    /\ iopAgain' = IF r = "continue" THEN iopAgain + 1 ELSE iopAgain
    /\ IF r = "pending"
       THEN /\ Move(c, [pc |-> "started", iop |-> 0, ret |-> "pending"])
            /\ iopDevice' = iopDevice \union {0}
       ELSE UNCHANGED <<iopCtx, iopDevice>>
    /\ UNCHANGED <<iopIncomplete, iopSlaves, iopCount, iopSignals>>

(* A completion routine of the master leaves it with a device, or at work,   *)
(* maybe downwards again.                                                    *)
LEMMA RoutineStep ==
    ASSUME IopInv, NEW c \in Contexts, Moves(c, 0), OwnWork, iopPkt[0].dir = "up",
           NEW r, NEW d \in {"down", "up"}, MasterCompletes(c, r, d)
    PROVE  IopInv'
<1>1. IopTypes /\ MovedByOne /\ SlavesInOrder
    BY Zenon DEF IopInv
<1>2. 0 \in Packets /\ 0 \in Int /\ \A i \in Slaves : i \in Packets /\ i # 0
    BY PacketFacts
<1>3. /\ iopPkt' \in [Packets -> PktType]
      /\ iopPkt'[0].cur = 0 /\ iopPkt'[0].dir = d
      /\ \A j \in Packets : j # 0 => iopPkt'[j] = iopPkt[j]
  <2>1. iopPkt' = [iopPkt EXCEPT ![0].cur = 0, ![0].dir = d]
    BY Zenon DEF MasterCompletes
  <2> QED BY Zenon, <1>1, <1>2, <2>1, PktMoved
<1>4. /\ iopIncomplete' = iopIncomplete /\ iopSlaves' = iopSlaves
      /\ iopCount' = iopCount /\ iopSignals' = iopSignals
    BY Zenon DEF MasterCompletes
<1>5. Moving(0) /\ 0 \notin iopDevice
    BY Zenon, <1>1 DEF Moving, MovedByOne
<1>6. SlavesAside /\ MovedByOne' /\ iopCtx' \in [Contexts -> CtxType]
      /\ iopDevice' \subseteq Packets /\ Active(0)'
  <2>1. CASE r = "pending"
    <3>1. PICK ctx : ctx = [pc |-> "started", iop |-> 0, ret |-> "pending"]
      BY Zenon
    <3>2. /\ ctx \in CtxType /\ Move(c, ctx) /\ ctx.pc # "loop" /\ ctx.iop = 0
          /\ iopDevice' = iopDevice \union {0}
      <4>1. ctx \in CtxType
        BY Zenon, <1>2, <3>1, CtxTypes
      <4>2. ctx.pc # "loop" /\ ctx.iop = 0
        BY <3>1
      <4> QED BY Zenon, <2>1, <3>1, <4>1, <4>2 DEF MasterCompletes
    <3>3. \A i \in Slaves : ~Moves(c, i)
      BY Zenon, <1>2 DEF Moves
    <3>4. SlavesAside
      BY Zenon, <1>1, <1>2, <1>3, <1>4, <3>2, <3>3, MasterAside
    <3>5. /\ iopCtx' \in [Contexts -> CtxType]
          /\ (\A i \in iopDevice' : i \in iopDevice \/ (i \in Packets /\ Moves(c, i)))
                => MovedByOne'
      BY Zenon, <1>1, <3>2, Away
    <3> QED BY Zenon, <1>1, <1>2, <3>2, <3>4, <3>5 DEF IopTypes, Active
  <2>2. CASE r # "pending"
    <3>1. iopCtx' = iopCtx /\ iopDevice' = iopDevice
      BY Zenon, <2>2 DEF MasterCompletes
    <3>2. SlavesAside
      BY Zenon, <1>2, <1>3, <1>4, <3>1, Stay DEF SlavesAside
    <3> QED BY Zenon, <1>1, <1>5, <3>1, <3>2, Stay DEF IopTypes, CtxType, Active
  <2> QED BY Zenon, <2>1, <2>2
<1>7. iopAgain' \in Nat
    BY <1>1 DEF IopTypes, MasterCompletes
<1>8. IopTypes'
    BY Zenon, <1>1, <1>3, <1>4, <1>6, <1>7 DEF IopTypes, PktType, CtxType
<1>9. SlavesInOrder'
    BY Zenon, <1>1, <1>4, <1>6, SlavesKept
<1>10. OwnWork'
  <2>1. iopPkt'[0].cur # -1 /\ iopPkt'[0].cur \in {-1, 0} /\ iopPkt'[0].cur \in {0, 1}
    BY <1>3
  <2>2. iopPkt[0].dir # "down"
    OBVIOUS
  <2>3. \/ SlavesUntouched' /\ ~iopSlaves'
        \/ SlavesOver' /\ SlavesAtRest' /\ iopSlaves'
    BY Zenon, <1>4, <1>6, <2>2, SlavesKept DEF OwnWork
  <2> QED BY Zenon, <1>4, <1>6, <2>1, <2>3 DEF OwnWork
<1> QED BY Zenon, <1>6, <1>8, <1>9, <1>10 DEF IopInv

(* a turn of the loop of iop_continue upwards, at the master *)
LEMMA UpMaster ==
    ASSUME IopInv, NEW c \in Contexts, iopCtx[c].iop = 0, StepUp(c)
    PROVE  IopInv'
<1>1. iopCtx[c].pc = "loop" /\ iopPkt[0].dir = "up" /\ Moves(c, 0)
    BY Zenon DEF StepUp, Moves
<1>2. OwnWork /\ Moving(0)
    BY Zenon, <1>1, PhaseFacts DEF Active, Moving
<1>3. PICK n : n = iopPkt[0].cur - 1
    BY Zenon
<1>4. iopPkt[0].cur \in {0, 1}
    BY Zenon, <1>1, <1>2 DEF OwnWork
<1>5. n \in {-1, 0} /\ ~(n < -1)
    BY <1>3, <1>4
<1>6. iopIncomplete = 0
  <2>1. iopIncomplete = IF iopSlaves THEN Cardinality(Incomplete) ELSE 0
    BY Zenon DEF IopInv, SlavesInOrder
  <2>2. iopSlaves => SlavesOver
    <3>1. iopPkt[0].dir # "down"
      BY <1>1
    <3> QED BY Zenon, <1>2, <3>1 DEF OwnWork
  <2>3. iopSlaves => Incomplete = {}
    BY Zenon, <2>2 DEF SlavesOver, Incomplete
  <2> QED BY <2>1, <2>3, FS_EmptySet
<1>7. ~(n < -1 \/ (n > -1 /\ 0 = 0 /\ iopIncomplete # 0))
    BY Zenon, <1>5, <1>6
<1>8. CASE n = -1
  <2>1. do_complete(c)
    BY Zenon, <1>3, <1>7, <1>8 DEF StepUp
  <2> QED BY Zenon, <1>1, <1>2, <2>1, CompleteStep
<1>9. CASE n = 0
  <2>1. n # -1
    BY <1>9
  <2>2. Complete(c, 0, n)
    BY Zenon, <1>3, <1>7, <2>1 DEF StepUp
  <2>3. PICK r : MasterCompletes(c, r, IF r = "continue" THEN "down" ELSE "up")
    BY Zenon, <1>9, <2>2 DEF Complete, MasterCompletes
  <2>4. PICK d \in {"down", "up"} : d = IF r = "continue" THEN "down" ELSE "up"
    BY Zenon
  <2> QED BY Zenon, <1>1, <1>2, <2>3, <2>4, RoutineStep
<1> QED BY Zenon, <1>5, <1>8, <1>9

(* A slave that completes is taken from the incomplete ones.                 *)
LEMMA OneOver ==
    ASSUME NEW i \in Slaves, OthersAside(i), ~Over(i), Over(i)'
    PROVE  /\ Incomplete' = Incomplete \ {i} /\ i \in Incomplete
           /\ IsFiniteSet(Incomplete)
           /\ Cardinality(Incomplete') = Cardinality(Incomplete) - 1
           /\ Cardinality(Incomplete') \in Nat
           /\ Cardinality(Incomplete') = 0 <=> SlavesOver'
<1>1. Incomplete' = Incomplete \ {i} /\ i \in Incomplete
    BY Zenon, OthersKept DEF Incomplete
<1>2. IsFiniteSet(Slaves)
    BY FS_Interval, IopAssumption DEF Slaves
<1>3. Incomplete \subseteq Slaves /\ Incomplete' \subseteq Slaves
    BY Zenon DEF Incomplete
<1>4. IsFiniteSet(Incomplete) /\ IsFiniteSet(Incomplete')
    BY Zenon, <1>2, <1>3, FS_Subset
<1>5. Cardinality(Incomplete \ {i}) = Cardinality(Incomplete) - 1
    BY <1>1, <1>4, FS_RemoveElement
<1>6. Cardinality(Incomplete') \in Nat
    BY Zenon, <1>4, FS_CardinalityType
<1>7. Cardinality(Incomplete') = 0 <=> Incomplete' = {}
    BY Zenon, <1>4, FS_EmptySet
<1>8. Incomplete' = {} <=> SlavesOver'
    BY Zenon DEF Incomplete, SlavesOver
<1> QED BY Zenon, <1>1, <1>4, <1>5, <1>6, <1>7, <1>8

(* A slave completes: the last one goes on with the master, the others look  *)
(* after the next slave.                                                     *)
LEMMA SlaveCompleteStep ==
    ASSUME IopInv, NEW c \in Contexts, NEW i \in Slaves, Moves(c, i), Sent(i),
           iopPkt[i].dir = "up", AwaitsSlaves, SlaveComplete(c, i)
    PROVE  IopInv'
<1>1. /\ i \in Packets /\ i # 0 /\ 0 \in Packets
      /\ \A j \in Slaves : j \in Packets /\ j # 0
    BY Zenon, PacketFacts
<1>2. IopTypes /\ MovedByOne /\ SlavesInOrder
    BY Zenon DEF IopInv
<1>3. Active(i) /\ Moving(i) /\ i \notin iopDevice /\ Launched(i)
    BY Zenon, <1>2, PhaseFacts DEF Active, Moving, MovedByOne
<1>4. /\ iopIncomplete' = iopIncomplete - 1
      /\ UNCHANGED <<iopSlaves, iopDevice, iopCount, iopSignals, iopAgain>>
    BY Zenon DEF SlaveComplete
<1>5. /\ iopPkt' \in [Packets -> PktType]
      /\ iopPkt'[i].cur = -1 /\ iopPkt'[i].dir = "up"
      /\ iopPkt'[i].begun = iopPkt[i].begun
      /\ iopPkt'[0].cur = 1
      /\ iopPkt'[0].dir = IF iopIncomplete = 1 THEN "up" ELSE "down"
      /\ \A j \in Slaves : j # i => iopPkt'[j] = iopPkt[j]
  <2>1. PICK d \in {"down", "up"} : d = IF iopIncomplete = 1 THEN "up" ELSE "down"
    BY Zenon
  <2>2. iopPkt[0].dir = "down" /\ iopPkt[0].cur = 1
    BY Zenon DEF AwaitsSlaves
  <2>3. iopPkt' = [iopPkt EXCEPT ![i].cur = -1, ![0].dir = d]
    <3>1. iopPkt' = [iopPkt EXCEPT ![i].cur = -1,
                                   ![0].dir = IF iopIncomplete = 1 THEN "up" ELSE @]
      BY Zenon DEF SlaveComplete
    <3>2. iopPkt \in [Packets -> PktType]
      BY Zenon, <1>2 DEF IopTypes, PktType
    <3>3. [iopPkt EXCEPT ![i].cur = -1][0] = iopPkt[0]
      BY Zenon, <1>1, <3>2
    <3> QED BY <1>1, <2>1, <2>2, <3>1, <3>2, <3>3
  <2> QED BY Zenon, <1>1, <1>2, <2>1, <2>2, <2>3, PktDone
<1>6. Over(i)' /\ ~Over(i) /\ ~Undispatched(i)' /\ ~Undispatched(i)
  <2>1. Over(i)'
    BY Zenon, <1>4, <1>5 DEF Over, Sent
  <2>2. ~Undispatched(i)' /\ ~Over(i) /\ ~Undispatched(i)
    BY <1>5 DEF Over, Sent, Undispatched
  <2> QED BY Zenon, <2>1, <2>2
<1>7. \A j \in Packets : j # i => ~Moves(c, j) /\ ~StartedAt(c, j)
  <2>1. iopCtx[c].pc # "started"
    BY DEF Moves
  <2> QED BY Zenon, <2>1 DEF Moves, StartedAt
<1>8. PICK ctx : ctx = IF iopIncomplete = 1 THEN At(0)
                       ELSE [pc |-> "started", iop |-> i, ret |-> "completed"]
    BY Zenon
<1>9. /\ ctx \in CtxType /\ Move(c, ctx)
      /\ IF iopIncomplete = 1 THEN ctx = At(0) ELSE ctx.pc = "started" /\ ctx.iop = i
  <2>1. Move(c, ctx)
    BY Zenon, <1>8 DEF SlaveComplete
  <2>2. ctx \in CtxType
    BY Zenon, <1>1, <1>8, CtxTypes
  <2>3. (ctx.pc = "started" /\ ctx.iop = i) \/ iopIncomplete = 1
    BY <1>8
  <2> QED BY Zenon, <1>8, <2>1, <2>2, <2>3
<1>10. ~Moves(c, 0)
    BY Zenon, <1>1, <1>7
<1>11. /\ iopCtx' \in [Contexts -> CtxType] /\ MovedByOne'
       /\ ~Moving(i)' /\ (Moving(0)' <=> iopIncomplete = 1)
       /\ iopIncomplete # 1 => StartedAt(c, i)'
       /\ \A j \in Slaves : j # i => (Moving(j)' <=> Moving(j))
       /\ \A j \in Slaves, d \in Contexts : j # i => (StartedAt(d, j)' <=> StartedAt(d, j))
  <2>1. ~Moving(0) /\ 0 \notin iopDevice
    BY Zenon DEF AwaitsSlaves, Active
  <2>2. CASE iopIncomplete = 1
    <3>1. Move(c, At(0))
      BY Zenon, <1>9, <2>2
    <3>2. /\ iopCtx' \in [Contexts -> CtxType]
          /\ \A j : ~StartedAt(c, j)'
          /\ \A j : \A d \in Contexts : d # c => (StartedAt(d, j)' <=> StartedAt(d, j))
          /\ \A j \in Packets : Moving(j)' <=> j = 0 \/ (Moving(j) /\ ~Moves(c, j))
          /\ /\ Moving(0) => Moves(c, 0)
             /\ 0 \notin iopDevice' /\ iopDevice' \subseteq iopDevice
             => MovedByOne'
      BY Zenon, <1>1, <1>2, <3>1, ToLoop
    <3>3. MovedByOne'
      BY Zenon, <1>4, <2>1, <3>2
    <3>4. ~Moving(i)' /\ Moving(0)' /\ \A j \in Slaves : j # i => (Moving(j)' <=> Moving(j))
      BY Zenon, <1>1, <1>7, <3>2
    <3>5. \A j \in Slaves, d \in Contexts : j # i => (StartedAt(d, j)' <=> StartedAt(d, j))
      BY Zenon, <1>1, <1>7, <3>2
    <3> QED BY Zenon, <2>2, <3>2, <3>3, <3>4, <3>5
  <2>3. CASE iopIncomplete # 1
    <3>1. ctx.pc = "started" /\ ctx.iop = i
      BY Zenon, <1>9, <2>3
    <3>2. ctx.pc # "loop"
      BY <3>1
    <3>3. /\ iopCtx' \in [Contexts -> CtxType]
          /\ \A j : StartedAt(c, j)' <=> ctx.pc = "started" /\ ctx.iop = j
          /\ \A j : \A d \in Contexts : d # c => (StartedAt(d, j)' <=> StartedAt(d, j))
          /\ \A j \in Packets : Moving(j)' <=> Moving(j) /\ ~Moves(c, j)
          /\ (\A j \in iopDevice' : j \in iopDevice \/ (j \in Packets /\ Moves(c, j)))
                => MovedByOne'
      BY Zenon, <1>2, <1>9, <3>2, Away
    <3>4. MovedByOne' /\ StartedAt(c, i)'
      BY Zenon, <1>4, <3>1, <3>3
    <3>5. ~Moving(i)' /\ ~Moving(0)' /\ \A j \in Slaves : j # i => (Moving(j)' <=> Moving(j))
      BY Zenon, <1>1, <1>7, <2>1, <3>3
    <3>6. \A j \in Slaves, d \in Contexts : j # i => (StartedAt(d, j)' <=> StartedAt(d, j))
      BY Zenon, <1>1, <1>7, <3>1, <3>3
    <3> QED BY Zenon, <2>3, <3>3, <3>4, <3>5, <3>6
  <2> QED BY Zenon, <2>2, <2>3
<1>12. OthersAside(i)
    BY Zenon, <1>4, <1>5, <1>11 DEF OthersAside, AwaitsSlaves
<1>13. /\ iopIncomplete' = Cardinality(Incomplete') /\ iopIncomplete' \in Nat
       /\ iopIncomplete = 1 <=> SlavesOver'
  <2>1. /\ Cardinality(Incomplete') = Cardinality(Incomplete) - 1
        /\ Cardinality(Incomplete') \in Nat
        /\ Cardinality(Incomplete') = 0 <=> SlavesOver'
    BY Zenon, <1>6, <1>12, OneOver
  <2>2. iopIncomplete = Cardinality(Incomplete) /\ iopIncomplete \in Int
    BY Zenon, <1>2 DEF SlavesInOrder, AwaitsSlaves, IopTypes
  <2>3. iopIncomplete' = Cardinality(Incomplete')
    BY Zenon, <1>4, <2>1, <2>2
  <2>4. iopIncomplete = 1 <=> iopIncomplete' = 0
    BY <1>4, <2>2
  <2> QED BY Zenon, <2>1, <2>3, <2>4
<1>14. SlavesInOrder'
  <2>1. /\ i # 1 => iopPkt'[i].begun
        /\ i = 1 => ~iopPkt'[1].begun
    BY Zenon, <1>2, <1>3, <1>5 DEF Launched, SlavesInOrder
  <2>2. iopIncomplete' = IF iopSlaves' THEN Cardinality(Incomplete') ELSE 0
    BY Zenon, <1>4, <1>13 DEF AwaitsSlaves
  <2>3. i \notin iopDevice'
    BY Zenon, <1>3, <1>4
  <2> QED BY Zenon, <1>2, <1>6, <1>12, <2>1, <2>2, <2>3, OneInOrder
<1>15. IopTypes'
  <2>1. iopIncomplete' \in Int
    BY <1>13
  <2> QED BY Zenon, <1>2, <1>4, <1>5, <1>11, <2>1 DEF IopTypes, PktType, CtxType
<1>16. Launched(i)' /\ ~Active(i)'
    BY Zenon, <1>3, <1>4, <1>5, <1>6, <1>11 DEF Launched, Active
<1>17. CASE iopIncomplete = 1
  <2>1. SlavesAtRest'
    <3>1. ASSUME NEW j \in Slaves, j # i PROVE ~Active(j)'
      <4>1. Over(j)
        BY Zenon, <1>12, <1>13, <1>17, <3>1, OthersKept DEF SlavesOver
      <4>2. ~Active(j)
        BY Zenon, <4>1, PhaseFacts DEF AwaitsSlaves
      <4> QED BY Zenon, <1>12, <3>1, <4>2, OthersKept
    <3> QED BY Zenon, <1>16, <3>1 DEF SlavesAtRest
  <2>2. iopPkt'[0].dir = "up" /\ iopPkt'[0].dir # "down" /\ iopPkt'[0].cur \in {0, 1}
    BY <1>5, <1>17
  <2>3. OwnWork'
    BY Zenon, <1>4, <1>11, <1>13, <1>17, <2>1, <2>2 DEF OwnWork, AwaitsSlaves, Active
  <2> QED BY Zenon, <1>11, <1>14, <1>15, <2>3 DEF IopInv
<1>18. CASE iopIncomplete # 1
  <2>1. PICK k \in Slaves : BegunUpTo(k)
    BY Zenon DEF AwaitsSlaves
  <2>2. BegunUpTo(k)'
    <3>1. \A j \in Slaves : Launched(j)' <=> j <= k
      BY Zenon, <1>3, <1>12, <1>16, <2>1, OthersKept DEF BegunUpTo
    <3>2. k = NumSlaves \/ Active(k)' \/ \E d \in Contexts : StartedAt(d, k)'
      <4>1. CASE k = i
        BY Zenon, <1>11, <1>18, <4>1
      <4>2. CASE k # i
        BY Zenon, <1>12, <2>1, <4>2, OthersKept DEF BegunUpTo, OthersAside
      <4> QED BY Zenon, <4>1, <4>2
    <3> QED BY Zenon, <3>1, <3>2 DEF BegunUpTo
  <2>3. \A j \in Slaves : Launched(j)' => (Active(j)' <=> ~Over(j)')
    BY Zenon, <1>6, <1>12, <1>16, OthersKept DEF AwaitsSlaves
  <2>4. ~Active(0)'
    BY Zenon, <1>4, <1>11, <1>18 DEF Active, AwaitsSlaves
  <2>5. AwaitsSlaves'
    BY Zenon, <1>4, <1>5, <1>13, <1>18, <2>2, <2>3, <2>4 DEF AwaitsSlaves
  <2> QED BY Zenon, <1>11, <1>14, <1>15, <2>5 DEF IopInv
<1> QED BY Zenon, <1>17, <1>18

(* a turn of the loop of iop_continue upwards, at a slave *)
LEMMA UpSlave ==
    ASSUME IopInv, NEW c \in Contexts, NEW i \in Slaves, iopCtx[c].iop = i, StepUp(c)
    PROVE  IopInv'
<1>1. iopCtx[c].pc = "loop" /\ iopPkt[i].dir = "up" /\ Moves(c, i) /\ i # 0
    BY Zenon, PacketFacts DEF StepUp, Moves
<1>2. (AwaitsSlaves /\ ~Over(i)) \/ (BeginsAgain /\ Over(i))
    BY Zenon, <1>1, PhaseFacts DEF Active, Moving
<1>3. PICK n : n = iopPkt[i].cur - 1
    BY Zenon
<1>4. CASE AwaitsSlaves /\ ~Over(i)
  <2>1. Sent(i)
    <3>1. ~Undispatched(i)
      BY <1>1 DEF Undispatched
    <3> QED BY Zenon, <1>4, <3>1 DEF IopInv, SlavesInOrder
  <2>2. n = -1 /\ ~(n < -1) /\ ~(n > -1)
    BY <1>3, <2>1 DEF Sent
  <2>3. SlaveComplete(c, i)
    BY Zenon, <1>1, <1>3, <2>2 DEF StepUp
  <2> QED BY Zenon, <1>1, <1>4, <2>1, <2>3, SlaveCompleteStep
<1>5. CASE Over(i)
  <2>1. n < -1
    BY <1>3, <1>5 DEF Over
  <2>2. HaltIop
    BY Zenon, <1>3, <2>1 DEF StepUp
  <2> QED BY Zenon, <2>2, HaltStep
<1> QED BY Zenon, <1>2, <1>4, <1>5

(* A context leaves iop_continue, and another looks after the slave it       *)
(* looked after, if one has to.                                              *)
LEMMA LeaveStep ==
    ASSUME IopInv, NEW c \in Contexts, iopCtx[c].pc = "started",
           NEW ctx \in CtxType, ctx.pc = "idle", Move(c, ctx),
           UNCHANGED <<iopPkt, iopIncomplete, iopSlaves, iopDevice, iopCount,
                       iopSignals, iopAgain>>,
           \A k \in Slaves : StartedAt(c, k) /\ BegunUpTo(k) => k = NumSlaves
    PROVE  IopInv'
<1>1. IopTypes /\ MovedByOne /\ SlavesInOrder
    BY Zenon DEF IopInv
<1>2. ctx.pc # "loop" /\ ctx.pc # "started" /\ iopCtx[c].pc # "loop"
    OBVIOUS
<1>3. \A i : ~Moves(c, i)
    BY Zenon, <1>2 DEF Moves
<1>4. /\ iopCtx' \in [Contexts -> CtxType]
      /\ \A d \in Contexts : d # c => iopCtx'[d] = iopCtx[d]
      /\ \A i : StartedAt(c, i)' <=> ctx.pc = "started" /\ ctx.iop = i
      /\ \A i : \A d \in Contexts : d # c => (StartedAt(d, i)' <=> StartedAt(d, i))
      /\ \A i \in Packets : Moving(i)' <=> Moving(i) /\ ~Moves(c, i)
      /\ (\A i \in iopDevice' : i \in iopDevice \/ (i \in Packets /\ Moves(c, i)))
            => MovedByOne'
    BY Zenon, <1>1, <1>2, Away
<1>5. MovedByOne' /\ \A i \in Packets : (Moving(i)' <=> Moving(i)) /\ (Active(i)' <=> Active(i))
    BY Zenon, <1>3, <1>4 DEF Active
<1>6. IopTypes'
    BY Zenon, <1>1, <1>4 DEF IopTypes, CtxType
<1>7. 0 \in Packets /\ 1 \in Packets /\ Sender \in Contexts /\ \A i \in Slaves : i \in Packets
    BY Zenon, PacketFacts
<1>8. SlavesAside
    BY Zenon, <1>2, <1>4, <1>5, <1>7 DEF SlavesAside
<1>9. SlavesInOrder'
    BY Zenon, <1>1, <1>8, SlavesKept
<1>10. iopCtx[Sender].pc = "loop" => iopCtx'[Sender].pc = "loop"
    BY Zenon, <1>2, <1>4, <1>7
<1>11. Unsent => Unsent'
    BY Zenon, <1>5, <1>7, <1>8, SlavesKept DEF Unsent
<1>12. OwnWork => OwnWork'
    BY Zenon, <1>5, <1>7, <1>8, <1>10, SlavesKept DEF OwnWork
<1>13. AwaitsSlaves => AwaitsSlaves'
  <2>1. ASSUME NEW k \in Slaves, BegunUpTo(k) PROVE BegunUpTo(k)'
    <3>1. k = NumSlaves \/ Active(k)' \/ \E d \in Contexts : StartedAt(d, k)'
      BY Zenon, <1>4, <1>5, <1>7, <2>1 DEF BegunUpTo
    <3>2. \A i \in Slaves : Launched(i)' <=> i <= k
      BY Zenon, <1>8, <2>1, SlavesKept DEF BegunUpTo
    <3> QED BY Zenon, <3>1, <3>2 DEF BegunUpTo
  <2> QED BY Zenon, <1>5, <1>7, <1>8, <2>1, SlavesKept DEF AwaitsSlaves
<1>14. BeginsAgain => BeginsAgain'
    BY Zenon, <1>5, <1>7, <1>8, SlavesKept DEF BeginsAgain
<1>15. IsComplete => IsComplete'
    BY Zenon, <1>5, <1>7, <1>8, SlavesKept DEF IsComplete
<1> QED BY Zenon, <1>5, <1>6, <1>9, <1>11, <1>12, <1>13, <1>14, <1>15 DEF IopInv

(* A context begins the slave n after the one it looked after: it was the    *)
(* last one begun.                                                           *)
LEMMA BeginStep ==
    ASSUME IopInv, NEW c \in Contexts, NEW i \in Slaves, StartedAt(c, i),
           NEW n \in Slaves, n = i + 1, ~iopPkt[n].begun,
           iopPkt' = [iopPkt EXCEPT ![n].begun = TRUE], Move(c, At(n)),
           UNCHANGED <<iopIncomplete, iopSlaves, iopDevice, iopCount, iopSignals,
                       iopAgain>>
    PROVE  IopInv'
<1>1. IopTypes /\ MovedByOne /\ SlavesInOrder
    BY Zenon DEF IopInv
<1>2. /\ n \in Packets /\ n # 0 /\ n # 1 /\ n # i /\ 0 \in Packets
      /\ \A j \in Slaves : j \in Packets /\ j # 0
  <2>1. n # 1 /\ n # i
    BY DEF Slaves
  <2> QED BY Zenon, <2>1, PacketFacts
<1>3. Undispatched(n) /\ ~Active(n) /\ ~Undispatched(i) /\ n \notin iopDevice /\ ~Moving(n)
    BY Zenon, <1>1, <1>2 DEF SlavesInOrder, Active
<1>4. ~Over(n)
    BY <1>3 DEF Undispatched, Over
<1>5. AwaitsSlaves
    BY Zenon, <1>3, <1>4
       DEF IopInv, Unsent, OwnWork, BeginsAgain, IsComplete, SlavesUntouched, SlavesOver
<1>6. PICK k \in Slaves : BegunUpTo(k)
    BY Zenon, <1>5 DEF AwaitsSlaves
<1>7. k = i
  <2>1. Launched(i) /\ ~Launched(n)
    BY Zenon, <1>1, <1>2, <1>3 DEF Launched, SlavesInOrder
  <2>2. i <= k /\ ~(n <= k)
    BY Zenon, <1>6, <2>1 DEF BegunUpTo
  <2> QED BY <2>2 DEF Slaves
<1>8. \A j \in Slaves : j <= n <=> j <= i \/ j = n
    BY DEF Slaves
<1>9. /\ iopPkt' \in [Packets -> PktType]
      /\ iopPkt'[n].cur = iopPkt[n].cur /\ iopPkt'[n].dir = iopPkt[n].dir
      /\ iopPkt'[n].begun
      /\ \A j \in Packets : j # n => iopPkt'[j] = iopPkt[j]
    BY Zenon, <1>1, <1>2, PktBegun
<1>10. /\ iopCtx' \in [Contexts -> CtxType]
       /\ \A j : ~StartedAt(c, j)'
       /\ \A j : \A d \in Contexts : d # c => (StartedAt(d, j)' <=> StartedAt(d, j))
       /\ \A j \in Packets : Moving(j)' <=> j = n \/ (Moving(j) /\ ~Moves(c, j))
       /\ /\ Moving(n) => Moves(c, n)
          /\ n \notin iopDevice' /\ iopDevice' \subseteq iopDevice
          => MovedByOne'
    BY Zenon, <1>1, <1>2, ToLoop
<1>11. \A j : ~Moves(c, j)
  <2>1. iopCtx[c].pc # "loop"
    BY DEF StartedAt
  <2> QED BY Zenon, <2>1 DEF Moves
<1>12. MovedByOne' /\ IopTypes'
    BY Zenon, <1>1, <1>3, <1>9, <1>10 DEF IopTypes, PktType, CtxType
<1>13. /\ Active(n)' /\ Undispatched(n)' /\ ~Over(n)' /\ Launched(n)' /\ iopPkt'[0] = iopPkt[0]
       /\ \A j \in Packets : j # n => (Active(j)' <=> Active(j))
  <2>1. Active(n)' /\ \A j \in Packets : j # n => (Active(j)' <=> Active(j))
    BY Zenon, <1>2, <1>10, <1>11 DEF Active
  <2>2. Undispatched(n)' /\ ~Over(n)'
    BY Zenon, <1>3, <1>4, <1>9 DEF Undispatched, Over
  <2> QED BY Zenon, <1>2, <1>9, <2>1, <2>2 DEF Launched
<1>14. \A j \in Slaves : j # n => /\ Undispatched(j)' <=> Undispatched(j)
                                  /\ Sent(j)' <=> Sent(j)
                                  /\ Over(j)' <=> Over(j)
                                  /\ Launched(j)' <=> Launched(j)
                                  /\ iopPkt'[j].begun = iopPkt[j].begun
  <2>1. ASSUME NEW j \in Slaves, j # n
        PROVE  /\ Undispatched(j)' <=> Undispatched(j)
               /\ Sent(j)' <=> Sent(j)
               /\ Over(j)' <=> Over(j)
               /\ Active(j)' <=> Active(j)
               /\ iopPkt'[j].begun = iopPkt[j].begun
    BY Zenon, <1>2, <1>9, <1>13, <2>1 DEF Undispatched, Sent, Over
  <2> QED BY Zenon, <2>1 DEF Launched
<1>15. SlavesInOrder'
  <2>1. ASSUME NEW j \in Slaves
        PROVE  /\ Undispatched(j)' \/ Sent(j)' \/ Over(j)'
               /\ j # 1 /\ ~iopPkt'[j].begun => Undispatched(j)' /\ ~Active(j)'
               /\ j \in iopDevice' => Sent(j)'
               /\ \A d \in Contexts : StartedAt(d, j)' => ~Undispatched(j)'
    <3>1. CASE j = n
      <4>1. \A d \in Contexts : ~StartedAt(d, n)'
        BY Zenon, <1>1, <1>3, <1>10 DEF SlavesInOrder
      <4> QED BY Zenon, <1>3, <1>9, <1>13, <3>1, <4>1
    <3>2. CASE j # n
      BY Zenon, <1>1, <1>2, <1>10, <1>13, <1>14, <3>2 DEF SlavesInOrder
    <3> QED BY Zenon, <3>1, <3>2
  <2>2. ~iopPkt'[1].begun
    BY Zenon, <1>1, <1>2, <1>14, PacketFacts DEF SlavesInOrder
  <2>3. Incomplete' = Incomplete
    BY Zenon, <1>4, <1>13, <1>14 DEF Incomplete
  <2> QED BY Zenon, <1>1, <2>1, <2>2, <2>3 DEF SlavesInOrder
<1>16. BegunUpTo(n)'
  <2>1. \A j \in Slaves : Launched(j)' <=> j <= n
    BY Zenon, <1>6, <1>7, <1>8, <1>13, <1>14 DEF BegunUpTo
  <2> QED BY Zenon, <1>13, <2>1 DEF BegunUpTo
<1>17. AwaitsSlaves'
  <2>1. \A j \in Slaves : Launched(j)' => (Active(j)' <=> ~Over(j)')
    BY Zenon, <1>2, <1>5, <1>13, <1>14 DEF AwaitsSlaves
  <2>2. ~SlavesOver' /\ ~Active(0)'
    BY Zenon, <1>2, <1>5, <1>13 DEF SlavesOver, AwaitsSlaves
  <2> QED BY Zenon, <1>5, <1>13, <1>16, <2>1, <2>2 DEF AwaitsSlaves
<1> QED BY Zenon, <1>12, <1>15, <1>17 DEF IopInv

(* iop_continue, after a packet went pending or completed *)
LEMMA SiblingStep ==
    ASSUME IopInv, NEW c \in Contexts, StartSibling(c)
    PROVE  IopInv'
<1>1. PICK i : i = iopCtx[c].iop
    BY Zenon
<1>2. PICK n : n = i + 1
    BY Zenon
<1>3. /\ iopCtx[c].pc = "started" /\ StartedAt(c, i) /\ i \in Packets
      /\ UNCHANGED <<iopIncomplete, iopSlaves, iopDevice, iopCount, iopSignals, iopAgain>>
  <2>1. IopTypes
    BY Zenon DEF IopInv
  <2>2. iopCtx[c].pc = "started" /\ StartedAt(c, i)
    BY Zenon, <1>1 DEF StartSibling, StartedAt
  <2> QED BY Zenon, <1>1, <2>1, <2>2, FieldTypes DEF StartSibling
<1>4. CASE i # 0 /\ n \in Slaves /\ ~iopPkt[n].begun
  <2>1. iopPkt' = [iopPkt EXCEPT ![n].begun = TRUE] /\ Move(c, At(n))
    BY Zenon, <1>1, <1>2, <1>4 DEF StartSibling, BeginNext
  <2>2. i \in Slaves
    BY Zenon, <1>3, <1>4, PacketFacts
  <2> QED BY Zenon, <1>2, <1>3, <1>4, <2>1, <2>2, BeginStep
<1>5. CASE ~(i # 0 /\ n \in Slaves /\ ~iopPkt[n].begun)
  <2>1. /\ Move(c, [Idle EXCEPT !.ret = IF c = Sender THEN iopCtx[c].ret ELSE "none"])
        /\ iopPkt' = iopPkt
    BY Zenon, <1>1, <1>2, <1>5 DEF StartSibling, BeginNext
  <2>2. PICK r \in {"none", "pending", "completed"} :
           r = IF c = Sender THEN iopCtx[c].ret ELSE "none"
    <3>1. iopCtx[c].ret \in {"none", "pending", "completed"}
      BY DEF IopInv, IopTypes
    <3> QED BY Zenon, <3>1
  <2>3. PICK ctx \in CtxType : ctx = [Idle EXCEPT !.ret = r]
    BY Zenon, CtxTypes
  <2>4. Move(c, ctx) /\ ctx.pc = "idle"
    <3>1. Move(c, [Idle EXCEPT !.ret = r])
      BY Zenon, <2>1, <2>2
    <3>2. ctx.pc = "idle"
      BY Zenon, <2>3, CtxFields
    <3> QED BY Zenon, <2>3, <3>1, <3>2
  <2>5. ASSUME NEW k \in Slaves, StartedAt(c, k), BegunUpTo(k)
        PROVE  k = NumSlaves
    <3>1. k = i /\ k # 0
      BY Zenon, <1>1, <2>5, PacketFacts DEF StartedAt
    <3>2. CASE n \in Slaves
      <4>1. iopPkt[n].begun
        BY Zenon, <1>5, <3>1, <3>2
      <4>2. n # 1 /\ ~(n <= k)
        BY <1>2, <3>1 DEF Slaves
      <4>3. Launched(n)
        BY Zenon, <4>1, <4>2 DEF Launched
      <4> QED BY Zenon, <2>5, <3>2, <4>2, <4>3 DEF BegunUpTo
    <3>3. CASE n \notin Slaves
      BY <1>2, <3>1, <3>3, IopAssumption DEF Slaves
    <3> QED BY Zenon, <3>2, <3>3
  <2> QED BY Zenon, <1>3, <2>1, <2>4, <2>5, LeaveStep
<1> QED BY Zenon, <1>4, <1>5

(* Every step preserves the invariant.                                       *)
LEMMA IopStep ==
    ASSUME IopInv, [IopNext]_iopVars
    PROVE  IopInv'
<1>1. CASE UNCHANGED iopVars
  <2>1. UNCHANGED <<iopPkt, iopIncomplete, iopSlaves, iopCtx, iopDevice, iopCount,
                    iopSignals, iopAgain>>
    BY Zenon, <1>1 DEF iopVars
  <2> QED BY Zenon, <2>1, QuietStep
<1>2. CASE iop_send_sync
    BY Zenon, <1>2, SendStep
<1>3. ASSUME NEW c \in Contexts, StepDown(c) \/ StartSibling(c) \/ StepUp(c)
      PROVE  IopInv'
  <2>1. iopCtx[c].iop \in Packets
    BY Zenon, FieldTypes DEF IopInv
  <2>2. PICK i : i = iopCtx[c].iop /\ (i = 0 \/ i \in Slaves)
    BY Zenon, <2>1, PacketFacts
  <2>3. CASE StepDown(c)
    BY Zenon, <2>2, <2>3, DownMaster, DownSlave
  <2>4. CASE StartSibling(c)
    BY Zenon, <2>4, SiblingStep
  <2>5. CASE StepUp(c)
    BY Zenon, <2>2, <2>5, UpMaster, UpSlave
  <2> QED BY Zenon, <1>3, <2>3, <2>4, <2>5
<1>4. ASSUME NEW c \in Contexts, NEW i \in Packets, iop_continue(c, i)
      PROVE  IopInv'
    BY Zenon, <1>4, ContinueMaster, ContinueSlave, PacketFacts
<1> QED BY Zenon, <1>1, <1>2, <1>3, <1>4 DEF IopNext

(* The invariant holds at first.                                             *)
LEMMA IopStart ==
    ASSUME IopInit
    PROVE  IopInv
<1>1. /\ iopPkt = iop_new /\ iopIncomplete = 0 /\ iopSlaves = FALSE
      /\ iopCtx = [c \in Contexts |-> Idle] /\ iopDevice = {}
      /\ iopCount = [i \in Packets |-> 0] /\ iopSignals = 0 /\ iopAgain = 0
    BY Zenon DEF IopInit
<1>2. \A i \in Packets : iopPkt[i] = iop_init /\ iopCount[i] = 0
    BY Zenon, <1>1 DEF iop_new
<1>3. iop_init.cur = -1 /\ iop_init.dir = "down" /\ ~iop_init.begun /\ iop_init \in PktType
    BY DEF iop_init, PktType
<1>4. Idle \in CtxType /\ Idle.pc # "loop" /\ Idle.pc # "started"
    BY PacketFacts DEF Idle, CtxType
<1>5. \A c \in Contexts : iopCtx[c] = Idle
    BY Zenon, <1>1
<1>6. \A c \in Contexts : \A i : ~Moves(c, i) /\ ~StartedAt(c, i)
    BY Zenon, <1>4, <1>5 DEF Moves, StartedAt
<1>7. \A i : ~Moving(i) /\ ~Active(i)
    BY Zenon, <1>1, <1>6 DEF Moving, Active
<1>8. IopTypes
  <2>1. iopPkt \in [Packets -> PktType]
    BY Zenon, <1>1, <1>3 DEF iop_new
  <2>2. iopCount \in [Packets -> Nat] /\ 0 \in Int /\ 0 \in Nat
    BY <1>1
  <2>3. iopCtx \in [Contexts -> CtxType]
    BY Zenon, <1>1, <1>4
  <2> QED BY Zenon, <1>1, <2>1, <2>2, <2>3 DEF IopTypes, PktType, CtxType
<1>9. MovedByOne
    BY Zenon, <1>1, <1>6 DEF MovedByOne
<1>10. \A i \in Slaves : Undispatched(i) /\ ~iopPkt[i].begun
    BY Zenon, <1>2, <1>3, PacketFacts DEF Undispatched
<1>11. SlavesInOrder
    BY Zenon, <1>1, <1>6, <1>7, <1>10, PacketFacts DEF SlavesInOrder
<1>12. Unsent
    BY Zenon, <1>1, <1>2, <1>7, <1>10, PacketFacts DEF Unsent, SlavesUntouched
<1> QED BY Zenon, <1>8, <1>9, <1>11, <1>12 DEF IopInv

(* The invariant says that every packet is processed once.                   *)
LEMMA IopOnce ==
    ASSUME IopInv
    PROVE  IopsOnce
<1>1. IopTypes /\ MovedByOne /\ SlavesInOrder
    BY Zenon DEF IopInv
<1>2. \A i \in Slaves : iopCount[i] =< 1
  <2>1. ASSUME NEW i \in Slaves PROVE iopCount[i] = 0 \/ iopCount[i] = 1
    BY Zenon, <1>1 DEF SlavesInOrder, Undispatched, Sent, Over
  <2> QED BY <2>1
<1>3. \A c, d \in Contexts :
         iopCtx[c].pc = "loop" /\ iopCtx[d].pc = "loop" /\ iopCtx[c].iop = iopCtx[d].iop => c = d
    BY Zenon, <1>1, FieldTypes DEF MovedByOne, Moves
<1>4. \A c \in Contexts : iopCtx[c].pc = "loop" => iopCtx[c].iop \notin iopDevice
    BY Zenon, <1>1 DEF MovedByOne, Moving, Moves
<1>5. iopSignals =< 1
    BY <1>1 DEF IopTypes
<1>6. ASSUME iopSignals = 1
      PROVE  /\ iopIncomplete = 0
             /\ iopDevice = {}
             /\ iopSlaves => \A i \in Slaves : iopCount[i] = 1
  <2>1. iopSignals # 0
    BY <1>6
  <2>2. IsComplete
    BY Zenon, <2>1 DEF IopInv, Unsent, OwnWork, AwaitsSlaves, BeginsAgain
  <2>3. iopDevice = {}
    BY Zenon, <1>1, <2>2, PacketFacts DEF IsComplete, Active, SlavesAtRest, IopTypes
  <2>4. iopSlaves => SlavesOver /\ Incomplete = {}
    BY Zenon, <2>2 DEF IsComplete, SlavesOver, Incomplete
  <2>5. Cardinality({}) = 0
    BY FS_EmptySet
  <2>6. iopIncomplete = 0
    BY Zenon, <1>1, <2>4, <2>5 DEF SlavesInOrder
  <2> QED BY Zenon, <2>3, <2>4, <2>6 DEF SlavesOver, Over
<1>7. ASSUME iopDevice = {}, ~(\E c \in Contexts : Working(c)), iopCount[0] > 0
      PROVE  iopSignals = 1
  <2>1. \A c \in Contexts : \A i : ~Moves(c, i) /\ ~StartedAt(c, i)
    <3>1. \A c \in Contexts : iopCtx[c].pc = "idle"
      BY Zenon, <1>7 DEF Working
    <3> QED BY <3>1 DEF Moves, StartedAt
  <2>2. \A i : ~Moving(i) /\ ~Active(i)
    BY Zenon, <1>7, <2>1 DEF Moving, Active
  <2>3. ~Unsent
    BY <1>7 DEF Unsent
  <2>4. ~OwnWork /\ ~BeginsAgain
    BY Zenon, <2>2 DEF OwnWork, BeginsAgain
  <2>5. ASSUME AwaitsSlaves PROVE FALSE
    <3>1. PICK k \in Slaves : BegunUpTo(k)
      BY Zenon, <2>5 DEF AwaitsSlaves
    <3>2. k = NumSlaves
      BY Zenon, <2>1, <2>2, <3>1 DEF BegunUpTo
    <3>3. \A i \in Slaves : i <= k
      BY <3>2, IopAssumption DEF Slaves
    <3>4. \A i \in Slaves : Over(i)
      BY Zenon, <2>2, <2>5, <3>1, <3>3 DEF AwaitsSlaves, BegunUpTo
    <3> QED BY Zenon, <2>5, <3>4 DEF AwaitsSlaves, SlavesOver
  <2> QED BY Zenon, <2>3, <2>4, <2>5 DEF IopInv, IsComplete
<1> QED BY Zenon, <1>2, <1>3, <1>4, <1>5, <1>6, <1>7 DEF IopsOnce

(* Every packet of a tree is processed once, for any number of slaves: none  *)
(* is dispatched twice or moved by two contexts, the event is signalled once *)
(* and after the last slave, and a packet nobody moves is complete, however  *)
(* the sender and the DPCs of the devices race in iop_continue.              *)
THEOREM PacketsOnce == IopSpec => []IopsOnce
<1>1. IopInit => IopInv
    BY Zenon, IopStart
<1>2. IopInv /\ [IopNext]_iopVars => IopInv'
    BY Zenon, IopStep
<1>3. IopInv => IopsOnce
    BY Zenon, IopOnce
<1> QED BY <1>1, <1>2, <1>3, PTL DEF IopSpec
=============================================================================
