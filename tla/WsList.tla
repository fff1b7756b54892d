------------------------------ MODULE WsList ------------------------------
(***************************************************************************)
(* A process's working set list (vm/ws.c): an array of entries, the unused *)
(* ones chained in a free list through their vpfn fields, and a hash table *)
(* with bounded probing that finds the entries of shared pages.  The       *)
(* working set mutex serialises the operations.  A failed assertion stops  *)
(* the machine, here by disabling the operation.                           *)
(***************************************************************************)
EXTENDS Integers, FiniteSets, SequencesExt

CONSTANTS
  Vpfns,       \* the virtual pages: naturals that are not entry indices
  vpfn_hash,   \* [Vpfns -> 0..HashSize - 2]
  Capacity,    \* WSE_PER_PAGE
  HashSize,    \* hash_size
  FirstLimit,  \* the initial limit (6 in the kernel)
  Expansion,   \* WS_EXPANSION_COUNT
  Attempts     \* MAX_PROBING_ATTEMPTS

VARIABLES
  wsl,         \* [nodes, freelist, head, limit, size, hash]
  inSet        \* the pages in the working set

wslVars == <<wsl, inSet>>

NIL_WSE == -1
Indices == 0..(Capacity - 1)

(* vmp_wsl_init clears slots 1 to hash_size of the table: slot 0 keeps the *)
(* zero it was allocated with, which is the index of an entry.             *)
WslInit ==
  /\ wsl = [nodes    |-> [i \in Indices |-> [free |-> TRUE, shared |-> FALSE, hashed |-> FALSE,
                                             vpfn |-> IF i + 1 \in Indices THEN i + 1 ELSE NIL_WSE]],
            freelist |-> 0, head |-> 0, limit |-> FirstLimit, size |-> 0,
            hash     |-> [h \in 0..(HashSize - 1) |-> IF h = 0 THEN 0 ELSE NIL_WSE]]
  /\ inSet = {}

(* The slots probed for a page, and the first of them that passes a test.  *)
Probes(v) == [k \in 1..Attempts |-> (vpfn_hash[v] + k - 1) % HashSize]
Probed(v, Test(_)) == SelectInSeq(Probes(v), Test)

hash_insert(w, i) ==
  LET k == Probed(w.nodes[i].vpfn, LAMBDA h : w.hash[h] = NIL_WSE)
  IN  IF k = 0 THEN [w EXCEPT !.nodes[i].hashed = FALSE]
      ELSE [w EXCEPT !.hash[Probes(w.nodes[i].vpfn)[k]] = i, !.nodes[i].hashed = TRUE]

hash_remove(w, i) ==
  LET k == Probed(w.nodes[i].vpfn, LAMBDA h : w.hash[h] = i)
  IN  [w EXCEPT !.hash[Probes(w.nodes[i].vpfn)[k]] = NIL_WSE, !.nodes[i].hashed = FALSE]

(* The next entry in use, from the head on, round the array. *)
Victim(w) == LET at(k) == (w.head + k) % Capacity
             IN  at(Min({k \in Indices : ~w.nodes[at(k)].free}))

(* The victim's page leaves the set (wse_evict), the head moves past it.   *)
Evicted(w) ==
  LET i == Victim(w)
      v == [w EXCEPT !.head = (i + 1) % Capacity]
  IN  IF w.nodes[i].shared /\ w.nodes[i].hashed THEN hash_remove(v, i) ELSE v

EvictSafe(w) == w.nodes[Victim(w)].shared /\ w.nodes[Victim(w)].hashed =>
                  Probed(w.nodes[Victim(w)].vpfn, LAMBDA h : w.hash[h] = Victim(w)) # 0

Freed(w, i) == [w EXCEPT !.nodes[i].free = TRUE, !.nodes[i].vpfn = w.freelist,
                         !.freelist = i, !.size = @ - 1]

ws_can_expand(w, low) == w.limit # Capacity /\ ~low

(* Take an entry of the free list, or else replace one.                    *)
vmp_wsl_insert(v, shared, low) ==
  LET grows  == wsl.size < wsl.limit \/ ws_can_expand(wsl, low)
      i      == IF grows THEN wsl.freelist ELSE Victim(wsl)
      taken  == [wsl EXCEPT !.limit = IF wsl.size = @ THEN (IF @ + Expansion < Capacity THEN @ + Expansion ELSE Capacity) ELSE @,
                            !.size = @ + 1, !.freelist = wsl.nodes[i].vpfn, !.nodes[i].free = FALSE]
      base   == IF grows THEN taken ELSE Evicted(wsl)
      filled == [base EXCEPT !.nodes[i].vpfn = v, !.nodes[i].shared = shared]
  IN  /\ v \notin inSet
      /\ IF grows THEN wsl.freelist # NIL_WSE ELSE wsl.limit # 0 /\ EvictSafe(wsl)
      /\ wsl' = IF shared THEN hash_insert(filled, i) ELSE filled
      /\ inSet' = (IF grows THEN inSet ELSE inSet \ {wsl.nodes[i].vpfn}) \cup {v}

(* mutant of hash_lookup: the first slot in use is taken for the page's *)
FirstSlotInUse(w, v) ==
  LET k == Probed(v, LAMBDA h : w.hash[h] # NIL_WSE)
      h == Probes(v)[k]
  IN  IF k # 0 THEN [i |-> w.hash[h], ok |-> w.nodes[w.hash[h]].hashed,
                     w |-> [w EXCEPT !.hash[h] = NIL_WSE, !.nodes[w.hash[h]].hashed = FALSE]]
      ELSE LET i == Min({j \in Indices : w.nodes[j].vpfn = v /\ ~w.nodes[j].free})
           IN  [i |-> i, ok |-> ~w.nodes[i].hashed, w |-> w]

(* The entry of a page: by the table, whose slot it then clears, or by a   *)
(* search of all the entries.                                              *)
hash_lookup(w, v) ==
  LET k == Probed(v, LAMBDA h : w.hash[h] # NIL_WSE /\ w.nodes[w.hash[h]].vpfn = v)
      h == Probes(v)[k]
  IN  IF k # 0 THEN [i |-> w.hash[h], ok |-> w.nodes[w.hash[h]].hashed,
                     w |-> [w EXCEPT !.hash[h] = NIL_WSE, !.nodes[w.hash[h]].hashed = FALSE]]
      ELSE LET i == Min({j \in Indices : w.nodes[j].vpfn = v /\ ~w.nodes[j].free})
           IN  [i |-> i, ok |-> ~w.nodes[i].hashed, w |-> w]

(* The hint is a field of the page that the page queues also use: it is 0  *)
(* after the page has been the last of a queue, NIL_WSE when it has been   *)
(* allocated.  With a right hint the hash table is left alone.             *)
vmp_wsl_remove(v, hint) ==
  LET hinted == hint # NIL_WSE /\ wsl.nodes[hint].vpfn = v
      found  == IF hinted THEN [i |-> hint, ok |-> TRUE, w |-> wsl] ELSE hash_lookup(wsl, v)
  IN  /\ v \in inSet
      /\ found.ok
      /\ wsl' = Freed(found.w, found.i)
      /\ inSet' = inSet \ {v}

(* The balancer trims the set, an entry at a time, and makes what is left  *)
(* its limit.                                                              *)
vmp_wsl_trim(n) ==
  LET trim[k \in 0..Capacity] ==
        IF k = 0 THEN [w |-> wsl, out |-> {}]
        ELSE LET p == trim[k - 1]
             IN  [w |-> Freed(Evicted(p.w), Victim(p.w)), out |-> p.out \cup {p.w.nodes[Victim(p.w)].vpfn}]
  IN  /\ n \in 1..wsl.size
      /\ \A k \in 0..(n - 1) : EvictSafe(trim[k].w)
      /\ wsl' = [trim[n].w EXCEPT !.limit = trim[n].w.size]
      /\ inSet' = inSet \ trim[n].out

WslNext ==
  \/ \E v \in Vpfns, shared, low \in BOOLEAN : vmp_wsl_insert(v, shared, low)
  \/ \E v \in Vpfns, hint \in {0, NIL_WSE} : vmp_wsl_remove(v, hint)
  \/ \E n \in 1..Capacity : vmp_wsl_trim(n)

(* The list describes the working set (ws.c): every page of the set has    *)
(* exactly one entry, the free list chains exactly the other entries,      *)
(* the size counts them and is within the limit; and the search for a page *)
(* of the set, with slot 0 and removals by hint leaving stale slots in the *)
(* hash table, comes to the page's own entry.                              *)
WslExact ==
  LET w     == wsl
      inUse == {i \in Indices : ~w.nodes[i].free}
      chain[k \in 0..Capacity] == IF k = 0 THEN w.freelist
                                  ELSE IF chain[k - 1] = NIL_WSE THEN NIL_WSE ELSE w.nodes[chain[k - 1]].vpfn
  IN  /\ {w.nodes[i].vpfn : i \in inUse} = inSet
      /\ Cardinality(inUse) = Cardinality(inSet)
      /\ w.size = Cardinality(inSet) /\ w.size <= w.limit /\ w.limit <= Capacity
      /\ {chain[k] : k \in 0..Capacity} \ {NIL_WSE} = Indices \ inUse
      /\ chain[Cardinality(Indices \ inUse)] = NIL_WSE
      /\ \A v \in inSet : w.nodes[hash_lookup(w, v).i] = [w.nodes[hash_lookup(w, v).i] EXCEPT !.vpfn = v, !.free = FALSE]
=============================================================================
