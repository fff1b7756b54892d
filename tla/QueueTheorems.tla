---------------------------- MODULE QueueTheorems ----------------------------
(* What the TAILQ operations of the kernel do to a queue of distinct         *)
(* entries: who is on it afterwards, in which order, and that the entries    *)
(* stay distinct.                                                            *)
EXTENDS Integers, Sequences, Queues, TLAPS

(* TAILQ_INSERT_TAIL of an entry that is on no queue adds that entry and     *)
(* nothing else.                                                             *)
LEMMA AppendDistinct ==
    ASSUME NEW S, NEW q \in Seq(S), NEW e \in S, IsInjective(q), ~OnQueue(q, e)
    PROVE  /\ Append(q, e) \in Seq(S)
           /\ IsInjective(Append(q, e))
           /\ \A x \in S : OnQueue(Append(q, e), x) <=> OnQueue(q, x) \/ x = e
<1>1. /\ Append(q, e) \in Seq(S)
      /\ Len(Append(q, e)) = Len(q) + 1
      /\ \A i \in 1 .. Len(q) : Append(q, e)[i] = q[i]
      /\ Append(q, e)[Len(q) + 1] = e
      /\ DOMAIN Append(q, e) = 1 .. Len(q) + 1
      /\ Len(q) \in Nat /\ DOMAIN q = 1 .. Len(q)
    OBVIOUS
<1> DEFINE r == Append(q, e)
<1> HIDE DEF r
<1>2. ASSUME NEW i \in 1 .. Len(q) + 1, NEW j \in 1 .. Len(q) + 1, r[i] = r[j]
      PROVE  i = j
    BY <1>1, <1>2 DEF r, IsInjective, OnQueue
<1>3. ASSUME NEW x \in S
      PROVE  OnQueue(r, x) <=> OnQueue(q, x) \/ x = e
    BY <1>1 DEF r, OnQueue
<1> QED BY <1>1, <1>2, <1>3 DEF IsInjective, r

(* TAILQ_REMOVE of the head takes that entry off and no other.               *)
LEMMA TailDistinct ==
    ASSUME NEW S, NEW q \in Seq(S), q # <<>>, IsInjective(q)
    PROVE  /\ Tail(q) \in Seq(S)
           /\ Head(q) \in S /\ OnQueue(q, Head(q))
           /\ IsInjective(Tail(q))
           /\ \A x \in S : OnQueue(Tail(q), x) <=> OnQueue(q, x) /\ x # Head(q)
<1>1. /\ Tail(q) \in Seq(S)
      /\ Head(q) \in S /\ Head(q) = q[1]
      /\ Len(q) \in Nat \ {0} /\ DOMAIN q = 1 .. Len(q)
      /\ Len(Tail(q)) = Len(q) - 1
      /\ DOMAIN Tail(q) = 1 .. Len(q) - 1
      /\ \A i \in 1 .. Len(q) - 1 : Tail(q)[i] = q[i + 1]
    OBVIOUS
<1> DEFINE r == Tail(q)
<1> HIDE DEF r
<1>2. ASSUME NEW i \in 1 .. Len(q) - 1, NEW j \in 1 .. Len(q) - 1, r[i] = r[j]
      PROVE  i = j
    <2>1. i + 1 \in DOMAIN q /\ j + 1 \in DOMAIN q /\ q[i + 1] = q[j + 1]
        BY <1>1, <1>2 DEF r
    <2> QED BY <2>1, <1>1 DEF IsInjective
<1>3. ASSUME NEW x \in S, OnQueue(r, x)
      PROVE  OnQueue(q, x) /\ x # Head(q)
    <2>1. PICK i \in 1 .. Len(q) - 1 : r[i] = x
        BY <1>1, <1>3 DEF r, OnQueue
    <2>2. i + 1 \in DOMAIN q /\ q[i + 1] = x /\ 1 \in DOMAIN q /\ i + 1 # 1
        BY <1>1, <2>1 DEF r
    <2> QED BY <1>1, <2>2 DEF IsInjective, OnQueue
<1>4. ASSUME NEW x \in S, OnQueue(q, x), x # Head(q)
      PROVE  OnQueue(r, x)
    <2>1. PICK i \in 1 .. Len(q) : q[i] = x
        BY <1>4 DEF OnQueue
    <2>2. i # 1 /\ i - 1 \in 1 .. Len(q) - 1 /\ (i - 1) + 1 = i
        BY <1>1, <1>4, <2>1
    <2>3. r[i - 1] = x
        BY <1>1, <2>1, <2>2 DEF r
    <2> QED BY <1>1, <2>2, <2>3 DEF OnQueue, r
<1>5. OnQueue(q, Head(q))
    BY <1>1 DEF OnQueue
<1>6. IsInjective(r)
    BY <1>1, <1>2 DEF IsInjective, r
<1> QED BY <1>1, <1>3, <1>4, <1>5, <1>6 DEF r

(* the concatenation of two sequences holds the first, then the second *)
LEMMA ConcatElements ==
    ASSUME NEW S, NEW q \in Seq(S), NEW r \in Seq(S)
    PROVE  /\ q \o r \in Seq(S)
           /\ Len(q \o r) = Len(q) + Len(r)
           /\ \A j \in 1 .. Len(q) + Len(r) :
                 (q \o r)[j] = IF j <= Len(q) THEN q[j] ELSE r[j - Len(q)]
OBVIOUS

(* TAILQ_CONCAT with an empty queue *)
LEMMA ConcatEmpty ==
    ASSUME NEW S, NEW q \in Seq(S)
    PROVE  q \o <<>> = q /\ <<>> \o q = q
OBVIOUS

(* the first entry of a concatenation is that of its first queue *)
LEMMA TailConcat ==
    ASSUME NEW S, NEW q \in Seq(S), NEW r \in Seq(S), q # <<>>
    PROVE  q \o r # <<>> /\ Tail(q) \o r = Tail(q \o r)
OBVIOUS

(* and its last one that of the second *)
LEMMA AppendConcat ==
    ASSUME NEW S, NEW q \in Seq(S), NEW r \in Seq(S), NEW e \in S
    PROVE  q \o Append(r, e) = Append(q \o r, e)
OBVIOUS

(* removing the element at position i keeps the others in order *)
LEMMA UnlinkProperties ==
    ASSUME NEW S, NEW q \in Seq(S), NEW i \in 1 .. Len(q)
    PROVE  /\ Unlink(q, i) \in Seq(S)
           /\ Len(Unlink(q, i)) = Len(q) - 1
           /\ \A j \in 1 .. Len(q) - 1 :
                 Unlink(q, i)[j] = IF j < i THEN q[j] ELSE q[j + 1]
<1> DEFINE a == SubSeq(q, 1, i - 1)
           b == SubSeq(q, i + 1, Len(q))
<1>1. /\ a \in Seq(S) /\ Len(a) = i - 1
      /\ \A j \in 1 .. i - 1 : a[j] = q[j]
    OBVIOUS
<1>2. /\ b \in Seq(S) /\ Len(b) = Len(q) - i
      /\ \A j \in 1 .. Len(q) - i : b[j] = q[j + i]
    OBVIOUS
<1> HIDE DEF a, b
<1>3. /\ a \o b \in Seq(S)
      /\ Len(a \o b) = Len(a) + Len(b)
      /\ \A j \in 1 .. Len(a) + Len(b) :
            (a \o b)[j] = IF j <= Len(a) THEN a[j] ELSE b[j - Len(a)]
    BY <1>1, <1>2, ConcatElements, Zenon
<1>4. Unlink(q, i) = a \o b
    BY DEF Unlink, a, b
<1>5. Len(q) \in Nat
    OBVIOUS
<1>6. ASSUME NEW j \in 1 .. Len(q) - 1
      PROVE  Unlink(q, i)[j] = IF j < i THEN q[j] ELSE q[j + 1]
    <2>1. j \in 1 .. Len(a) + Len(b)
        BY <1>1, <1>2, <1>5
    <2>2. CASE j < i
        <3>1. (a \o b)[j] = a[j]
            BY <1>1, <1>3, <1>5, <2>1, <2>2
        <3> QED BY <1>1, <1>4, <1>5, <2>2, <3>1
    <2>3. CASE ~(j < i)
        <3>1. (a \o b)[j] = b[j - (i - 1)]
            BY <1>1, <1>3, <1>5, <2>1, <2>3
        <3>2. j - (i - 1) \in 1 .. Len(q) - i
            BY <1>5, <2>3
        <3>3. b[j - (i - 1)] = q[(j - (i - 1)) + i]
            BY <1>2, <3>2
        <3>4. (j - (i - 1)) + i = j + 1
            BY <1>5
        <3> QED BY <1>4, <2>3, <3>1, <3>3, <3>4
    <2> QED BY <2>2, <2>3
<1>7. Len(a) + Len(b) = Len(q) - 1
    BY <1>1, <1>2, <1>5
<1>8. Unlink(q, i) \in Seq(S) /\ Len(Unlink(q, i)) = Len(q) - 1
    BY <1>3, <1>4, <1>7
<1> HIDE <1>4
<1> QED BY <1>6, <1>8, Zenon

(* TAILQ_REMOVE of an entry anywhere on the queue takes it off and no other. *)
LEMMA RemoveDistinct ==
    ASSUME NEW S, NEW q \in Seq(S), NEW i \in 1 .. Len(q), IsInjective(q)
    PROVE  /\ Unlink(q, i) \in Seq(S)
           /\ IsInjective(Unlink(q, i))
           /\ \A x \in S :
                 OnQueue(Unlink(q, i), x) <=> OnQueue(q, x) /\ x # q[i]
<1> DEFINE r == Unlink(q, i)
           f(j) == IF j < i THEN j ELSE j + 1
<1>1. /\ r \in Seq(S)
      /\ Len(r) = Len(q) - 1
      /\ \A j \in 1 .. Len(q) - 1 : r[j] = IF j < i THEN q[j] ELSE q[j + 1]
    BY UnlinkProperties
<1> HIDE DEF r
<1>2. /\ Len(q) \in Nat /\ DOMAIN q = 1 .. Len(q)
      /\ DOMAIN r = 1 .. Len(q) - 1
    BY <1>1
<1>3. ASSUME NEW j \in 1 .. Len(q) - 1
      PROVE  f(j) \in DOMAIN q /\ f(j) # i /\ r[j] = q[f(j)]
    BY <1>1, <1>2
<1>4. ASSUME NEW j \in 1 .. Len(q) - 1, NEW k \in 1 .. Len(q) - 1, r[j] = r[k]
      PROVE  j = k
    <2>1. f(j) = f(k)
        BY <1>3, <1>4 DEF IsInjective
    <2> QED BY <2>1, <1>2
<1>5. ASSUME NEW x \in S, OnQueue(r, x)
      PROVE  OnQueue(q, x) /\ x # q[i]
    <2>1. PICK j \in 1 .. Len(q) - 1 : r[j] = x
        BY <1>1, <1>5 DEF OnQueue
    <2>2. f(j) \in DOMAIN q /\ f(j) # i /\ x = q[f(j)]
        BY <1>3, <2>1
    <2> HIDE DEF f
    <2> QED BY <1>2, <2>2 DEF OnQueue, IsInjective
<1>6. ASSUME NEW x \in S, OnQueue(q, x), x # q[i]
      PROVE  OnQueue(r, x)
    <2>1. PICK k \in 1 .. Len(q) : q[k] = x
        BY <1>6 DEF OnQueue
    <2>2. k # i
        BY <1>6, <2>1
    <2>3. CASE k < i
        BY <1>1, <1>2, <2>1, <2>3 DEF OnQueue
    <2>4. CASE k > i
        <3>1. k - 1 \in 1 .. Len(q) - 1 /\ ~(k - 1 < i) /\ (k - 1) + 1 = k
            BY <1>2, <2>4
        <3>2. r[k - 1] = x
            BY <1>1, <2>1, <3>1
        <3> QED BY <1>1, <3>1, <3>2 DEF OnQueue
    <2> QED BY <1>2, <2>2, <2>3, <2>4
<1>7. IsInjective(r)
    BY <1>2, <1>4 DEF IsInjective
<1> QED BY <1>1, <1>5, <1>6, <1>7 DEF r

(* nobody is on an empty queue *)
LEMMA EmptyDistinct ==
    IsInjective(<<>>) /\ \A x : ~OnQueue(<<>>, x)
BY DEF IsInjective, OnQueue

(* TAILQ_CONCAT of queues that share no entry.                               *)
LEMMA ConcatDistinct ==
    ASSUME NEW S, NEW q \in Seq(S), NEW r \in Seq(S), IsInjective(q),
           IsInjective(r), \A x \in S : ~(OnQueue(q, x) /\ OnQueue(r, x))
    PROVE  /\ q \o r \in Seq(S)
           /\ IsInjective(q \o r)
           /\ \A x \in S : OnQueue(q \o r, x) <=> OnQueue(q, x) \/ OnQueue(r, x)
<1> DEFINE s == q \o r
<1>1. /\ s \in Seq(S)
      /\ Len(s) = Len(q) + Len(r)
      /\ \A j \in 1 .. Len(q) + Len(r) :
            s[j] = IF j <= Len(q) THEN q[j] ELSE r[j - Len(q)]
    OBVIOUS
<1> HIDE DEF s
<1>2. /\ Len(q) \in Nat /\ DOMAIN q = 1 .. Len(q)
      /\ Len(r) \in Nat /\ DOMAIN r = 1 .. Len(r)
      /\ DOMAIN s = 1 .. Len(q) + Len(r)
      /\ \A i \in 1 .. Len(q) : q[i] \in S
      /\ \A i \in 1 .. Len(r) : r[i] \in S
    BY <1>1
<1>3. \A j \in 1 .. Len(q) : j \in DOMAIN s /\ s[j] = q[j]
    BY <1>1, <1>2
<1>4. \A j \in DOMAIN s : j > Len(q) =>
          /\ j - Len(q) \in 1 .. Len(r)
          /\ s[j] = r[j - Len(q)]
    BY <1>1, <1>2
<1>5. ASSUME NEW j \in 1 .. Len(r)
      PROVE  Len(q) + j \in DOMAIN s /\ s[Len(q) + j] = r[j]
    <2>1. /\ Len(q) + j \in 1 .. Len(q) + Len(r) /\ ~(Len(q) + j <= Len(q))
          /\ (Len(q) + j) - Len(q) = j
        BY <1>2
    <2> QED BY <1>1, <1>2, <2>1
<1>6. ASSUME NEW x \in S
      PROVE  OnQueue(s, x) <=> OnQueue(q, x) \/ OnQueue(r, x)
    <2>1. ASSUME OnQueue(s, x) PROVE OnQueue(q, x) \/ OnQueue(r, x)
        <3>1. PICK j \in DOMAIN s : s[j] = x
            BY <1>1, <1>2, <2>1 DEF OnQueue
        <3>2. CASE j <= Len(q)
            BY <1>2, <1>3, <3>1, <3>2 DEF OnQueue
        <3>3. CASE j > Len(q)
            BY <1>2, <1>4, <3>1, <3>3 DEF OnQueue
        <3> QED BY <1>2, <3>2, <3>3
    <2>2. ASSUME OnQueue(q, x) PROVE OnQueue(s, x)
        BY <1>1, <1>2, <1>3, <2>2 DEF OnQueue
    <2>3. ASSUME OnQueue(r, x) PROVE OnQueue(s, x)
        BY <1>1, <1>2, <1>5, <2>3 DEF OnQueue
    <2> QED BY <2>1, <2>2, <2>3
<1>7. ASSUME NEW i \in DOMAIN s, NEW j \in DOMAIN s, s[i] = s[j]
      PROVE  i = j
    <2>1. CASE i <= Len(q) /\ j <= Len(q)
        BY <1>2, <1>3, <1>7, <2>1 DEF IsInjective
    <2>2. CASE i > Len(q) /\ j > Len(q)
        <3>1. i - Len(q) = j - Len(q)
            BY <1>2, <1>4, <1>7, <2>2 DEF IsInjective
        <3> QED BY <1>2, <3>1
    <2>3. CASE i <= Len(q) /\ j > Len(q)
        BY <1>2, <1>3, <1>4, <1>7, <2>3 DEF OnQueue
    <2>4. CASE i > Len(q) /\ j <= Len(q)
        BY <1>2, <1>3, <1>4, <1>7, <2>4 DEF OnQueue
    <2> QED BY <1>2, <2>1, <2>2, <2>3, <2>4
<1>8. IsInjective(s)
    BY <1>7 DEF IsInjective
<1> QED BY <1>1, <1>6, <1>8 DEF s

(* TAILQ_INSERT_HEAD *)
LEMMA PushDistinct ==
    ASSUME NEW S, NEW q \in Seq(S), NEW e \in S, IsInjective(q), ~ OnQueue(q, e)
    PROVE  /\ <<e>> \o q \in Seq(S)
           /\ <<e>> \o q # <<>>
           /\ IsInjective(<<e>> \o q)
           /\ \A x \in S : OnQueue(<<e>> \o q, x) <=> OnQueue(q, x) \/ x = e
<1>1. <<e>> \in Seq(S) /\ IsInjective(<<e>>) /\ \A x \in S : OnQueue(<<e>>, x) <=> x = e
    BY DEF IsInjective, OnQueue
<1>2. \A x \in S : ~ (OnQueue(<<e>>, x) /\ OnQueue(q, x))
    BY <1>1
<1>3. /\ <<e>> \o q \in Seq(S)
      /\ IsInjective(<<e>> \o q)
      /\ \A x \in S : OnQueue(<<e>> \o q, x) <=> OnQueue(<<e>>, x) \/ OnQueue(q, x)
    BY Zenon, <1>1, <1>2, ConcatDistinct
<1>4. <<e>> \o q # <<>>
    BY <1>1, <1>3, EmptyDistinct
<1> QED
    BY <1>1, <1>3, <1>4

(* Who is before somebody is on the queue, and so is the other.              *)
LEMMA BeforeOnQueue ==
    ASSUME NEW S, NEW q \in Seq(S), NEW x, NEW y, Before(q, x, y)
    PROVE  OnQueue(q, x) /\ OnQueue(q, y)
BY Zenon DEF Before, OnQueue

(* TAILQ_INSERT_TAIL puts an entry behind all the others.                    *)
LEMMA AppendBefore ==
    ASSUME NEW S, NEW q \in Seq(S), NEW e \in S, ~OnQueue(q, e)
    PROVE  \A x, y \in S : Before(Append(q, e), x, y) <=>
                              Before(q, x, y) \/ (OnQueue(q, x) /\ y = e)
<1> DEFINE r == Append(q, e)
<1>1. /\ Len(r) = Len(q) + 1 /\ Len(q) \in Nat
      /\ \A i \in 1 .. Len(q) : r[i] = q[i]
      /\ r[Len(q) + 1] = e
    OBVIOUS
<1> HIDE DEF r
<1>2. ASSUME NEW x \in S, NEW y \in S, Before(r, x, y)
      PROVE  Before(q, x, y) \/ (OnQueue(q, x) /\ y = e)
  <2>1. PICK i \in 1 .. Len(r), j \in 1 .. Len(r) : i < j /\ r[i] = x /\ r[j] = y
    BY Zenon, <1>2 DEF Before
  <2>2. i \in 1 .. Len(q) /\ q[i] = x
    BY <1>1, <2>1
  <2>3. CASE j = Len(q) + 1
    BY Zenon, <1>1, <2>1, <2>2, <2>3 DEF OnQueue
  <2>4. CASE j # Len(q) + 1
    <3>1. j \in 1 .. Len(q) /\ q[j] = y
      BY <1>1, <2>1, <2>4
    <3> QED BY Zenon, <2>1, <2>2, <3>1 DEF Before
  <2> QED BY Zenon, <2>3, <2>4
<1>3. ASSUME NEW x \in S, NEW y \in S, Before(q, x, y)
      PROVE  Before(r, x, y)
  <2>1. PICK i \in 1 .. Len(q), j \in 1 .. Len(q) : i < j /\ q[i] = x /\ q[j] = y
    BY Zenon, <1>3 DEF Before
  <2>2. i \in 1 .. Len(r) /\ j \in 1 .. Len(r) /\ r[i] = x /\ r[j] = y
    BY <1>1, <2>1
  <2> QED BY Zenon, <2>1, <2>2 DEF Before
<1>4. ASSUME NEW x \in S, OnQueue(q, x)
      PROVE  Before(r, x, e)
  <2>1. PICK i \in 1 .. Len(q) : q[i] = x
    BY Zenon, <1>4 DEF OnQueue
  <2>2. /\ i \in 1 .. Len(r) /\ Len(q) + 1 \in 1 .. Len(r)
        /\ i < Len(q) + 1 /\ r[i] = x
    BY <1>1, <2>1
  <2> QED BY Zenon, <1>1, <2>2 DEF Before
<1> QED BY Zenon, <1>2, <1>3, <1>4 DEF r

(* Removing the entry at position i leaves the others in their order.        *)
LEMMA RemoveBefore ==
    ASSUME NEW S, NEW q \in Seq(S), NEW i \in 1 .. Len(q), IsInjective(q)
    PROVE  \A x, y \in S : Before(Unlink(q, i), x, y) <=>
                              Before(q, x, y) /\ x # q[i] /\ y # q[i]
<1> DEFINE r == Unlink(q, i)
           f(j) == IF j < i THEN j ELSE j + 1
           g(j) == IF j < i THEN j ELSE j - 1
<1>1. /\ r \in Seq(S) /\ Len(r) = Len(q) - 1
      /\ \A j \in 1 .. Len(q) - 1 : r[j] = IF j < i THEN q[j] ELSE q[j + 1]
    BY Zenon, UnlinkProperties
<1> HIDE DEF r
<1>2. Len(q) \in Nat /\ DOMAIN q = 1 .. Len(q)
    OBVIOUS
<1>3. ASSUME NEW j \in 1 .. Len(r)
      PROVE  f(j) \in 1 .. Len(q) /\ f(j) # i /\ r[j] = q[f(j)]
    BY <1>1, <1>2
<1>4. ASSUME NEW j \in 1 .. Len(q), j # i
      PROVE  g(j) \in 1 .. Len(r) /\ r[g(j)] = q[j]
  <2>1. CASE j < i
    BY <1>1, <1>2, <2>1
  <2>2. CASE ~(j < i)
    <3>1. j - 1 \in 1 .. Len(q) - 1 /\ ~(j - 1 < i) /\ (j - 1) + 1 = j
      BY <1>2, <1>4, <2>2
    <3> QED BY <1>1, <2>2, <3>1
  <2> QED BY <2>1, <2>2
<1>5. ASSUME NEW j \in 1 .. Len(q), NEW k \in 1 .. Len(q), j < k
      PROVE  f(j) < f(k) /\ (j # i /\ k # i => g(j) < g(k))
    BY <1>2, <1>5
<1>6. \A j \in 1 .. Len(r) : j \in 1 .. Len(q)
    BY <1>1, <1>2
<1>7. ASSUME NEW j \in 1 .. Len(q) PROVE q[j] = q[i] <=> j = i
    BY <1>2 DEF IsInjective
<1> HIDE DEF f, g
<1>8. ASSUME NEW x \in S, NEW y \in S, Before(r, x, y)
      PROVE  Before(q, x, y) /\ x # q[i] /\ y # q[i]
  <2>1. PICK j \in 1 .. Len(r), k \in 1 .. Len(r) : j < k /\ r[j] = x /\ r[k] = y
    BY Zenon, <1>8 DEF Before
  <2>2. f(j) < f(k)
    BY Zenon, <1>5, <1>6, <2>1
  <2>3. /\ f(j) \in 1 .. Len(q) /\ q[f(j)] = x /\ f(j) # i
        /\ f(k) \in 1 .. Len(q) /\ q[f(k)] = y /\ f(k) # i
    BY Zenon, <1>3, <2>1
  <2> QED BY Zenon, <1>7, <2>2, <2>3 DEF Before
<1>9. ASSUME NEW x \in S, NEW y \in S, Before(q, x, y), x # q[i], y # q[i]
      PROVE  Before(r, x, y)
  <2>1. PICK j \in 1 .. Len(q), k \in 1 .. Len(q) : j < k /\ q[j] = x /\ q[k] = y
    BY Zenon, <1>9 DEF Before
  <2>2. j # i /\ k # i
    BY Zenon, <1>9, <2>1
  <2>3. g(j) < g(k)
    BY Zenon, <1>5, <2>1, <2>2
  <2> QED BY Zenon, <1>4, <2>1, <2>2, <2>3 DEF Before
<1> QED BY Zenon, <1>8, <1>9 DEF r

(* Nobody is before the head, and removing it leaves the others in order.    *)
LEMMA TailBefore ==
    ASSUME NEW S, NEW q \in Seq(S), q # <<>>, IsInjective(q)
    PROVE  /\ \A x \in S : ~Before(q, x, Head(q))
           /\ \A x, y \in S : Before(Tail(q), x, y) <=>
                                 Before(q, x, y) /\ x # Head(q)
<1>1. /\ 1 \in 1 .. Len(q) /\ q[1] = Head(q) /\ Len(q) \in Nat
      /\ DOMAIN q = 1 .. Len(q)
    OBVIOUS
<1>2. Unlink(q, 1) = Tail(q)
  <2>1. /\ Tail(q) \in Seq(S) /\ Len(Tail(q)) = Len(q) - 1
        /\ \A j \in 1 .. Len(q) - 1 : Tail(q)[j] = q[j + 1]
    OBVIOUS
  <2>2. /\ Unlink(q, 1) \in Seq(S) /\ Len(Unlink(q, 1)) = Len(q) - 1
        /\ \A j \in 1 .. Len(q) - 1 :
              Unlink(q, 1)[j] = IF j < 1 THEN q[j] ELSE q[j + 1]
    BY Zenon, <1>1, UnlinkProperties
  <2> QED BY <1>1, <2>1, <2>2
<1>3. ASSUME NEW x \in S, Before(q, x, Head(q)) PROVE FALSE
  <2>1. PICK i \in 1 .. Len(q), j \in 1 .. Len(q) :
           i < j /\ q[i] = x /\ q[j] = Head(q)
    BY Zenon, <1>3 DEF Before
  <2>2. j = 1
    BY Zenon, <1>1, <2>1 DEF IsInjective
  <2> QED BY <1>1, <2>1, <2>2
<1>4. \A x, y \in S : Before(Unlink(q, 1), x, y) <=>
                         Before(q, x, y) /\ x # q[1] /\ y # q[1]
    BY Zenon, <1>1, RemoveBefore
<1> QED BY Zenon, <1>1, <1>2, <1>3, <1>4
=============================================================================
