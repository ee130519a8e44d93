--------------------------- MODULE ClientEventProofs ---------------------------
(***************************************************************************)
(* What holds of the event stream of the clients, of the buffer of frames  *)
(* and of the rate limit, for any scopes, clients, events, sources and     *)
(* limits:                                                                 *)
(*   - the loops of the code as what they return (Kept, the trims)         *)
(*   - the hub: HubInv, of which the journal being the tail of the events  *)
(*     and the clients hearing everything are consequences                 *)
(*   - the journals nobody follows: bounded by each call that prunes       *)
(*   - the pending frames: FramesInv; the rate limit: RatesInv             *)
(***************************************************************************)
EXTENDS MCClientEvents, NaturalsInduction, WellFoundedInduction, SequenceTheorems, FiniteSetTheorems, TLAPS

-----------------------------------------------------------------------------
(* A set of numbers has a least one: the form induction takes below.       *)
LEMMA LeastNat ==
  ASSUME NEW T \in SUBSET Nat, T # {}
  PROVE  \E n \in T : \A m \in T : n <= m
<1>1. PICK x \in T : \A y \in T : ~ (<<y, x>> \in OpToRel(<, Nat))
  BY NatLessThanWellFounded, WFMin
<1>2. \A y \in T : ~(y < x)
  BY <1>1 DEF OpToRel
<1> QED
  BY <1>2

(* g[i]: what is kept of the first i elements of q *)
KeptBy(g, q, I, S) ==
    /\ g \in [0..Len(q) -> Seq(S)]
    /\ g[0] = <<>>
    /\ \A i \in 1..Len(q) : g[i] = IF i \in I THEN Append(g[i - 1], q[i]) ELSE g[i - 1]

LEMMA KeptByExists ==
  ASSUME NEW S, NEW q \in Seq(S), NEW I
  PROVE  \E g : KeptBy(g, q, I, S)
<1> DEFINE Step(g, i) == g[i] = IF i \in I THEN Append(g[i - 1], q[i]) ELSE g[i - 1]
           Partial(k) == \E g \in [0..k -> Seq(S)] : g[0] = <<>> /\ \A i \in 1..k : Step(g, i)
           T == {k \in 0..Len(q) : ~Partial(k)}
<1>1. Len(q) \in Nat /\ \A i \in 1..Len(q) : q[i] \in S
  OBVIOUS
<1>2. T = {}
  <2> SUFFICES ASSUME T # {} PROVE FALSE
    OBVIOUS
  <2>1. PICK k \in T : \A m \in T : k <= m
    <3>1. T \in SUBSET Nat
      BY <1>1
    <3> HIDE DEF T
    <3> QED
      BY <3>1, LeastNat
  <2>2. k \in 0..Len(q) /\ ~Partial(k)
    BY <2>1
  <2>3. k # 0
    <3>1. Partial(0)
      <4> DEFINE g == [i \in 0..0 |-> <<>>]
      <4>1. g \in [0..0 -> Seq(S)] /\ g[0] = <<>>
        OBVIOUS
      <4>2. \A i \in 1..0 : Step(g, i)
        OBVIOUS
      <4> HIDE DEF g
      <4> QED
        BY <4>1, <4>2
    <3> QED
      BY <2>2, <3>1
  <2>4. k - 1 \in 0..Len(q) /\ k \in Nat /\ k - 1 \in Nat /\ ~(k <= k - 1) /\ k \in 1..Len(q)
    BY <1>1, <2>2, <2>3
  <2>5. Partial(k - 1)
    <3> HIDE DEF Partial
    <3> QED
      BY <2>1, <2>4
  <2>6. PICK g \in [0..(k - 1) -> Seq(S)] : g[0] = <<>> /\ \A i \in 1..(k - 1) : Step(g, i)
    BY <2>5
  <2> DEFINE last == IF k \in I THEN Append(g[k - 1], q[k]) ELSE g[k - 1]
             h == [i \in 0..k |-> IF i = k THEN last ELSE g[i]]
  <2>7. last \in Seq(S)
    BY <1>1, <2>4, <2>6
  <2>8. h \in [0..k -> Seq(S)] /\ h[0] = <<>>
    <3> HIDE DEF last
    <3> QED
      BY <2>3, <2>4, <2>6, <2>7
  <2>9. \A i \in 1..k : Step(h, i)
    <3> SUFFICES ASSUME NEW i \in 1..k PROVE Step(h, i)
      OBVIOUS
    <3>1. CASE i = k
      <4>1. h[k] = last /\ h[k - 1] = g[k - 1]
        BY <2>4
      <4> HIDE DEF h
      <4> QED
        BY <3>1, <4>1
    <3>2. CASE i # k
      <4>1. i \in 1..(k - 1) /\ i \in 0..k /\ i - 1 \in 0..k /\ i - 1 # k
        BY <2>4, <3>2
      <4>2. h[i] = g[i] /\ h[i - 1] = g[i - 1]
        BY <3>2, <4>1
      <4> HIDE DEF h
      <4> QED
        BY <2>6, <4>1, <4>2
    <3> QED
      BY <3>1, <3>2
  <2> HIDE DEF h, Step
  <2>10. Partial(k)
    BY <2>8, <2>9
  <2> QED
    BY <2>2, <2>10
<1>3. Partial(Len(q))
  <2>1. Len(q) \in 0..Len(q)
    BY <1>1
  <2> HIDE DEF Partial
  <2> QED
    BY <1>2, <2>1
<1> QED
  BY <1>3 DEF KeptBy

LEMMA KeptIs ==
  ASSUME NEW S, NEW q \in Seq(S), NEW I, NEW g, KeptBy(g, q, I, S)
  PROVE  Kept(q, I) = g[Len(q)]
<1> DEFINE h == CHOOSE h : h = [i \in 0..Len(q) |->
                    IF i = 0 THEN <<>>
                    ELSE IF i \in I THEN Append(h[i - 1], q[i]) ELSE h[i - 1]]
           T == {k \in 0..Len(q) : h[k] # g[k]}
<1>1. Len(q) \in Nat
  OBVIOUS
<1>2. g = [i \in 0..Len(q) |->
                    IF i = 0 THEN <<>>
                    ELSE IF i \in I THEN Append(g[i - 1], q[i]) ELSE g[i - 1]]
  <2>1. \A i \in 0..Len(q) : g[i] = IF i = 0 THEN <<>>
                    ELSE IF i \in I THEN Append(g[i - 1], q[i]) ELSE g[i - 1]
    <3>1. \A i \in 0..Len(q) : i # 0 => i \in 1..Len(q)
      BY <1>1
    <3>2. g[0] = <<>> /\ \A i \in 1..Len(q) : g[i] = IF i \in I THEN Append(g[i - 1], q[i]) ELSE g[i - 1]
      BY DEF KeptBy
    <3> QED
      BY <3>1, <3>2, Zenon
  <2> QED
    BY <2>1 DEF KeptBy
<1>3. h = [i \in 0..Len(q) |->
                    IF i = 0 THEN <<>>
                    ELSE IF i \in I THEN Append(h[i - 1], q[i]) ELSE h[i - 1]]
  BY <1>2, Zenon
<1>4. Kept(q, I) = h[Len(q)]
  BY Zenon DEF Kept
<1> HIDE DEF h
<1>5. T = {}
  <2> SUFFICES ASSUME T # {} PROVE FALSE
    OBVIOUS
  <2>1. PICK k \in T : \A m \in T : k <= m
    <3>1. T \in SUBSET Nat
      BY <1>1
    <3> HIDE DEF T
    <3> QED
      BY <3>1, LeastNat
  <2>2. k \in 0..Len(q) /\ h[k] # g[k]
    BY <2>1
  <2>3. k # 0
    BY <1>1, <1>3, <2>2 DEF KeptBy
  <2>4. k - 1 \in 0..Len(q) /\ ~(k <= k - 1)
    BY <1>1, <2>2, <2>3
  <2>5. h[k - 1] = g[k - 1]
    BY <2>1, <2>4
  <2>6. /\ h[k] = IF k \in I THEN Append(h[k - 1], q[k]) ELSE h[k - 1]
        /\ g[k] = IF k \in I THEN Append(g[k - 1], q[k]) ELSE g[k - 1]
    BY <1>2, <1>3, <2>2, <2>3
  <2> QED
    BY <2>2, <2>5, <2>6
<1>6. h[Len(q)] = g[Len(q)]
  BY <1>1, <1>5
<1> QED
  BY <1>4, <1>6

(* Kept leaves elements out, and changes neither them nor their order.     *)
LEMMA KeptPlaces ==
  ASSUME NEW S, NEW q \in Seq(S), NEW I
  PROVE  /\ Kept(q, I) \in Seq(S)
         /\ \E h \in [1..Len(Kept(q, I)) -> I \cap (1..Len(q))] :
               /\ \A i, j \in 1..Len(Kept(q, I)) : i < j => h[i] < h[j]
               /\ \A i \in 1..Len(Kept(q, I)) : Kept(q, I)[i] = q[h[i]]
               /\ \A n \in I \cap (1..Len(q)) : \E i \in 1..Len(Kept(q, I)) : h[i] = n
<1>1. PICK g : KeptBy(g, q, I, S)
  BY KeptByExists
<1>2. Kept(q, I) = g[Len(q)]
  BY <1>1, KeptIs
<1>3. Len(q) \in Nat /\ Len(q) \in 0..Len(q) /\ \A i \in 0..Len(q) : g[i] \in Seq(S) /\ Len(g[i]) \in Nat
  BY <1>1 DEF KeptBy
<1> DEFINE Places(k, h) == /\ h \in [1..Len(g[k]) -> I \cap (1..k)]
                           /\ \A i, j \in 1..Len(g[k]) : i < j => h[i] < h[j]
                           /\ \A i \in 1..Len(g[k]) : g[k][i] = q[h[i]]
                           /\ \A n \in I \cap (1..k) : \E i \in 1..Len(g[k]) : h[i] = n
           T == {k \in 0..Len(q) : ~\E h : Places(k, h)}
<1>4. T = {}
  <2> SUFFICES ASSUME T # {} PROVE FALSE
    OBVIOUS
  <2>1. PICK k \in T : \A m \in T : k <= m
    <3>1. T \in SUBSET Nat
      BY <1>3
    <3> HIDE DEF T
    <3> QED
      BY <3>1, LeastNat
  <2>2. k \in 0..Len(q) /\ ~\E h : Places(k, h)
    BY <2>1
  <2>3. k # 0
    <3>1. Places(0, <<>>)
      <4>1. g[0] = <<>> /\ Len(g[0]) = 0 /\ 1..0 = {} /\ <<>> \in [{} -> {}]
        BY <1>1 DEF KeptBy
      <4> QED
        BY <4>1
    <3> HIDE DEF Places
    <3> QED
      BY <2>2, <3>1
  <2>4. k - 1 \in 0..Len(q) /\ k \in Nat /\ k - 1 \in Nat /\ ~(k <= k - 1) /\ k \in 1..Len(q)
    BY <1>3, <2>2, <2>3
  <2>5. PICK h : Places(k - 1, h)
    <3> HIDE DEF Places
    <3> QED
      BY <2>1, <2>4
  <2>6. g[k] = IF k \in I THEN Append(g[k - 1], q[k]) ELSE g[k - 1]
    BY <1>1, <2>4 DEF KeptBy
  <2>7. CASE k \notin I
    <3>1. g[k] = g[k - 1] /\ I \cap (1..k) = I \cap (1..(k - 1))
      BY <2>4, <2>6, <2>7
    <3>2. Places(k, h)
      BY <2>5, <3>1
    <3> HIDE DEF Places
    <3> QED
      BY <2>2, <3>2
  <2>8. CASE k \in I
    <3> DEFINE L == Len(g[k - 1])
               h2 == [i \in 1..(L + 1) |-> IF i = L + 1 THEN k ELSE h[i]]
    <3>1. L \in Nat /\ g[k - 1] \in Seq(S) /\ q[k] \in S
      BY <1>3, <2>4
    <3>2. g[k] = Append(g[k - 1], q[k]) /\ Len(g[k]) = L + 1
      BY <2>6, <2>8, <3>1
    <3>3. /\ \A i \in 1..L : g[k][i] = g[k - 1][i]
          /\ g[k][L + 1] = q[k]
      BY <3>1, <3>2
    <3>4. /\ \A i \in 1..L : i \in 1..(L + 1) /\ i # L + 1 /\ h2[i] = h[i]
          /\ h2[L + 1] = k
      BY <3>1
    <3>5. \A i \in 1..(L + 1) : i \in 1..L \/ i = L + 1
      BY <3>1
    <3>6. \A i \in 1..L : h[i] \in I \cap (1..(k - 1)) /\ h[i] \in Nat /\ h[i] < k /\ h[i] \in 1..k
      <4>1. \A i \in 1..L : h[i] \in I \cap (1..(k - 1))
        BY <2>5
      <4>2. \A n \in 1..(k - 1) : n \in Nat /\ n < k /\ n \in 1..k
        BY <2>4
      <4> HIDE DEF L
      <4> QED
        BY <4>1, <4>2
    <3>7. h2 \in [1..(L + 1) -> I \cap (1..k)]
      <4>1. \A i \in 1..(L + 1) : h2[i] \in I \cap (1..k)
        <5> HIDE DEF L, h2
        <5> QED
          BY <2>4, <2>8, <3>4, <3>5, <3>6
      <4> HIDE DEF L
      <4> QED
        BY <4>1
    <3>8. ASSUME NEW i \in 1..(L + 1), NEW j \in 1..(L + 1), i < j PROVE h2[i] < h2[j]
      <4>1. i \in 1..L
        BY <3>1, <3>8
      <4>2. CASE j = L + 1
        <5> HIDE DEF L, h2
        <5> QED
          BY <3>4, <3>6, <4>1, <4>2
      <4>3. CASE j \in 1..L
        <5>1. h[i] < h[j]
          BY <2>5, <3>8, <4>1, <4>3
        <5> HIDE DEF L, h2
        <5> QED
          BY <3>4, <4>1, <4>3, <5>1
      <4> QED
        BY <3>5, <4>2, <4>3
    <3>9. ASSUME NEW i \in 1..(L + 1) PROVE g[k][i] = q[h2[i]]
      <4>1. \A m \in 1..L : g[k - 1][m] = q[h[m]]
        BY <2>5
      <4> HIDE DEF L, h2
      <4> QED
        BY <3>3, <3>4, <3>5, <4>1
    <3>10. ASSUME NEW n \in I \cap (1..k) PROVE \E i \in 1..(L + 1) : h2[i] = n
      <4>1. CASE n = k
        <5>1. L + 1 \in 1..(L + 1)
          BY <3>1
        <5> HIDE DEF L, h2
        <5> QED
          BY <3>4, <4>1, <5>1
      <4>2. CASE n # k
        <5>1. n \in I \cap (1..(k - 1))
          BY <2>4, <4>2
        <5>2. PICK i \in 1..L : h[i] = n
          BY <2>5, <5>1
        <5> HIDE DEF L, h2
        <5> QED
          BY <3>4, <5>2
      <4> QED
        BY <4>1, <4>2
    <3> HIDE DEF h2, L
    <3>11. Places(k, h2)
      BY <3>2, <3>7, <3>8, <3>9, <3>10
    <3> HIDE DEF Places
    <3> QED
      BY <2>2, <3>11
  <2> QED
    BY <2>7, <2>8
<1>5. \E h : Places(Len(q), h)
  <2> HIDE DEF Places
  <2> QED
    BY <1>3, <1>4
<1> QED
  BY <1>2, <1>3, <1>5

(* What is kept of a tail is the tail. *)
LEMMA KeptTail ==
  ASSUME NEW S, NEW q \in Seq(S), NEW n \in 0..Len(q), NEW I,
         \A i \in 1..Len(q) : i \in I <=> i > n
  PROVE  Kept(q, I) = SubSeq(q, n + 1, Len(q))
<1> DEFINE g == [i \in 0..Len(q) |-> SubSeq(q, n + 1, i)]
<1>1. Len(q) \in Nat /\ n \in Nat /\ Len(q) \in 0..Len(q)
  OBVIOUS
<1>2. \A i \in 0..Len(q) : SubSeq(q, n + 1, i) \in Seq(S)
  OBVIOUS
<1>3. g[0] = <<>>
  BY <1>1
<1>4. ASSUME NEW i \in 1..Len(q) PROVE g[i] = IF i \in I THEN Append(g[i - 1], q[i]) ELSE g[i - 1]
  <2>1. i \in 0..Len(q) /\ i - 1 \in 0..Len(q) /\ i \in Nat /\ i - 1 \in Nat
    BY <1>1
  <2>2. g[i] = SubSeq(q, n + 1, i) /\ g[i - 1] = SubSeq(q, n + 1, i - 1)
    BY <2>1
  <2>3. CASE i > n
    <3>1. SubSeq(q, n + 1, i) = Append(SubSeq(q, n + 1, i - 1), q[i])
      BY <1>1, <2>1, <2>3
    <3> QED
      BY <2>2, <2>3, <3>1
  <2>4. CASE ~(i > n)
    <3>1. SubSeq(q, n + 1, i) = <<>> /\ SubSeq(q, n + 1, i - 1) = <<>>
      BY <1>1, <2>1, <2>4
    <3> QED
      BY <2>2, <2>4, <3>1
  <2> QED
    BY <1>1, <2>1, <2>3, <2>4
<1>5. KeptBy(g, q, I, S)
  BY <1>2, <1>3, <1>4 DEF KeptBy
<1>6. Kept(q, I) = g[Len(q)]
  <2> HIDE DEF g
  <2> QED
    BY <1>5, KeptIs
<1> QED
  BY <1>1, <1>6

(* h tells the place in q of each element of p, for those at places in I *)
Places(h, p, q, I) ==
    /\ h \in [1..Len(p) -> I \cap (1..Len(q))]
    /\ \A i, j \in 1..Len(p) : i < j => h[i] < h[j]
    /\ \A i \in 1..Len(p) : p[i] = q[h[i]]
    /\ \A n \in I \cap (1..Len(q)) : \E i \in 1..Len(p) : h[i] = n

LEMMA KeptIsPlaced ==
  ASSUME NEW S, NEW q \in Seq(S), NEW I
  PROVE  \E h : Places(h, Kept(q, I), q, I)
  BY KeptPlaces, SMTT(40) DEF Places

(* No element twice in q *)
Distinct(q) == \A i, j \in DOMAIN q : q[i] = q[j] => i = j

LEMMA KeptIsDistinct ==
  ASSUME NEW S, NEW q \in Seq(S), NEW I, Distinct(q)
  PROVE  Distinct(Kept(q, I))
<1> DEFINE k == Kept(q, I)
<1>1. k \in Seq(S) /\ DOMAIN k = 1..Len(k) /\ Len(k) \in Nat /\ DOMAIN q = 1..Len(q)
  BY KeptPlaces
<1>2. PICK h \in [1..Len(k) -> I \cap (1..Len(q))] :
         /\ \A i, j \in 1..Len(k) : i < j => h[i] < h[j]
         /\ \A i \in 1..Len(k) : k[i] = q[h[i]]
  BY KeptPlaces
<1> HIDE DEF k
<1>3. SUFFICES ASSUME NEW i \in 1..Len(k), NEW j \in 1..Len(k), k[i] = k[j], i # j PROVE FALSE
  BY <1>1 DEF Distinct, k
<1>4. h[i] \in 1..Len(q) /\ h[j] \in 1..Len(q) /\ h[i] \in Nat /\ h[j] \in Nat
  BY <1>2
<1>5. h[i] = h[j]
  BY <1>1, <1>2, <1>3, <1>4 DEF Distinct
<1>6. i < j \/ j < i
  BY <1>1, <1>3
<1> QED
  BY <1>2, <1>4, <1>5, <1>6

(* As many elements are kept as there are places. *)
LEMMA KeptCount ==
  ASSUME NEW S, NEW q \in Seq(S), NEW I
  PROVE  /\ IsFiniteSet(I \cap (1..Len(q)))
         /\ Len(Kept(q, I)) = Cardinality(I \cap (1..Len(q)))
<1> DEFINE k == Kept(q, I)
           J == I \cap (1..Len(q))
<1>1. k \in Seq(S) /\ Len(k) \in Nat
  BY KeptPlaces
<1>2. PICK h \in [1..Len(k) -> J] :
         /\ \A i, j \in 1..Len(k) : i < j => h[i] < h[j]
         /\ \A i \in 1..Len(k) : k[i] = q[h[i]]
         /\ \A n \in J : \E i \in 1..Len(k) : h[i] = n
  BY KeptPlaces
<1>3. \A i, j \in 1..Len(k) : h[i] = h[j] => i = j
  <2> SUFFICES ASSUME NEW i \in 1..Len(k), NEW j \in 1..Len(k), h[i] = h[j], i # j PROVE FALSE
    OBVIOUS
  <2>1. i < j \/ j < i
    BY <1>1
  <2>2. h[i] \in Nat /\ h[j] \in Nat
    BY <1>2
  <2> QED
    BY <1>2, <2>1, <2>2
<1> HIDE DEF k, J
<1>4. h \in Bijection(1..Len(k), J)
  BY <1>2, <1>3 DEF Bijection, Injection, Surjection, IsInjective
<1>5. IsFiniteSet(1..Len(k)) /\ Cardinality(1..Len(k)) = Len(k)
  <2>1. 1 \in Int /\ Len(k) \in Int
    BY <1>1
  <2>2. IsFiniteSet(1..Len(k)) /\ Cardinality(1..Len(k)) = IF 1 > Len(k) THEN 0 ELSE Len(k) - 1 + 1
    BY <2>1, FS_Interval, Zenon
  <2> QED
    BY <1>1, <2>2
<1>6. IsFiniteSet(J) /\ Cardinality(J) = Cardinality(1..Len(k))
  BY <1>4, <1>5, FS_Bijection DEF ExistsBijection
<1> QED
  BY <1>5, <1>6 DEF k, J

-----------------------------------------------------------------------------
(* One scope's journal *)

Journal == [cursor : Nat, replay : Seq(Entry), dropped : Nat, ids : SUBSET Ids]

Whole(x) ==
    /\ x \in Journal
    /\ x.dropped + Len(x.replay) = x.cursor
    /\ \A i \in DOMAIN x.replay : x.replay[i].cursor = x.dropped + i
    /\ x.ids = IdsOf(x.replay)
    /\ \A i, j \in DOMAIN x.replay : x.replay[i].id = x.replay[j].id /\ x.replay[i].id # Fresh => i = j

LEMMA EmptyIsWhole == Whole(Empty)
<1>1. <<>> \in Seq(Entry) /\ Len(<<>>) = 0 /\ DOMAIN <<>> = {}
  OBVIOUS
<1>2. Empty \in Journal
  BY <1>1 DEF Empty, Journal
<1> QED
  BY <1>1, <1>2 DEF Whole, Empty, IdsOf

LEMMA EvictedIsWhole ==
  ASSUME NEW x, Whole(x)
  PROVE  Whole(Evicted(x)) /\ Evicted(x).cursor = x.cursor
<1>1. <<>> \in Seq(Entry) /\ Len(<<>>) = 0 /\ DOMAIN <<>> = {}
  OBVIOUS
<1>2. Evicted(x) = [cursor |-> x.cursor, replay |-> <<>>, dropped |-> x.cursor, ids |-> {}]
  BY DEF Evicted
<1>3. x.cursor \in Nat
  BY DEF Whole, Journal
<1> QED
  BY <1>1, <1>2, <1>3 DEF Whole, Journal, IdsOf

LEMMA AppendedIsWhole ==
  ASSUME NEW x, Whole(x), NEW e \in [id : Ids \cup {Fresh}, size : Nat], e.id \notin x.ids
  PROVE  Whole(Appended(x, e)) /\ Appended(x, e).cursor = x.cursor + 1
<1> DEFINE new == [cursor |-> x.cursor + 1, id |-> e.id, size |-> e.size]
           q == Append(x.replay, new)
           L == Len(x.replay)
           y == Appended(x, e)
<1>1. x.cursor \in Nat /\ x.replay \in Seq(Entry) /\ x.dropped \in Nat /\ x.ids \in SUBSET Ids /\ L \in Nat
  BY DEF Whole, Journal
<1>2. y = [cursor |-> x.cursor + 1, replay |-> q, dropped |-> x.dropped, ids |-> x.ids \cup ({e.id} \ {Fresh})]
  BY DEF Appended
<1>3. new \in Entry /\ new.cursor = x.cursor + 1 /\ new.id = e.id
  BY <1>1 DEF Entry
<1> HIDE DEF new
<1>4. /\ q \in Seq(Entry) /\ Len(q) = L + 1 /\ DOMAIN q = 1..(L + 1) /\ DOMAIN x.replay = 1..L
      /\ \A i \in 1..L : q[i] = x.replay[i]
      /\ q[L + 1] = new
  BY <1>1, <1>3
<1>5. \A i \in 1..(L + 1) : i \in 1..L \/ i = L + 1
  BY <1>1
<1>6. L + 1 \in 1..(L + 1) /\ 1..L \subseteq 1..(L + 1)
  BY <1>1
<1> HIDE DEF q, L
<1>7. \A i \in 1..(L + 1) : q[i].cursor = x.dropped + i
  <2>1. \A i \in 1..L : x.replay[i].cursor = x.dropped + i
    BY <1>4 DEF Whole
  <2>2. x.dropped + L = x.cursor
    BY DEF Whole, L
  <2>3. new.cursor = x.dropped + (L + 1)
    BY <1>1, <1>3, <2>2, SMTT(40)
  <2> QED
    BY <1>4, <1>5, <2>1, <2>3
<1>8. x.ids = {x.replay[i].id : i \in 1..L} \ {Fresh}
  BY <1>4 DEF Whole, IdsOf
<1>9. IdsOf(q) = x.ids \cup ({e.id} \ {Fresh})
  <2>1. {q[i].id : i \in 1..(L + 1)} = {x.replay[i].id : i \in 1..L} \cup {e.id}
    <3>1. \A v : (\E i \in 1..(L + 1) : v = q[i].id) <=> ((\E i \in 1..L : v = x.replay[i].id) \/ v = e.id)
      BY <1>3, <1>4, <1>5, <1>6
    <3> QED
      BY <3>1, SMTT(40)
  <2> QED
    BY <1>4, <1>8, <2>1 DEF IdsOf
<1>10. \A i, j \in 1..(L + 1) : q[i].id = q[j].id /\ q[i].id # Fresh => i = j
  <2>1. \A i, j \in 1..L : x.replay[i].id = x.replay[j].id /\ x.replay[i].id # Fresh => i = j
    BY <1>4 DEF Whole
  <2>2. \A i \in 1..L : x.replay[i].id # Fresh => x.replay[i].id # e.id
    BY <1>8
  <2> QED
    BY <1>3, <1>4, <1>5, <2>1, <2>2
<1>11. x.dropped + (L + 1) = x.cursor + 1
  <2>1. x.dropped + L = x.cursor
    BY DEF Whole, L
  <2> QED
    BY <1>1, <2>1
<1>12. y \in Journal
  BY <1>1, <1>2, <1>4 DEF Journal
<1> HIDE DEF y
<1>13. Whole(y)
  BY <1>2, <1>4, <1>7, <1>9, <1>10, <1>11, <1>12 DEF Whole
<1> QED
  BY <1>2, <1>13 DEF y

LEMMA NoBytes == Bytes(<<>>) = 0
<1> DEFINE h == CHOOSE h : h = [i \in 0..Len(<<>>) |-> IF i = 0 THEN 0 ELSE h[i - 1] + <<>>[i].size]
           g == [i \in 0..Len(<<>>) |-> 0]
<1>1. 0..Len(<<>>) = {0}
  OBVIOUS
<1>2. g = [i \in 0..Len(<<>>) |-> IF i = 0 THEN 0 ELSE g[i - 1] + <<>>[i].size]
  BY <1>1
<1>3. h = [i \in 0..Len(<<>>) |-> IF i = 0 THEN 0 ELSE h[i - 1] + <<>>[i].size]
  <2> HIDE DEF g
  <2> QED
    BY <1>2, Zenon
<1>4. Bytes(<<>>) = h[Len(<<>>)]
  BY Zenon DEF Bytes
<1> HIDE DEF h
<1>5. Len(<<>>) = 0
  OBVIOUS
<1> QED
  BY <1>1, <1>3, <1>4, <1>5

(* Some tail fits, so there is a longest one. *)
LEMMA LongestTail ==
  ASSUME NEW q \in Seq(Entry)
  PROVE  \E k \in 0..Len(q) : Fits(Newest(q, k)) /\ \A j \in k + 1..Len(q) : ~Fits(Newest(q, j))
<1> DEFINE T == {m \in 0..Len(q) : Fits(Newest(q, Len(q) - m))}
<1>1. Len(q) \in Nat
  OBVIOUS
<1>2. Len(q) \in T
  <2>1. Newest(q, 0) = <<>>
    BY <1>1 DEF Newest
  <2>2. Fits(<<>>)
    BY NoBytes, ConstantsAssumption DEF Fits
  <2>3. Len(q) \in 0..Len(q) /\ Len(q) - Len(q) = 0
    BY <1>1
  <2> QED
    BY <2>1, <2>2, <2>3
<1>3. PICK m \in T : \A n \in T : m <= n
  <2>1. T \in SUBSET Nat
    BY <1>1
  <2> HIDE DEF T
  <2> QED
    BY <1>2, <2>1, LeastNat
<1> DEFINE k == Len(q) - m
<1>4. k \in 0..Len(q) /\ Fits(Newest(q, k)) /\ m \in 0..Len(q)
  BY <1>1, <1>3
<1>5. ASSUME NEW j \in k + 1..Len(q), Fits(Newest(q, j)) PROVE FALSE
  <2> DEFINE n == Len(q) - j
  <2>1. j \in Nat /\ n \in 0..Len(q) /\ Len(q) - n = j /\ ~(m <= n)
    BY <1>1, <1>4
  <2> HIDE DEF n, k
  <2>2. n \in T
    BY <1>5, <2>1
  <2> QED
    BY <1>3, <2>1, <2>2
<1> HIDE DEF k
<1> QED
  BY <1>4, <1>5

LEMMA TrimmedIsWhole ==
  ASSUME NEW x, Whole(x)
  PROVE  Whole(Trimmed(x)) /\ Trimmed(x).cursor = x.cursor
<1> DEFINE Longest(k) == /\ Fits(Newest(x.replay, k))
                         /\ \A j \in k + 1..Len(x.replay) : ~Fits(Newest(x.replay, j))
           L == Len(x.replay)
           k == CHOOSE k \in 0..L : Longest(k)
           gone == L - k
           q == Newest(x.replay, k)
           lost == {x.replay[i].id : i \in 1..gone}
           y == Trimmed(x)
<1>1. x.cursor \in Nat /\ x.replay \in Seq(Entry) /\ x.dropped \in Nat /\ x.ids \in SUBSET Ids /\ L \in Nat
  BY DEF Whole, Journal
<1>2. k \in 0..L
  <2>1. \E n \in 0..L : Longest(n)
    BY <1>1, LongestTail
  <2> HIDE DEF Longest
  <2> QED
    BY <2>1
<1>3. y = [cursor |-> x.cursor, replay |-> q,
           dropped |-> IF gone > 0 THEN x.replay[gone].cursor ELSE x.dropped,
           ids |-> x.ids \ lost]
  BY DEF Trimmed
<1> HIDE DEF k
<1>4. gone \in 0..L /\ k = L - gone /\ DOMAIN x.replay = 1..L
  BY <1>1, <1>2
<1>5. /\ q \in Seq(Entry) /\ Len(q) = L - gone /\ DOMAIN q = 1..(L - gone)
      /\ \A i \in 1..(L - gone) : q[i] = x.replay[gone + i]
  <2>1. (L - k) + 1 = gone + 1
    OBVIOUS
  <2>2. q = SubSeq(x.replay, gone + 1, L)
    BY DEF Newest
  <2> HIDE DEF q, gone, L
  <2>3. /\ \A i \in gone + 1..L : x.replay[i] \in Entry
        /\ L = Len(x.replay)
    BY <1>1, <1>4 DEF L
  <2> QED
    BY <1>1, <1>4, <2>2, <2>3
<1> HIDE DEF q, gone
<1>6. (IF gone > 0 THEN x.replay[gone].cursor ELSE x.dropped) = x.dropped + gone
  <2>1. gone > 0 => gone \in DOMAIN x.replay
    BY <1>1, <1>4
  <2> QED
    BY <1>1, <1>4, <2>1, SMTT(40) DEF Whole
<1>7. \A i \in 1..(L - gone) : gone + i \in 1..L /\ (x.dropped + gone) + i = x.dropped + (gone + i)
  BY <1>1, <1>4
<1>8. \A i \in 1..(L - gone) : q[i].cursor = (x.dropped + gone) + i
  BY <1>4, <1>5, <1>7 DEF Whole
<1>9. \A i, j \in 1..L : x.replay[i].id = x.replay[j].id /\ x.replay[i].id # Fresh => i = j
  BY <1>4 DEF Whole
<1>10. \A i, j \in 1..(L - gone) : q[i].id = q[j].id /\ q[i].id # Fresh => i = j
  <2> SUFFICES ASSUME NEW i \in 1..(L - gone), NEW j \in 1..(L - gone), q[i].id = q[j].id, q[i].id # Fresh
               PROVE  i = j
    OBVIOUS
  <2>1. gone + i = gone + j
    BY <1>5, <1>7, <1>9
  <2>2. i \in Nat /\ j \in Nat /\ gone \in Nat
    BY <1>1, <1>4
  <2> QED
    BY <2>1, <2>2
<1>11. x.ids \ lost = IdsOf(q)
  <2>1. x.ids = {x.replay[i].id : i \in 1..L} \ {Fresh}
    BY <1>4 DEF Whole, IdsOf
  <2>2. IdsOf(q) = {q[i].id : i \in 1..(L - gone)} \ {Fresh}
    BY <1>5 DEF IdsOf
  <2>3. ASSUME NEW v, v \in x.ids \ lost PROVE v \in IdsOf(q)
    <3>1. PICK i \in 1..L : v = x.replay[i].id
      BY <2>1, <2>3
    <3>2. i \notin 1..gone
      BY <2>3, <3>1
    <3>3. i - gone \in 1..(L - gone) /\ gone + (i - gone) = i
      BY <1>1, <1>4, <3>2
    <3>4. q[i - gone] = x.replay[i]
      BY <1>5, <3>3
    <3> QED
      BY <2>1, <2>2, <2>3, <3>1, <3>3, <3>4
  <2>4. ASSUME NEW v, v \in IdsOf(q) PROVE v \in x.ids \ lost
    <3>1. PICK i \in 1..(L - gone) : v = q[i].id
      BY <2>2, <2>4
    <3>2. v = x.replay[gone + i].id /\ gone + i \in 1..L /\ v # Fresh
      BY <1>5, <1>7, <2>2, <2>4, <3>1
    <3>3. v \in x.ids
      BY <2>1, <3>2
    <3>4. ASSUME NEW j \in 1..gone, v = x.replay[j].id PROVE FALSE
      <4>1. j \in 1..L /\ j # gone + i
        BY <1>1, <1>4
      <4> QED
        BY <1>9, <3>2, <3>4, <4>1
    <3> QED
      BY <3>3, <3>4
  <2> QED
    BY <2>3, <2>4
<1>12. x.dropped + gone \in Nat /\ (x.dropped + gone) + (L - gone) = x.cursor
  <2>1. x.dropped + L = x.cursor
    BY DEF Whole
  <2> QED
    BY <1>1, <1>4, <2>1
<1> HIDE DEF L, lost
<1>13. y = [cursor |-> x.cursor, replay |-> q, dropped |-> x.dropped + gone, ids |-> IdsOf(q)]
  BY <1>3, <1>6, <1>11
<1>14. IdsOf(q) \in SUBSET Ids
  BY <1>1, <1>11
<1>15. y \in Journal
  BY <1>1, <1>5, <1>12, <1>13, <1>14 DEF Journal
<1> HIDE DEF y
<1>16. Whole(y)
  BY <1>5, <1>8, <1>10, <1>12, <1>13, <1>15 DEF Whole
<1> QED
  BY <1>13, <1>16 DEF y

-----------------------------------------------------------------------------
(* All journals, and the order in which they were used *)

HubWhole(h) == h \in [Scopes -> Journal] /\ \A a \in Scopes : Whole(h[a])

JournalsGood(j) == j \in Seq(Scopes) /\ Distinct(j)

LEMMA PruneKeeps ==
  ASSUME NEW h, HubWhole(h), NEW j, JournalsGood(j), NEW protected, NEW busy,
         Prune(h, j, protected, busy)
  PROVE  /\ HubWhole(hub')
         /\ \A a \in Scopes : hub'[a].cursor = h[a].cursor
         /\ JournalsGood(journals')
<1> DEFINE victims == Victims(j, protected, busy)
<1>1. /\ hub' = [a \in Scopes |-> IF a \in victims THEN Evicted(h[a]) ELSE h[a]]
      /\ journals' = Kept(j, {i \in DOMAIN j : j[i] \notin victims})
  BY DEF Prune
<1> HIDE DEF victims
<1>2. \A a \in Scopes : Whole(h[a]) /\ Whole(Evicted(h[a])) /\ Evicted(h[a]).cursor = h[a].cursor
  BY EvictedIsWhole DEF HubWhole
<1>3. \A a \in Scopes : Whole(hub'[a]) /\ hub'[a].cursor = h[a].cursor
  BY <1>1, <1>2
<1>4. \A a \in Scopes : hub'[a] \in Journal
  BY <1>3 DEF Whole
<1>5. hub' \in [Scopes -> Journal]
  BY <1>1, <1>4
<1>6. JournalsGood(journals')
  BY <1>1, KeptPlaces, KeptIsDistinct DEF JournalsGood
<1> QED
  BY <1>3, <1>5, <1>6 DEF HubWhole

LEMMA TouchedIsGood ==
  ASSUME JournalsGood(journals), NEW a \in Scopes
  PROVE  JournalsGood(Touched(a))
<1> DEFINE I == {i \in DOMAIN journals : journals[i] # a}
           k == Kept(journals, I)
<1>1. journals \in Seq(Scopes) /\ Distinct(journals)
  BY DEF JournalsGood
<1>2. k \in Seq(Scopes) /\ Distinct(k)
  BY <1>1, KeptPlaces, KeptIsDistinct
<1>3. PICK h \in [1..Len(k) -> I \cap (1..Len(journals))] :
         /\ \A i, j \in 1..Len(k) : i < j => h[i] < h[j]
         /\ \A i \in 1..Len(k) : k[i] = journals[h[i]]
         /\ \A n \in I \cap (1..Len(journals)) : \E i \in 1..Len(k) : h[i] = n
  <2> HIDE DEF I
  <2> QED
    BY <1>1, KeptPlaces
<1>4. \A i \in 1..Len(k) : k[i] # a
  BY <1>3
<1>5. Touched(a) = Append(k, a)
  BY DEF Touched
<1> HIDE DEF k, I
<1>6. Distinct(Append(k, a))
  BY <1>2, <1>4 DEF Distinct
<1> QED
  BY <1>2, <1>5, <1>6 DEF JournalsGood

-----------------------------------------------------------------------------
(* What a client at cursor n makes of the frames q *)

Prev(n, q, i) == IF i = 1 THEN n ELSE q[i - 1].n

Told(n, q) ==
    \A i \in DOMAIN q : /\ q[i].kind = "event" => q[i].n = Prev(n, q, i) + 1
                        /\ q[i].kind = "cursor" => q[i].n = Prev(n, q, i)

Reached(n, q) == Prev(n, q, Len(q) + 1)

LEMMA ToldPrefix ==
  ASSUME NEW n, NEW q \in Seq(Frame), Told(n, q), NEW k \in 0..Len(q)
  PROVE  SubSeq(q, 1, k) \in Seq(Frame) /\ Told(n, SubSeq(q, 1, k))
<1> DEFINE r == SubSeq(q, 1, k)
<1>1. Len(q) \in Nat /\ k \in Nat /\ k <= Len(q) /\ DOMAIN q = 1..Len(q)
  OBVIOUS
<1>2. r \in Seq(Frame) /\ Len(r) = k /\ DOMAIN r = 1..k /\ \A i \in 1..k : r[i] = q[i]
  BY <1>1
<1> HIDE DEF r
<1>3. \A i \in 1..k : i \in DOMAIN q /\ (i # 1 => i - 1 \in 1..k)
  BY <1>1
<1>4. \A i \in 1..k : Prev(n, r, i) = Prev(n, q, i)
  BY <1>2, <1>3 DEF Prev
<1>5. Told(n, r)
  BY <1>2, <1>3, <1>4 DEF Told
<1> QED
  BY <1>2, <1>5 DEF r

LEMMA ToldMore ==
  ASSUME NEW n, NEW q \in Seq(Frame), Told(n, q), NEW m \in Nat, Reached(n, q) = m
  PROVE  LET f == [kind |-> "event", n |-> m + 1]
         IN  /\ Append(q, f) \in Seq(Frame)
             /\ Told(n, Append(q, f))
             /\ Reached(n, Append(q, f)) = m + 1
<1> DEFINE f == [kind |-> "event", n |-> m + 1]
           r == Append(q, f)
           L == Len(q)
<1>1. f \in Frame /\ f.n = m + 1 /\ f.kind = "event"
  BY DEF Frame
<1> HIDE DEF f
<1>2. L \in Nat /\ DOMAIN q = 1..L
  OBVIOUS
<1>3. r \in Seq(Frame) /\ Len(r) = L + 1 /\ DOMAIN r = 1..(L + 1) /\ r[L + 1] = f
      /\ \A i \in 1..L : r[i] = q[i]
  BY <1>1
<1>4. \A i \in 1..(L + 1) : (i \in 1..L \/ i = L + 1) /\ (i # 1 => i - 1 \in 1..L)
  BY <1>2
<1> HIDE DEF r
<1>5. \A i \in 1..(L + 1) : Prev(n, r, i) = Prev(n, q, i)
  BY <1>3, <1>4 DEF Prev
<1>6. L + 1 \in 1..(L + 1) /\ Prev(n, q, L + 1) = m
  BY <1>2 DEF Reached
<1>7. Told(n, r)
  BY <1>1, <1>2, <1>3, <1>4, <1>5, <1>6 DEF Told
<1>8. Reached(n, r) = m + 1
  <2>1. (L + 1) + 1 # 1 /\ ((L + 1) + 1) - 1 = L + 1
    BY <1>2
  <2> QED
    BY <1>1, <1>3, <2>1 DEF Reached, Prev
<1> QED
  BY <1>3, <1>7, <1>8 DEF r, f

LEMMA ToldRest ==
  ASSUME NEW n, NEW q \in Seq(Frame), q # <<>>, Told(n, q)
  PROVE  /\ Tail(q) \in Seq(Frame) /\ Head(q) \in Frame
         /\ Told(Head(q).n, Tail(q))
         /\ Reached(Head(q).n, Tail(q)) = Reached(n, q)
<1> DEFINE r == Tail(q)
           L == Len(q)
<1>1. L \in Nat /\ L # 0 /\ DOMAIN q = 1..L /\ Head(q) = q[1] /\ Head(q) \in Frame
  OBVIOUS
<1>2. r \in Seq(Frame) /\ Len(r) = L - 1 /\ DOMAIN r = 1..(L - 1) /\ \A i \in 1..(L - 1) : r[i] = q[i + 1]
  BY <1>1
<1>3. \A i \in 1..L : (i # 1 => i - 1 \in 1..(L - 1) /\ (i - 1) + 1 = i) /\ (i + 1) # 1 /\ (i + 1) - 1 = i
  BY <1>1
<1>4. \A i \in 1..(L - 1) : i \in 1..L /\ i + 1 \in 1..L
  BY <1>1
<1> HIDE DEF r
<1>5. \A i \in 1..L : Prev(Head(q).n, r, i) = Prev(n, q, i + 1)
  BY <1>1, <1>2, <1>3 DEF Prev
<1> HIDE DEF L
<1>6. Told(Head(q).n, r)
  <2> SUFFICES ASSUME NEW i \in 1..(L - 1)
               PROVE  /\ r[i].kind = "event" => r[i].n = Prev(Head(q).n, r, i) + 1
                      /\ r[i].kind = "cursor" => r[i].n = Prev(Head(q).n, r, i)
    BY <1>2 DEF Told
  <2>1. i \in 1..L /\ i + 1 \in DOMAIN q
    BY <1>1, <1>4
  <2>2. r[i] = q[i + 1] /\ Prev(Head(q).n, r, i) = Prev(n, q, i + 1)
    BY <1>2, <1>5, <2>1
  <2> QED
    BY <2>1, <2>2 DEF Told
<1>7. Reached(Head(q).n, r) = Reached(n, q)
  <2>1. L \in 1..L /\ (L - 1) + 1 = L
    BY <1>1
  <2> QED
    BY <1>2, <1>5, <2>1 DEF Reached, L
<1> QED
  BY <1>1, <1>2, <1>6, <1>7 DEF r

-----------------------------------------------------------------------------
(* The greeting tells the client all, or to resynchronise. *)

LEMMA ReplayedIs ==
  ASSUME HubWhole(hub), NEW c \in Clients, client[c].n \in Nat \cup {NoCursor}, ~ResyncRequired(c)
  PROVE  /\ Resume(c) \in Nat
         /\ Replayed(c) \in Seq(Entry)
         /\ Len(Replayed(c)) = hub[ScopeOf[c]].cursor - Resume(c)
         /\ \A i \in 1..Len(Replayed(c)) : Replayed(c)[i].cursor = Resume(c) + i
<1> DEFINE x == hub[ScopeOf[c]]
           n == Resume(c)
           L == Len(x.replay)
           k == n - x.dropped
           I == {i \in DOMAIN x.replay : x.replay[i].cursor > n}
<1>1. ScopeOf[c] \in Scopes
  BY ConstantsAssumption
<1>2. Whole(x)
  BY <1>1 DEF HubWhole
<1>3. x.cursor \in Nat /\ x.replay \in Seq(Entry) /\ x.dropped \in Nat /\ L \in Nat
      /\ DOMAIN x.replay = 1..L /\ x.dropped + L = x.cursor
  BY <1>2 DEF Whole, Journal
<1>4. n \in Nat /\ n <= x.cursor /\ x.dropped <= n
  <2>1. CASE client[c].n = NoCursor
    <3>1. n = x.cursor
      BY <2>1 DEF Resume
    <3> QED
      BY <1>3, <3>1
  <2>2. CASE client[c].n # NoCursor
    <3>1. n = client[c].n /\ n \in Nat
      BY <2>2 DEF Resume
    <3>2. ~(n > x.cursor) /\ ~(n < x.dropped)
      BY <2>2 DEF ResyncRequired
    <3> QED
      BY <1>3, <3>1, <3>2
  <2> QED
    BY <2>1, <2>2
<1>5. k \in 0..L
  BY <1>3, <1>4, SMTT(40)
<1>6. \A i \in 1..L : i \in I <=> i > k
  <2>1. \A i \in 1..L : x.replay[i].cursor = x.dropped + i
    BY <1>2, <1>3 DEF Whole
  <2> QED
    BY <1>3, <1>4, <2>1, SMTT(40)
<1>7. Replayed(c) = Kept(x.replay, I)
  BY DEF Replayed
<1> DEFINE r == Replayed(c)
<1>8. r = SubSeq(x.replay, k + 1, L)
  <2> HIDE DEF I, k, r
  <2> QED
    BY <1>3, <1>5, <1>6, <1>7, KeptTail DEF r
<1> HIDE DEF r, n, x, I
<1>9. \A i \in k + 1..L : x.replay[i] \in Entry
  BY <1>3, <1>5
<1>10. /\ r \in Seq(Entry) /\ Len(r) = L - k /\ DOMAIN r = 1..(L - k)
       /\ \A i \in 1..(L - k) : r[i] = x.replay[k + i]
  <2> HIDE DEF k
  <2> QED
    BY <1>3, <1>5, <1>8, <1>9
<1>11. L - k = x.cursor - n
  BY <1>3, <1>4
<1>12. \A i \in 1..(L - k) : r[i].cursor = n + i
  <2>1. \A i \in 1..(L - k) : k + i \in 1..L /\ x.dropped + (k + i) = n + i
    BY <1>3, <1>4, <1>5, SMTT(40)
  <2>2. \A i \in 1..L : x.replay[i].cursor = x.dropped + i
    BY <1>2, <1>3 DEF Whole
  <2> HIDE DEF k
  <2> QED
    BY <1>10, <2>1, <2>2
<1> QED
  BY <1>4, <1>10, <1>11, <1>12 DEF r, n, x

LEMMA GreetingTells ==
  ASSUME HubWhole(hub), NEW c \in Clients, client[c].n \in Nat \cup {NoCursor}
  PROVE  /\ Greeting(c) \in Seq(Frame)
         /\ Told(client[c].n, Greeting(c))
         /\ Reached(client[c].n, Greeting(c)) = hub[ScopeOf[c]].cursor
<1> DEFINE x == hub[ScopeOf[c]]
           n == Resume(c)
           ready == [kind |-> "ready", n |-> n]
           now_(kind) == [kind |-> kind, n |-> x.cursor]
           q == Greeting(c)
<1>1. x.cursor \in Nat
  BY ConstantsAssumption DEF HubWhole, Journal
<1>2. n \in Nat
  BY <1>1 DEF Resume
<1>3. ready \in Frame /\ now_("resync") \in Frame /\ now_("cursor") \in Frame
  BY <1>1, <1>2 DEF Frame
<1>4. CASE ResyncRequired(c)
  <2>1. q = <<ready, now_("resync")>>
    BY <1>4 DEF Greeting
  <2> HIDE DEF q
  <2>2. q \in Seq(Frame) /\ Len(q) = 2 /\ DOMAIN q = {1, 2} /\ q[1] = ready /\ q[2] = now_("resync")
    BY <1>3, <2>1
  <2>3. Told(client[c].n, q)
    BY <2>2 DEF Told
  <2>4. Reached(client[c].n, q) = x.cursor
    BY <2>2 DEF Reached, Prev
  <2> QED
    BY <2>2, <2>3, <2>4 DEF q
<1>5. CASE ~ResyncRequired(c)
  <2> DEFINE r == Replayed(c)
             events == [i \in DOMAIN r |-> [kind |-> "event", n |-> r[i].cursor]]
             M == Len(r)
  <2>1. /\ r \in Seq(Entry) /\ M = x.cursor - n /\ M \in Nat /\ DOMAIN r = 1..M
        /\ \A i \in 1..M : r[i].cursor = n + i
    BY <1>5, ReplayedIs
  <2>2. q = <<ready>> \o events \o <<now_("cursor")>>
    BY <1>5, Zenon DEF Greeting
  <2> HIDE DEF r, M, q
  <2>3. events \in Seq(Frame) /\ Len(events) = M /\ \A i \in 1..M : events[i] = [kind |-> "event", n |-> n + i]
    <3>1. \A i \in 1..M : events[i] = [kind |-> "event", n |-> n + i] /\ events[i] \in Frame
      BY <1>2, <2>1 DEF Frame
    <3>2. events = [i \in 1..M |-> events[i]]
      BY <2>1
    <3> HIDE DEF events
    <3>3. events \in [1..M -> Frame]
      BY <3>1, <3>2
    <3>4. events \in Seq(Frame) /\ Len(events) = M
      BY <2>1, <3>3
    <3> QED
      BY <3>1, <3>4
  <2> HIDE DEF events
  <2>4. /\ q \in Seq(Frame) /\ Len(q) = M + 2 /\ DOMAIN q = 1..(M + 2)
        /\ q[1] = ready /\ q[M + 2] = now_("cursor")
        /\ \A i \in 1..M : q[i + 1] = events[i]
    <3> DEFINE front == <<ready>> \o events
               end == now_("cursor")
    <3>1. /\ front \in Seq(Frame) /\ Len(front) = M + 1 /\ front[1] = ready
          /\ \A i \in 1..M : front[i + 1] = events[i]
      <4>1. <<ready>> \in Seq(Frame) /\ Len(<<ready>>) = 1 /\ <<ready>>[1] = ready
        BY <1>3
      <4> HIDE DEF ready
      <4> QED
        BY <2>1, <2>3, <4>1
    <3>2. <<end>> \in Seq(Frame) /\ Len(<<end>>) = 1 /\ <<end>>[1] = end
      BY <1>3
    <3>3. q = front \o <<end>>
      BY <2>2
    <3> HIDE DEF front, end, ready
    <3>4. \A i \in 1..M : i + 1 \in 1..(M + 1)
      BY <2>1
    <3>5. 1 \in 1..(M + 1)
      BY <2>1
    <3>6. /\ q \in Seq(Frame) /\ Len(q) = (M + 1) + 1
          /\ \A i \in 1..(M + 1) : q[i] = front[i]
          /\ q[(M + 1) + 1] = end
      <4>1. q \in Seq(Frame) /\ Len(q) = Len(front) + Len(<<end>>)
        BY <3>1, <3>2, <3>3
      <4>2. \A i \in 1..Len(q) : q[i] = IF i <= Len(front) THEN front[i] ELSE <<end>>[i - Len(front)]
        <5> HIDE DEF M
        <5> QED
          BY <3>1, <3>2, <3>3, <4>1, ConcatProperties
      <4>3. Len(q) = (M + 1) + 1 /\ ((M + 1) + 1) - (M + 1) = 1
        BY <2>1, <3>1, <3>2, <4>1
      <4>4. \A i \in 1..(M + 1) : i \in 1..Len(q) /\ i <= M + 1
        BY <2>1, <4>3
      <4>5. (M + 1) + 1 \in 1..Len(q) /\ ~((M + 1) + 1 <= M + 1)
        <5>1. \A N \in Nat : (N + 1) + 1 \in 1..((N + 1) + 1) /\ ~((N + 1) + 1 <= N + 1)
          OBVIOUS
        <5>2. M \in Nat
          BY <2>1
        <5> QED
          BY <4>3, <5>1, <5>2, Zenon
      <4>6. \A i \in 1..(M + 1) : q[i] = front[i]
        BY <3>1, <4>2, <4>4
      <4>7. q[(M + 1) + 1] = end
        <5>1. q[(M + 1) + 1] = <<end>>[((M + 1) + 1) - (M + 1)]
          BY <3>1, <4>2, <4>5
        <5> QED
          BY <3>2, <4>3, <5>1
      <4> QED
        BY <4>1, <4>3, <4>6, <4>7
    <3>7. (M + 1) + 1 = M + 2
      BY <2>1
    <3>8. q[1] = ready /\ \A i \in 1..M : q[i + 1] = events[i]
      BY <3>1, <3>4, <3>5, <3>6
    <3>9. q[M + 2] = now_("cursor") /\ Len(q) = M + 2
      BY <3>6, <3>7 DEF end
    <3> QED
      BY <3>6, <3>8, <3>9
  <2>5. \A i \in 1..(M + 2) : i = 1 \/ i = M + 2 \/ (i - 1 \in 1..M /\ (i - 1) + 1 = i)
    BY <2>1
  <2>6. \A i \in 1..M : q[i + 1].kind = "event" /\ q[i + 1].n = n + i
    BY <2>3, <2>4
  <2>7. q[M + 1].n = x.cursor
    <3>1. CASE M = 0
      <4>1. n = x.cursor /\ M + 1 = 1
        BY <2>1, <3>1, <1>1, <1>2
      <4> QED
        BY <2>4, <4>1
    <3>2. CASE M # 0
      <4>1. M \in 1..M
        BY <2>1, <3>2
      <4> QED
        BY <2>1, <2>6, <4>1, <1>1, <1>2, SMTT(40)
    <3> QED
      BY <3>1, <3>2
  <2>8. ASSUME NEW i \in 1..M PROVE q[i + 1].n = q[i].n + 1
    <3>1. CASE i = 1
      BY <1>2, <2>4, <2>6, <3>1
    <3>2. CASE i # 1
      <4>1. i - 1 \in 1..M /\ (i - 1) + 1 = i
        BY <2>1, <3>2
      <4>2. q[i].n = n + (i - 1)
        BY <2>6, <4>1
      <4> QED
        BY <1>2, <2>1, <2>6, <4>2
    <3> QED
      BY <3>1, <3>2
  <2>9. Told(client[c].n, q)
    <3> SUFFICES ASSUME NEW i \in 1..(M + 2)
                 PROVE  /\ q[i].kind = "event" => q[i].n = Prev(client[c].n, q, i) + 1
                        /\ q[i].kind = "cursor" => q[i].n = Prev(client[c].n, q, i)
      BY <2>4 DEF Told
    <3>1. CASE i = 1
      BY <2>4, <3>1
    <3>2. CASE i = M + 2
      <4>1. Prev(client[c].n, q, i) = q[M + 1].n
        <5>1. i # 1 /\ i - 1 = M + 1
          BY <2>1, <3>2
        <5> QED
          BY <5>1 DEF Prev
      <4>2. q[i].kind = "cursor" /\ q[i].n = x.cursor
        BY <2>4, <3>2
      <4> QED
        BY <2>7, <4>1, <4>2
    <3>3. CASE i - 1 \in 1..M /\ (i - 1) + 1 = i
      <4>1. i # 1
        BY <3>3
      <4>2. Prev(client[c].n, q, i) = q[i - 1].n
        BY <4>1 DEF Prev
      <4>3. q[i].kind = "event" /\ q[i].n = q[i - 1].n + 1
        BY <2>6, <2>8, <3>3
      <4> QED
        BY <4>2, <4>3
    <3> QED
      BY <2>5, <3>1, <3>2, <3>3
  <2>10. Reached(client[c].n, q) = x.cursor
    <3>1. (M + 2) + 1 # 1 /\ ((M + 2) + 1) - 1 = M + 2
      BY <2>1
    <3> QED
      BY <2>4, <3>1 DEF Reached, Prev
  <2> QED
    BY <2>4, <2>9, <2>10 DEF q
<1> QED
  BY <1>4, <1>5

-----------------------------------------------------------------------------
(* The invariant *)

Wired(so, cl) ==
    /\ DOMAIN so \subseteq Slots
    /\ so \in [DOMAIN so -> Socket]
    /\ cl \in [Clients -> [n : Nat \cup {NoCursor}, run : 1..MaxRuns, at : DOMAIN so \cup {NoSlot}]]

(* Socket x serves client c, which has come to cursor n. *)
Serves(h, x, c, n) ==
    /\ x.client = c
    /\ Told(n, x.queue)
    /\ x.state = "open" => Reached(n, x.queue) = h[ScopeOf[c]].cursor

AllServed(h, so, cl) ==
    \A c \in Clients : cl[c].at # NoSlot => Serves(h, so[cl[c].at], c, cl[c].n)

HubInv ==
    /\ HubWhole(hub)
    /\ JournalsGood(journals)
    /\ Wired(sockets, client)
    /\ AllServed(hub, sockets, client)
    /\ run \in 1..MaxRuns

LEMMA HubInvMeans ==
  ASSUME HubInv
  PROVE  TypeOK /\ JournalIsTail /\ NoSilentGap /\ OpenIsCurrent
<1>1. TypeOK
  <2>1. hub \in [Scopes -> [cursor : Nat, replay : Seq(Entry), dropped : Nat, ids : SUBSET Ids]]
    BY DEF HubInv, HubWhole, Journal
  <2>2. journals \in Seq(Scopes) /\ \A i, j \in DOMAIN journals : journals[i] = journals[j] => i = j
    BY DEF HubInv, JournalsGood, Distinct
  <2> QED
    BY <2>1, <2>2 DEF HubInv, Wired, TypeOK, Subscribers
<1>2. JournalIsTail
  BY DEF HubInv, HubWhole, Whole, JournalIsTail
<1>3. ASSUME NEW c \in Clients, client[c].at # NoSlot
      PROVE  Told(client[c].n, sockets[client[c].at].queue)
             /\ (sockets[client[c].at].state = "open" =>
                   Reached(client[c].n, sockets[client[c].at].queue) = hub[ScopeOf[c]].cursor)
  BY <1>3 DEF HubInv, AllServed, Serves
<1>4. NoSilentGap
  BY <1>3 DEF NoSilentGap, Before, Told, Prev
<1>5. OpenIsCurrent
  BY <1>3 DEF OpenIsCurrent, Before, Reached, Prev
<1> QED
  BY <1>1, <1>2, <1>4, <1>5

LEMMA HubInitHolds ==
  ASSUME Init
  PROVE  HubInv
<1>1. HubWhole(hub)
  <2>1. hub = [a \in Scopes |-> Empty]
    BY DEF Init
  <2>2. Empty \in Journal
    BY EmptyIsWhole DEF Whole
  <2> QED
    BY <2>1, <2>2, EmptyIsWhole DEF HubWhole
<1>2. JournalsGood(journals)
  BY DEF Init, JournalsGood, Distinct
<1>3. DOMAIN sockets = {} /\ sockets = <<>>
  BY DEF Init
<1>4. \A c \in Clients : client[c].at = NoSlot
  BY DEF Init
<1>5. run \in 1..MaxRuns
  BY ConstantsAssumption DEF Init
<1>6. Wired(sockets, client)
  <2>1. sockets \in [DOMAIN sockets -> Socket]
    BY <1>3
  <2>2. client \in [Clients -> [n : Nat \cup {NoCursor}, run : 1..MaxRuns, at : DOMAIN sockets \cup {NoSlot}]]
    BY <1>5 DEF Init
  <2> QED
    BY <1>3, <2>1, <2>2 DEF Wired
<1>7. AllServed(hub, sockets, client)
  BY <1>4 DEF AllServed
<1> QED
  BY <1>1, <1>2, <1>5, <1>6, <1>7 DEF HubInv

(* A client that is served has a socket of the hub, and no other client    *)
(* has the same.                                                           *)
LEMMA OwnSocket ==
  ASSUME HubInv
  PROVE  /\ \A c \in Clients : client[c].at # NoSlot =>
                /\ client[c].at \in Subscribers
                /\ client[c].at \in Slots
                /\ sockets[client[c].at] \in Socket
                /\ sockets[client[c].at].client = c
         /\ \A c, d \in Clients : client[c].at # NoSlot /\ client[c].at = client[d].at => c = d
         /\ \A c \in Clients : client[c].n \in Nat \cup {NoCursor}
         /\ NoSlot \notin Slots
<1>1. \A c \in Clients : client[c].at \in Subscribers \cup {NoSlot} /\ client[c].n \in Nat \cup {NoCursor}
  BY DEF HubInv, Wired, Subscribers
<1>2. \A c \in Clients : client[c].at # NoSlot => sockets[client[c].at].client = c
  BY DEF HubInv, AllServed, Serves
<1>3. \A s \in Subscribers : s \in Slots /\ sockets[s] \in Socket
  BY DEF HubInv, Wired, Subscribers
<1>4. NoSlot \notin Slots
  BY ConstantsAssumption
<1> QED
  BY <1>1, <1>2, <1>3, <1>4

(* Served stays served when the hub keeps its cursors and the socket and   *)
(* the client stay as they are, or the socket stops being open.            *)
LEMMA StillServed ==
  ASSUME NEW h, NEW g, NEW c \in Clients, NEW n, NEW x, NEW y, Serves(h, x, c, n),
         y.client = x.client, y.queue = x.queue, y.state = "open" => x.state = "open",
         g[ScopeOf[c]].cursor = h[ScopeOf[c]].cursor
  PROVE  Serves(g, y, c, n)
  BY DEF Serves

LEMMA HubStutters ==
  ASSUME HubInv, UNCHANGED vars
  PROVE  HubInv'
<1>1. hub' = hub /\ journals' = journals /\ sockets' = sockets /\ client' = client /\ run' = run
  BY DEF vars
<1> QED
  BY <1>1 DEF HubInv

LEMMA AttachKeeps ==
  ASSUME HubInv, NEW c \in Clients, NEW s \in Slots, Attach(c, s)
  PROVE  HubInv'
<1> DEFINE a == ScopeOf[c]
           q == Greeting(c)
<1>1. client[c].at = NoSlot /\ s \notin Subscribers /\ client' = [client EXCEPT ![c].at = s] /\ run' = run
  BY DEF Attach
<1>2. PICK k \in 0..Len(q) :
          sockets' = [t \in Subscribers \cup {s} |->
                             IF t # s THEN sockets[t]
                             ELSE [client |-> c, alive |-> TRUE,
                                   state |-> IF k = Len(q) THEN "open" ELSE "closing",
                                   queue |-> SubSeq(q, 1, k)]]
  BY DEF Attach
<1>3. Prune(hub, Touched(a), {a}, Busy(Subscribers) \cup {a})
  BY DEF Attach
<1>4. a \in Scopes
  BY ConstantsAssumption
<1>5. HubWhole(hub) /\ JournalsGood(Touched(a))
  BY <1>4, TouchedIsGood DEF HubInv
<1>6. HubWhole(hub') /\ JournalsGood(journals') /\ \A b \in Scopes : hub'[b].cursor = hub[b].cursor
  BY <1>3, <1>5, PruneKeeps
<1>7. /\ q \in Seq(Frame)
      /\ Told(client[c].n, q)
      /\ Reached(client[c].n, q) = hub[a].cursor
  BY <1>5, OwnSocket, GreetingTells
<1> HIDE DEF q
<1> DEFINE r == SubSeq(q, 1, k)
           new == [client |-> c, alive |-> TRUE,
                   state |-> IF k = Len(q) THEN "open" ELSE "closing", queue |-> r]
<1>8. r \in Seq(Frame) /\ Told(client[c].n, r)
  BY <1>2, <1>7, ToldPrefix
<1>9. k = Len(q) => r = q
  BY <1>7
<1> HIDE DEF r
<1>10. new \in Socket /\ new.client = c /\ new.queue = r /\ (new.state = "open" => k = Len(q))
  BY <1>8 DEF Socket
<1>11. /\ sockets' = [t \in Subscribers \cup {s} |-> IF t # s THEN sockets[t] ELSE new]
       /\ DOMAIN sockets' = Subscribers \cup {s}
       /\ sockets'[s] = new
       /\ \A t \in Subscribers : sockets'[t] = sockets[t]
  BY <1>1, <1>2 DEF r
<1> HIDE DEF new
<1>12. Wired(sockets, client) /\ \A t \in Subscribers : t \in Slots /\ sockets[t] \in Socket
  BY DEF HubInv, Wired, Subscribers
<1>13. Wired(sockets', client')
  <2>1. DOMAIN sockets' \subseteq Slots
    BY <1>11, <1>12
  <2>2. \A t \in DOMAIN sockets' : sockets'[t] \in Socket
    BY <1>10, <1>11, <1>12
  <2>3. sockets' \in [DOMAIN sockets' -> Socket]
    BY <1>11, <2>2
  <2>4. client \in [Clients -> [n : Nat \cup {NoCursor}, run : 1..MaxRuns, at : DOMAIN sockets' \cup {NoSlot}]]
    BY <1>11, <1>12 DEF Wired, Subscribers
  <2>5. client' \in [Clients -> [n : Nat \cup {NoCursor}, run : 1..MaxRuns, at : DOMAIN sockets' \cup {NoSlot}]]
    BY <1>1, <1>11, <2>4
  <2> QED
    BY <2>1, <2>3, <2>5 DEF Wired
<1>14. ASSUME NEW d \in Clients, client'[d].at # NoSlot PROVE Serves(hub', sockets'[client'[d].at], d, client'[d].n)
  <2>1. client \in [Clients -> [n : Nat \cup {NoCursor}, run : 1..MaxRuns, at : DOMAIN sockets \cup {NoSlot}]]
    BY <1>12 DEF Wired
  <2>2. CASE d = c
    <3>1. client'[d].at = s /\ client'[d].n = client[c].n
      BY <1>1, <2>1, <2>2
    <3>2. Serves(hub', new, c, client[c].n)
      BY <1>4, <1>6, <1>7, <1>8, <1>9, <1>10 DEF Serves
    <3> QED
      BY <1>11, <2>2, <3>1, <3>2
  <2>3. CASE d # c
    <3>1. client'[d] = client[d]
      BY <1>1, <2>1, <2>3
    <3>2. client[d].at \in Subscribers
      BY <1>14, <3>1, OwnSocket
    <3>3. Serves(hub, sockets[client[d].at], d, client[d].n)
      BY <1>14, <3>1 DEF HubInv, AllServed
    <3>4. hub'[ScopeOf[d]].cursor = hub[ScopeOf[d]].cursor
      BY <1>6, ConstantsAssumption
    <3> QED
      BY <1>11, <3>1, <3>2, <3>3, <3>4, StillServed
  <2> QED
    BY <2>2, <2>3
<1>15. AllServed(hub', sockets', client')
  BY <1>14 DEF AllServed
<1> QED
  BY <1>1, <1>6, <1>13, <1>15 DEF HubInv

LEMMA SentIs ==
  ASSUME HubInv, NEW s \in Subscribers, NEW f \in Frame, NEW failing
  PROVE  /\ Sent(s, f, s \in failing) \in Socket
         /\ Sent(s, f, s \in failing).client = sockets[s].client
         /\ Sent(s, f, s \in failing).state = "open" => sockets[s].state = "open" /\ s \notin failing
         /\ Sent(s, f, s \in failing).queue = IF sockets[s].state = "open" /\ s \notin failing /\ Heard(s)
                                       THEN Append(sockets[s].queue, f) ELSE sockets[s].queue
<1> DEFINE x == sockets[s]
<1>1. x \in Socket /\ x.queue \in Seq(Frame)
  BY DEF HubInv, Wired, Subscribers, Socket
<1> HIDE DEF x
<1>2. [x EXCEPT !.state = "closing"]
         = [client |-> x.client, alive |-> x.alive, state |-> "closing", queue |-> x.queue]
  BY <1>1 DEF Socket
<1>3. [x EXCEPT !.queue = Append(@, f)]
         = [client |-> x.client, alive |-> x.alive, state |-> x.state, queue |-> Append(x.queue, f)]
  <2> DEFINE z == Append(x.queue, f)
  <2> HIDE DEF z
  <2>1. [x EXCEPT !.queue = z] = [client |-> x.client, alive |-> x.alive, state |-> x.state, queue |-> z]
    BY <1>1 DEF Socket
  <2> QED
    BY <2>1 DEF z
<1>4. /\ [client |-> x.client, alive |-> x.alive, state |-> "closing", queue |-> x.queue] \in Socket
      /\ [client |-> x.client, alive |-> x.alive, state |-> x.state, queue |-> Append(x.queue, f)] \in Socket
  BY <1>1 DEF Socket
<1>5. Sent(s, f, s \in failing) = IF x.state # "open" THEN x
                           ELSE IF s \in failing THEN [x EXCEPT !.state = "closing"]
                           ELSE IF ~Heard(s) THEN x
                           ELSE [x EXCEPT !.queue = Append(@, f)]
  BY Zenon DEF Sent, x
<1> HIDE DEF Sent
<1>6. CASE x.state # "open"
  BY <1>1, <1>5, <1>6 DEF x
<1>7. CASE x.state = "open" /\ s \in failing
  <2>1. Sent(s, f, s \in failing) = [client |-> x.client, alive |-> x.alive, state |-> "closing", queue |-> x.queue]
    BY <1>2, <1>5, <1>7, Zenon
  <2>2. /\ Sent(s, f, s \in failing).client = x.client
        /\ Sent(s, f, s \in failing).state = "closing"
        /\ Sent(s, f, s \in failing).queue = x.queue
    BY <2>1
  <2>3. Sent(s, f, s \in failing) \in Socket
    BY <1>4, <2>1
  <2> QED
    BY <1>7, <2>2, <2>3 DEF x
<1>8. CASE x.state = "open" /\ s \notin failing /\ ~Heard(s)
  BY <1>1, <1>5, <1>8 DEF x
<1>9. CASE x.state = "open" /\ s \notin failing /\ Heard(s)
  <2>1. Sent(s, f, s \in failing) = [client |-> x.client, alive |-> x.alive, state |-> x.state, queue |-> Append(x.queue, f)]
    BY <1>3, <1>5, <1>9, Zenon
  <2> QED
    BY <1>4, <1>9, <2>1 DEF x
<1> QED
  BY <1>6, <1>7, <1>8, <1>9

LEMMA PublishKeeps ==
  ASSUME HubInv, NEW a \in Scopes, NEW e \in Events[a], NEW failing \in SUBSET Following(a),
         Publish(a, e, failing)
  PROVE  HubInv'
<1>1. HubWhole(hub) /\ JournalsGood(Touched(a)) /\ Whole(hub[a])
  BY TouchedIsGood DEF HubInv, HubWhole
<1>2. CASE e.id \in hub[a].ids
  <2>1. Prune(hub, Touched(a), {a}, Busy(Subscribers)) /\ sockets' = sockets /\ client' = client /\ run' = run
    BY <1>2 DEF Publish
  <2>2. HubWhole(hub') /\ JournalsGood(journals') /\ \A b \in Scopes : hub'[b].cursor = hub[b].cursor
    BY <1>1, <2>1, PruneKeeps
  <2>3. ASSUME NEW d \in Clients, client[d].at # NoSlot PROVE Serves(hub', sockets[client[d].at], d, client[d].n)
    <3>1. Serves(hub, sockets[client[d].at], d, client[d].n)
      BY <2>3 DEF HubInv, AllServed
    <3>2. hub'[ScopeOf[d]].cursor = hub[ScopeOf[d]].cursor
      BY <2>2, ConstantsAssumption
    <3> QED
      BY <3>1, <3>2, StillServed
  <2>4. AllServed(hub', sockets', client')
    BY <2>1, <2>3 DEF AllServed
  <2>5. Wired(sockets', client') /\ run' \in 1..MaxRuns
    BY <2>1 DEF HubInv
  <2> QED
    BY <2>2, <2>4, <2>5 DEF HubInv
<1>3. CASE e.id \notin hub[a].ids
  <2> DEFINE f == [kind |-> "event", n |-> hub[a].cursor + 1]
             h == [hub EXCEPT ![a] = Trimmed(Appended(@, e))]
  <2>1. /\ Prune(h, Touched(a), {a}, Busy(Subscribers))
        /\ sockets' = [s \in Subscribers |->
                               IF s \in Following(a) THEN Sent(s, f, s \in failing)
                               ELSE sockets[s]]
        /\ client' = client /\ run' = run
    BY <1>3 DEF Publish
  <2>2. e \in [id : Ids \cup {Fresh}, size : Nat]
    BY ConstantsAssumption
  <2>3. Whole(Appended(hub[a], e)) /\ Appended(hub[a], e).cursor = hub[a].cursor + 1
    BY <1>1, <1>3, <2>2, AppendedIsWhole
  <2>4. Whole(Trimmed(Appended(hub[a], e))) /\ Trimmed(Appended(hub[a], e)).cursor = hub[a].cursor + 1
    BY <2>3, TrimmedIsWhole
  <2>5. /\ \A b \in Scopes : Whole(h[b])
        /\ \A b \in Scopes : h[b].cursor = IF b = a THEN hub[a].cursor + 1 ELSE hub[b].cursor
        /\ h \in [Scopes -> Journal]
    <3>1. Trimmed(Appended(hub[a], e)) \in Journal
      BY <2>4 DEF Whole
    <3>2. hub \in [Scopes -> Journal] /\ \A b \in Scopes : Whole(hub[b])
      BY <1>1 DEF HubWhole
    <3>3. \A b \in Scopes : h[b] = IF b = a THEN Trimmed(Appended(hub[a], e)) ELSE hub[b]
      BY <3>2
    <3>4. h \in [Scopes -> Journal]
      BY <3>1, <3>2
    <3> HIDE DEF h
    <3> QED
      BY <2>4, <3>2, <3>3, <3>4
  <2>6. HubWhole(h)
    <3> HIDE DEF h
    <3> QED
      BY <2>5 DEF HubWhole
  <2> HIDE DEF h
  <2>7. /\ HubWhole(hub') /\ JournalsGood(journals')
        /\ \A b \in Scopes : hub'[b].cursor = IF b = a THEN hub[a].cursor + 1 ELSE hub[b].cursor
    <3>1. HubWhole(hub') /\ JournalsGood(journals') /\ \A b \in Scopes : hub'[b].cursor = h[b].cursor
      BY <1>1, <2>1, <2>6, PruneKeeps
    <3> QED
      BY <2>5, <3>1
  <2>8. hub[a].cursor \in Nat
    BY <1>1 DEF Whole, Journal
  <2>9. f \in Frame
    BY <2>8 DEF Frame
  <2>10. \A s \in Subscribers : sockets[s] \in Socket /\ s \in Slots
    BY DEF HubInv, Wired, Subscribers
  <2>11. DOMAIN sockets' = Subscribers /\ \A s \in Subscribers : sockets'[s] \in Socket
    <3> HIDE DEF f
    <3> QED
      BY <2>1, <2>9, <2>10, SentIs
  <2>12. Wired(sockets', client')
    <3>1. client \in [Clients -> [n : Nat \cup {NoCursor}, run : 1..MaxRuns, at : Subscribers \cup {NoSlot}]]
      BY DEF HubInv, Wired, Subscribers
    <3>2. sockets' \in [Subscribers -> Socket]
      BY <2>1, <2>11
    <3> QED
      BY <2>1, <2>10, <2>11, <3>1, <3>2 DEF Wired
  <2>13. ASSUME NEW d \in Clients, client[d].at # NoSlot PROVE Serves(hub', sockets'[client[d].at], d, client[d].n)
    <3> DEFINE s == client[d].at
               q == sockets[s].queue
    <3>1. s \in Subscribers /\ sockets[s] \in Socket /\ sockets[s].client = d /\ q \in Seq(Frame)
      BY <2>13, OwnSocket DEF Socket
    <3>2. Heard(s)
      BY DEF Heard
    <3>3. Serves(hub, sockets[s], d, client[d].n)
      BY <2>13 DEF HubInv, AllServed
    <3>4. s \in Following(a) <=> ScopeOf[d] = a
      BY <3>1 DEF Following
    <3>5. ScopeOf[d] \in Scopes
      BY ConstantsAssumption
    <3> HIDE DEF s
    <3>6. CASE ScopeOf[d] # a
      <4>1. sockets'[s] = sockets[s] /\ hub'[ScopeOf[d]].cursor = hub[ScopeOf[d]].cursor
        BY <2>1, <2>7, <3>1, <3>4, <3>5, <3>6
      <4> QED
        BY <3>3, <4>1, StillServed DEF s
    <3>7. CASE ScopeOf[d] = a
      <4> DEFINE y == Sent(s, f, s \in failing)
      <4>1. sockets'[s] = y
        BY <2>1, <3>1, <3>4, <3>7
      <4>2. /\ y.client = d
            /\ y.state = "open" => sockets[s].state = "open" /\ s \notin failing
            /\ y.queue = IF sockets[s].state = "open" /\ s \notin failing THEN Append(q, f) ELSE q
        <5> HIDE DEF f
        <5> QED
          BY <2>9, <3>1, <3>2, SentIs
      <4> HIDE DEF y
      <4>3. CASE sockets[s].state = "open" /\ s \notin failing
        <5>1. Told(client[d].n, q) /\ Reached(client[d].n, q) = hub[a].cursor
          BY <3>3, <3>7, <4>3 DEF Serves
        <5>2. Told(client[d].n, Append(q, f)) /\ Reached(client[d].n, Append(q, f)) = hub[a].cursor + 1
          <6> HIDE DEF q
          <6> QED
            BY <2>8, <3>1, <5>1, ToldMore
        <5>3. hub'[ScopeOf[d]].cursor = hub[a].cursor + 1 /\ y.queue = Append(q, f)
          BY <2>7, <3>5, <3>7, <4>2, <4>3
        <5>4. Serves(hub', y, d, client[d].n)
          <6> HIDE DEF f, q
          <6> QED
            BY <4>2, <5>2, <5>3 DEF Serves
        <5> QED
          BY <4>1, <5>4 DEF s
      <4>4. CASE ~(sockets[s].state = "open" /\ s \notin failing)
        <5>1. y.state # "open" /\ y.queue = q
          BY <4>2, <4>4
        <5>2. Serves(hub', y, d, client[d].n)
          BY <3>3, <4>2, <5>1 DEF Serves
        <5> QED
          BY <4>1, <5>2 DEF s
      <4> QED
        BY <4>3, <4>4
    <3> QED
      BY <3>6, <3>7
  <2>14. AllServed(hub', sockets', client')
    BY <2>1, <2>13 DEF AllServed
  <2>15. run' \in 1..MaxRuns
    BY <2>1 DEF HubInv
  <2> QED
    BY <2>7, <2>12, <2>14, <2>15 DEF HubInv
<1> QED
  BY <1>2, <1>3

(* A step that leaves the journals and the clients and changes of the      *)
(* sockets only whether they answer or are open, and opens none.           *)
LEMMA SameFramesKeep ==
  ASSUME HubInv, UNCHANGED <<hub, journals, client, run>>,
         DOMAIN sockets' = Subscribers,
         sockets' \in [Subscribers -> Socket],
         \A s \in Subscribers : /\ sockets'[s].client = sockets[s].client
                                /\ sockets'[s].queue = sockets[s].queue
                                /\ sockets'[s].state = "open" => sockets[s].state = "open"
  PROVE  HubInv'
<1>1. Wired(sockets', client')
  BY DEF HubInv, Wired, Subscribers
<1>2. ASSUME NEW d \in Clients, client[d].at # NoSlot PROVE Serves(hub', sockets'[client[d].at], d, client[d].n)
  <2>1. client[d].at \in Subscribers
    BY <1>2, OwnSocket
  <2>2. Serves(hub, sockets[client[d].at], d, client[d].n)
    BY <1>2 DEF HubInv, AllServed
  <2> QED
    BY <2>1, <2>2, StillServed, SMTT(40)
<1>3. AllServed(hub', sockets', client')
  BY <1>2 DEF AllServed
<1> QED
  BY <1>1, <1>3 DEF HubInv

LEMMA MarkedAlive ==
  ASSUME HubInv, NEW s \in Subscribers, NEW alive \in BOOLEAN,
         sockets' = [sockets EXCEPT ![s].alive = alive]
  PROVE  /\ DOMAIN sockets' = Subscribers
         /\ sockets' \in [Subscribers -> Socket]
         /\ \A t \in Subscribers : /\ sockets'[t].client = sockets[t].client
                                   /\ sockets'[t].queue = sockets[t].queue
                                   /\ sockets'[t].state = "open" => sockets[t].state = "open"
<1>1. sockets \in [Subscribers -> Socket]
  BY DEF HubInv, Wired, Subscribers
<1> QED
  BY <1>1 DEF Socket

LEMMA MarkedEnding ==
  ASSUME HubInv, NEW s \in Subscribers, NEW state \in {"closing", "terminated"},
         sockets' = [sockets EXCEPT ![s].state = state]
  PROVE  /\ DOMAIN sockets' = Subscribers
         /\ sockets' \in [Subscribers -> Socket]
         /\ \A t \in Subscribers : /\ sockets'[t].client = sockets[t].client
                                   /\ sockets'[t].queue = sockets[t].queue
                                   /\ sockets'[t].state = "open" => sockets[t].state = "open"
<1>1. sockets \in [Subscribers -> Socket]
  BY DEF HubInv, Wired, Subscribers
<1> QED
  BY <1>1 DEF Socket

LEMMA HeartbeatKeeps ==
  ASSUME HubInv, NEW s, Heartbeat(s)
  PROVE  HubInv'
<1>1. s \in Subscribers /\ UNCHANGED <<hub, journals, client, run>>
  BY DEF Heartbeat
<1>2. CASE sockets[s].alive /\ sockets[s].state = "open"
  <2>1. sockets' = [sockets EXCEPT ![s].alive = FALSE]
    BY <1>2 DEF Heartbeat
  <2> QED
    BY <1>1, <2>1, MarkedAlive, SameFramesKeep
<1>3. CASE ~(sockets[s].alive /\ sockets[s].state = "open")
  <2>1. sockets' = [sockets EXCEPT ![s].state = "terminated"]
    BY <1>3 DEF Heartbeat
  <2> QED
    BY <1>1, <2>1, MarkedEnding, SameFramesKeep
<1> QED
  BY <1>2, <1>3

LEMMA ExpireKeeps ==
  ASSUME HubInv, NEW s, Expire(s)
  PROVE  HubInv'
<1>1. s \in Subscribers /\ sockets' = [sockets EXCEPT ![s].state = "closing"] /\ UNCHANGED <<hub, journals, client, run>>
  BY DEF Expire
<1> QED
  BY <1>1, MarkedEnding, SameFramesKeep

LEMMA PongKeeps ==
  ASSUME HubInv, NEW c \in Clients, Pong(c)
  PROVE  HubInv'
<1> DEFINE s == client[c].at
<1>1. s # NoSlot /\ sockets' = [sockets EXCEPT ![s].alive = TRUE] /\ UNCHANGED <<hub, journals, client, run>>
  BY DEF Pong
<1>2. s \in Subscribers
  BY <1>1, OwnSocket
<1> HIDE DEF s
<1> QED
  BY <1>1, <1>2, MarkedAlive, SameFramesKeep

LEMMA DetachKeeps ==
  ASSUME HubInv, NEW s, Detach(s)
  PROVE  HubInv'
<1> DEFINE rest == Subscribers \ {s}
<1>1. /\ sockets' = [t \in rest |-> sockets[t]] /\ DOMAIN sockets' = rest
      /\ Prune(hub, journals, {}, Busy(rest))
      /\ client' = [c \in Clients |->
                         IF client[c].at = s THEN [client[c] EXCEPT !.at = NoSlot] ELSE client[c]]
      /\ run' = run
  BY DEF Detach, PruneIdle
<1>2. HubWhole(hub') /\ JournalsGood(journals') /\ \A b \in Scopes : hub'[b].cursor = hub[b].cursor
  BY <1>1, PruneKeeps DEF HubInv
<1>3. /\ client \in [Clients -> [n : Nat \cup {NoCursor}, run : 1..MaxRuns, at : Subscribers \cup {NoSlot}]]
      /\ \A t \in Subscribers : t \in Slots /\ sockets[t] \in Socket
  BY DEF HubInv, Wired, Subscribers
<1>4. Wired(sockets', client')
  <2>1. rest \subseteq Slots /\ sockets' \in [rest -> Socket]
    BY <1>1, <1>3
  <2>2. ASSUME NEW c \in Clients PROVE client'[c] \in [n : Nat \cup {NoCursor}, run : 1..MaxRuns, at : rest \cup {NoSlot}]
    <3>1. client[c] \in [n : Nat \cup {NoCursor}, run : 1..MaxRuns, at : Subscribers \cup {NoSlot}]
      BY <1>3
    <3>2. CASE client[c].at = s
      <4>1. client'[c] = [client[c] EXCEPT !.at = NoSlot]
        BY <1>1, <3>2
      <4> QED
        BY <3>1, <4>1
    <3>3. CASE client[c].at # s
      <4>1. client'[c] = client[c]
        BY <1>1, <3>3
      <4>2. client[c].at \in rest \cup {NoSlot}
        BY <3>1, <3>3
      <4> QED
        BY <3>1, <4>1, <4>2
    <3> QED
      BY <3>2, <3>3
  <2>3. client' \in [Clients -> [n : Nat \cup {NoCursor}, run : 1..MaxRuns, at : rest \cup {NoSlot}]]
    BY <1>1, <2>2
  <2> QED
    BY <1>1, <2>1, <2>3 DEF Wired
<1>5. ASSUME NEW d \in Clients, client'[d].at # NoSlot PROVE Serves(hub', sockets'[client'[d].at], d, client'[d].n)
  <2>1. client[d].at # s
    <3> SUFFICES ASSUME client[d].at = s PROVE FALSE
      OBVIOUS
    <3>1. client'[d] = [client[d] EXCEPT !.at = NoSlot] /\ client[d] \in [n : Nat \cup {NoCursor}, run : 1..MaxRuns, at : Subscribers \cup {NoSlot}]
      BY <1>1, <1>3
    <3> QED
      BY <1>5, <3>1
  <2>2. client'[d] = client[d]
    BY <1>1, <2>1
  <2>3. client[d].at \in rest
    BY <1>5, <2>1, <2>2, OwnSocket
  <2>4. sockets'[client[d].at] = sockets[client[d].at]
    BY <1>1, <2>3
  <2>5. Serves(hub, sockets[client[d].at], d, client[d].n)
    BY <1>5, <2>2 DEF HubInv, AllServed
  <2>6. hub'[ScopeOf[d]].cursor = hub[ScopeOf[d]].cursor
    BY <1>2, ConstantsAssumption
  <2> QED
    BY <2>2, <2>4, <2>5, <2>6, StillServed
<1>6. AllServed(hub', sockets', client')
  BY <1>5 DEF AllServed
<1>7. run' \in 1..MaxRuns
  BY <1>1 DEF HubInv
<1> QED
  BY <1>2, <1>4, <1>6, <1>7 DEF HubInv

LEMMA ReadKeeps ==
  ASSUME HubInv, NEW c \in Clients, Read(c)
  PROVE  HubInv'
<1> DEFINE s == client[c].at
           q == sockets[s].queue
           newRun == IF Head(q).kind = "ready" /\ client[c].n # NoCursor THEN client[c].run ELSE run
           me == [client[c] EXCEPT !.n = Head(q).n, !.run = newRun]
<1>1. s # NoSlot /\ q # <<>> /\ hub' = hub /\ journals' = journals /\ run' = run
  BY DEF Read
<1>2. /\ client' = [client EXCEPT ![c].n = Head(q).n, ![c].run = newRun]
      /\ sockets' = [sockets EXCEPT ![s].queue = Tail(@)]
  BY DEF Read
<1>3. /\ s \in Subscribers /\ sockets[s] \in Socket /\ sockets[s].client = c
      /\ \A d \in Clients : client[d].at = s => d = c
  BY <1>1, OwnSocket
<1>4. /\ client \in [Clients -> [n : Nat \cup {NoCursor}, run : 1..MaxRuns, at : Subscribers \cup {NoSlot}]]
      /\ Subscribers \subseteq Slots
      /\ sockets \in [Subscribers -> Socket]
  BY DEF HubInv, Wired, Subscribers
<1>5. Serves(hub, sockets[s], c, client[c].n)
  BY <1>1 DEF HubInv, AllServed
<1>6. q \in Seq(Frame)
  BY <1>3 DEF Socket
<1>7. /\ Tail(q) \in Seq(Frame) /\ Head(q) \in Frame
      /\ Told(Head(q).n, Tail(q))
      /\ Reached(Head(q).n, Tail(q)) = Reached(client[c].n, q)
  <2>1. Told(client[c].n, q)
    BY <1>5 DEF Serves
  <2> HIDE DEF q
  <2> QED
    BY <1>1, <1>6, <2>1, ToldRest
<1> DEFINE y == [sockets[s] EXCEPT !.queue = Tail(q)]
<1>8. /\ y \in Socket /\ y.client = c /\ y.queue = Tail(q) /\ y.state = sockets[s].state
  <2> DEFINE r == Tail(q)
  <2> HIDE DEF r
  <2>1. r \in Seq(Frame)
    BY <1>7 DEF r
  <2>2. y = [sockets[s] EXCEPT !.queue = r]
    BY DEF r
  <2>3. [sockets[s] EXCEPT !.queue = r] \in Socket /\ [sockets[s] EXCEPT !.queue = r].client = c
        /\ [sockets[s] EXCEPT !.queue = r].queue = r /\ [sockets[s] EXCEPT !.queue = r].state = sockets[s].state
    BY <1>3, <2>1 DEF Socket
  <2> HIDE DEF y
  <2> QED
    BY <2>2, <2>3 DEF r
<1>9. sockets' = [sockets EXCEPT ![s] = y]
  BY <1>2
<1> HIDE DEF y
<1>10. /\ sockets' \in [Subscribers -> Socket] /\ DOMAIN sockets' = Subscribers /\ sockets'[s] = y
       /\ \A t \in Subscribers : t # s => sockets'[t] = sockets[t]
  BY <1>3, <1>4, <1>8, <1>9
<1>11. newRun \in 1..MaxRuns
  <2>1. run \in 1..MaxRuns /\ client[c].run \in 1..MaxRuns
    BY <1>4 DEF HubInv
  <2> QED
    BY <2>1
<1>12. Head(q).n \in Nat
  BY <1>7 DEF Frame
<1> HIDE DEF newRun, q
<1>13. /\ client' \in [Clients -> [n : Nat \cup {NoCursor}, run : 1..MaxRuns, at : Subscribers \cup {NoSlot}]]
       /\ client'[c].n = Head(q).n /\ client'[c].at = s
       /\ \A d \in Clients : d # c => client'[d] = client[d]
  BY <1>2, <1>4, <1>11, <1>12
<1>14. Wired(sockets', client')
  BY <1>4, <1>10, <1>13 DEF Wired
<1>15. ASSUME NEW d \in Clients, client'[d].at # NoSlot PROVE Serves(hub', sockets'[client'[d].at], d, client'[d].n)
  <2>1. CASE d = c
    <3>1. Serves(hub', y, c, Head(q).n)
      BY <1>1, <1>5, <1>7, <1>8 DEF Serves, q
    <3> QED
      BY <1>10, <1>13, <2>1, <3>1
  <2>2. CASE d # c
    <3>1. client'[d] = client[d] /\ client[d].at # s
      BY <1>3, <1>13, <2>2
    <3>2. client[d].at \in Subscribers
      BY <1>15, <3>1, OwnSocket
    <3>3. Serves(hub, sockets[client[d].at], d, client[d].n)
      BY <1>15, <3>1 DEF HubInv, AllServed
    <3> QED
      BY <1>1, <1>10, <3>1, <3>2, <3>3
  <2> QED
    BY <2>1, <2>2
<1>16. AllServed(hub', sockets', client')
  BY <1>15 DEF AllServed
<1> QED
  BY <1>1, <1>14, <1>16 DEF HubInv

LEMMA LeaveKeeps ==
  ASSUME HubInv, NEW c \in Clients, Leave(c)
  PROVE  HubInv'
<1> DEFINE s == client[c].at
           y == [sockets[s] EXCEPT !.queue = <<>>]
<1>1. s # NoSlot /\ hub' = hub /\ journals' = journals /\ run' = run
  BY DEF Leave
<1>2. /\ client' = [client EXCEPT ![c].at = NoSlot]
      /\ sockets' = [sockets EXCEPT ![s] = y]
  BY DEF Leave
<1>3. /\ s \in Subscribers /\ sockets[s] \in Socket
      /\ \A d \in Clients : client[d].at = s => d = c
  BY <1>1, OwnSocket
<1>4. /\ client \in [Clients -> [n : Nat \cup {NoCursor}, run : 1..MaxRuns, at : Subscribers \cup {NoSlot}]]
      /\ Subscribers \subseteq Slots
      /\ sockets \in [Subscribers -> Socket]
  BY DEF HubInv, Wired, Subscribers
<1>5. y \in Socket
  <2>1. <<>> \in Seq(Frame)
    OBVIOUS
  <2> DEFINE none == <<>>
  <2> HIDE DEF none
  <2>2. none \in Seq(Frame)
    BY <2>1 DEF none
  <2>3. [sockets[s] EXCEPT !.queue = none] \in Socket
    BY <1>3, <2>2 DEF Socket
  <2> QED
    BY <2>3 DEF none
<1> HIDE DEF y
<1>6. /\ sockets' \in [Subscribers -> Socket] /\ DOMAIN sockets' = Subscribers
      /\ \A t \in Subscribers : t # s => sockets'[t] = sockets[t]
  BY <1>2, <1>3, <1>4, <1>5
<1>7. /\ client' \in [Clients -> [n : Nat \cup {NoCursor}, run : 1..MaxRuns, at : Subscribers \cup {NoSlot}]]
      /\ client'[c].at = NoSlot
      /\ \A d \in Clients : d # c => client'[d] = client[d]
  BY <1>2, <1>4
<1>8. Wired(sockets', client')
  BY <1>4, <1>6, <1>7 DEF Wired
<1>9. ASSUME NEW d \in Clients, client'[d].at # NoSlot PROVE Serves(hub', sockets'[client'[d].at], d, client'[d].n)
  <2>1. d # c /\ client'[d] = client[d] /\ client[d].at # s
    BY <1>3, <1>7, <1>9
  <2>2. client[d].at \in Subscribers
    BY <1>9, <2>1, OwnSocket
  <2>3. Serves(hub, sockets[client[d].at], d, client[d].n)
    BY <1>9, <2>1 DEF HubInv, AllServed
  <2> QED
    BY <1>1, <1>6, <2>1, <2>2, <2>3
<1>10. AllServed(hub', sockets', client')
  BY <1>9 DEF AllServed
<1> QED
  BY <1>1, <1>8, <1>10 DEF HubInv

LEMMA RestartKeeps ==
  ASSUME HubInv, Restart
  PROVE  HubInv'
<1>1. /\ run < MaxRuns /\ run' = run + 1
      /\ hub' = [a \in Scopes |-> Empty] /\ journals' = <<>> /\ sockets' = <<>>
      /\ client' = [c \in Clients |-> [client[c] EXCEPT !.at = NoSlot]]
  BY DEF Restart
<1>2. HubWhole(hub')
  <2>1. Empty \in Journal
    BY EmptyIsWhole DEF Whole
  <2> QED
    BY <1>1, <2>1, EmptyIsWhole DEF HubWhole
<1>3. JournalsGood(journals')
  BY <1>1 DEF JournalsGood, Distinct
<1>4. DOMAIN sockets' = {} /\ sockets' \in [DOMAIN sockets' -> Socket]
  BY <1>1
<1>5. client \in [Clients -> [n : Nat \cup {NoCursor}, run : 1..MaxRuns, at : Subscribers \cup {NoSlot}]]
  BY DEF HubInv, Wired, Subscribers
<1>6. /\ client' \in [Clients -> [n : Nat \cup {NoCursor}, run : 1..MaxRuns, at : DOMAIN sockets' \cup {NoSlot}]]
      /\ \A c \in Clients : client'[c].at = NoSlot
  BY <1>1, <1>4, <1>5
<1>7. Wired(sockets', client')
  BY <1>4, <1>6 DEF Wired
<1>8. AllServed(hub', sockets', client')
  BY <1>6 DEF AllServed
<1>9. run' \in 1..MaxRuns
  BY <1>1, ConstantsAssumption DEF HubInv
<1> QED
  BY <1>2, <1>3, <1>7, <1>8, <1>9 DEF HubInv

LEMMA HubStep ==
  ASSUME HubInv, Next
  PROVE  HubInv'
<1>1. CASE \E c \in Clients : (\E s \in Slots : Attach(c, s)) \/ Read(c) \/ Pong(c) \/ Leave(c)
  BY <1>1, AttachKeeps, ReadKeeps, PongKeeps, LeaveKeeps
<1>2. CASE \E a \in Scopes : \E e \in Events[a], failing \in SUBSET Following(a) : Publish(a, e, failing)
  BY <1>2, PublishKeeps
<1>3. CASE \E s \in Slots : Heartbeat(s) \/ Expire(s) \/ Detach(s)
  BY <1>3, HeartbeatKeeps, ExpireKeeps, DetachKeeps
<1>4. CASE Restart
  BY <1>4, RestartKeeps
<1> QED
  BY <1>1, <1>2, <1>3, <1>4 DEF Next

LEMMA HubInvAlways == EventsSpec => []HubInv
<1>1. EventsInit => HubInv
  BY HubInitHolds DEF EventsInit
<1>2. HubInv /\ [EventsNext]_eventsVars => HubInv'
  <2> SUFFICES ASSUME HubInv, [EventsNext]_eventsVars PROVE HubInv'
    OBVIOUS
  <2>1. CASE Next
    BY <2>1, HubStep
  <2>2. CASE UNCHANGED vars
    BY <2>2, HubStutters
  <2> QED
    BY <2>1, <2>2 DEF EventsNext, HubMoves, FramesMove, RatesMove, eventsVars
<1> QED
  BY <1>1, <1>2, PTL DEF EventsSpec

(* The journal of a scope is the tail of its events, after any trims,      *)
(* evictions and restarts, for any limits, scopes, clients and events.     *)
THEOREM JournalAlwaysTail == EventsSpec => []JournalIsTail
<1>1. HubInv => JournalIsTail
  BY HubInvMeans
<1> QED
  BY <1>1, HubInvAlways, PTL

(* A client reaches each cursor by its event or is told to resynchronise,  *)
(* and an open socket has been given all there is, whichever sends fail.   *)
THEOREM ClientsAlwaysHear == EventsSpec => []ClientsHearAll
<1>1. HubInv => ClientsHearAll
  BY HubInvMeans DEF ClientsHearAll
<1> QED
  BY <1>1, HubInvAlways, PTL

-----------------------------------------------------------------------------
(* Journals nobody follows.  While there are too many journals, a call of  *)
(* pruneIdleJournals evicts as many idle ones as there are too many, or    *)
(* all of them but the one it protects.                                    *)

Idle(j, busy) == {i \in DOMAIN j : j[i] \notin busy}

Bounded(j, busy) == Len(j) > MaxJournals => Cardinality(Idle(j, busy)) <= 1

LEMMA PruneBounds ==
  ASSUME NEW h, NEW j, JournalsGood(j), NEW protected, \A a, b \in protected : a = b, NEW busy,
         Prune(h, j, protected, busy)
  PROVE  Bounded(journals', busy)
<1> DEFINE I == {i \in DOMAIN j : j[i] \notin protected \cup busy}
           idle == Kept(j, I)
           V == {i \in DOMAIN idle : i + MaxJournals <= Len(j)}
           victims == {idle[i] : i \in V}
           R == {i \in DOMAIN j : j[i] \notin victims}
           N == Len(idle)
           L == Len(j)
<1>1. journals' = Kept(j, R)
  BY DEF Prune, Victims
<1>2. j \in Seq(Scopes) /\ Distinct(j) /\ L \in Nat /\ DOMAIN j = 1..L /\ MaxJournals \in Nat
  BY ConstantsAssumption DEF JournalsGood
<1>3. idle \in Seq(Scopes) /\ N \in Nat /\ DOMAIN idle = 1..N
  <2> HIDE DEF I
  <2> QED
    BY <1>2, KeptPlaces
<1>4. PICK g \in [1..N -> I \cap (1..L)] :
         /\ \A i, m \in 1..N : i < m => g[i] < g[m]
         /\ \A i \in 1..N : idle[i] = j[g[i]]
         /\ \A n \in I \cap (1..L) : \E i \in 1..N : g[i] = n
  <2> HIDE DEF I
  <2>1. \E f : Places(f, Kept(j, I), j, I)
    BY <1>2, KeptIsPlaced
  <2> QED
    BY <2>1 DEF Places
<1> HIDE DEF idle, N, L
<1>5. journals' \in Seq(Scopes) /\ Distinct(journals') /\ DOMAIN journals' = 1..Len(journals') /\ Len(journals') \in Nat
  <2> HIDE DEF R
  <2> QED
    BY <1>1, <1>2, KeptPlaces, KeptIsDistinct
<1>6. /\ IsFiniteSet(R \cap (1..L)) /\ Len(journals') = Cardinality(R \cap (1..L))
      /\ R \cap (1..L) = R
  <2>1. R \cap (1..L) = R
    BY <1>2
  <2> HIDE DEF R
  <2> QED
    BY <1>1, <1>2, <2>1, KeptCount DEF L
<1>7. IsFiniteSet(1..L) /\ Cardinality(1..L) = L
  <2>1. 1 \in Int /\ L \in Int
    BY <1>2
  <2>2. IsFiniteSet(1..L) /\ Cardinality(1..L) = IF 1 > L THEN 0 ELSE L - 1 + 1
    BY <2>1, FS_Interval, Zenon
  <2> QED
    BY <1>2, <2>2
<1>8. CASE N + MaxJournals <= L
  <2>1. \A i \in 1..N : i \in V
    BY <1>2, <1>3, <1>8 DEF L
  <2>2. \A n \in I : j[n] \in victims
    <3>1. \A n \in I : n \in I \cap (1..L)
      BY <1>2
    <3> HIDE DEF I, V
    <3> QED
      BY <1>4, <2>1, <3>1
  <2>3. PICK f \in [1..Len(journals') -> R \cap (1..Len(j))] :
           \A i \in 1..Len(journals') : journals'[i] = j[f[i]]
    <3> HIDE DEF R
    <3>1. \E f : Places(f, Kept(j, R), j, R)
      BY <1>2, KeptIsPlaced
    <3> QED
      BY <1>1, <3>1 DEF Places
  <2>4. \A i \in Idle(journals', busy) : journals'[i] \in protected
    <3> SUFFICES ASSUME NEW i \in 1..Len(journals'), journals'[i] \notin busy PROVE journals'[i] \in protected
      BY <1>5 DEF Idle
    <3>1. f[i] \in R /\ f[i] \in DOMAIN j /\ journals'[i] = j[f[i]]
      BY <2>3
    <3>2. f[i] \notin I
      <4> HIDE DEF I, V
      <4> QED
        BY <2>2, <3>1
    <3> QED
      BY <1>2, <3>1, <3>2
  <2>5. \A i, m \in Idle(journals', busy) : i = m
    BY <1>5, <2>4 DEF Idle, Distinct
  <2>6. Idle(journals', busy) = {} \/ \E i : Idle(journals', busy) = {i}
    <3> DEFINE S == Idle(journals', busy)
    <3> HIDE DEF S
    <3>1. \A i, m \in S : i = m
      BY <2>5 DEF S
    <3>2. ASSUME NEW i \in S PROVE S = {i}
      BY <3>1
    <3> QED
      BY <3>2 DEF S
  <2>7. Cardinality(Idle(journals', busy)) <= 1
    <3>1. CASE Idle(journals', busy) = {}
      BY <3>1, FS_EmptySet
    <3>2. CASE \E i : Idle(journals', busy) = {i}
      <4>1. PICK i : Idle(journals', busy) = {i}
        BY <3>2
      <4>2. Cardinality({i}) = 1
        BY FS_Singleton
      <4> QED
        BY <4>1, <4>2
    <3> QED
      BY <2>6, <3>1, <3>2
  <2> QED
    BY <2>7 DEF Bounded
<1>9. CASE ~(N + MaxJournals <= L)
  <2>1. CASE L <= MaxJournals
    <3>1. Len(journals') <= L
      <4> DEFINE S == R \cap (1..L)
      <4>1. S \in SUBSET (1..L)
        OBVIOUS
      <4> HIDE DEF S
      <4>2. Cardinality(S) <= Cardinality(1..L)
        BY <1>7, <4>1, FS_Subset
      <4> QED
        BY <1>6, <1>7, <4>2 DEF S
    <3> QED
      BY <1>2, <1>5, <2>1, <3>1 DEF Bounded
  <2>2. CASE ~(L <= MaxJournals)
    <3> DEFINE D == L - MaxJournals
               W == {g[i] : i \in 1..D}
    <3>1. D \in Nat /\ D < N /\ V = 1..D
      BY <1>2, <1>3, <1>9, <2>2 DEF L
    <3> HIDE DEF D
    <3>2. \A i \in 1..D : i \in 1..N
      BY <1>3, <3>1
    <3>3. \A i, m \in 1..N : g[i] = g[m] => i = m
      <4> SUFFICES ASSUME NEW i \in 1..N, NEW m \in 1..N, g[i] = g[m], i # m PROVE FALSE
        OBVIOUS
      <4>1. i < m \/ m < i
        BY <1>3
      <4>2. g[i] \in Nat /\ g[m] \in Nat
        BY <1>2, <1>4
      <4> QED
        BY <1>4, <4>1, <4>2
    <3> DEFINE k == [i \in 1..D |-> g[i]]
    <3>4. k \in Bijection(1..D, W)
      <4>1. k \in [1..D -> W]
        OBVIOUS
      <4>2. \A i, m \in 1..D : k[i] = k[m] => i = m
        BY <3>2, <3>3
      <4>3. \A w \in W : \E i \in 1..D : k[i] = w
        OBVIOUS
      <4> HIDE DEF k, W
      <4> QED
        BY <4>1, <4>2, <4>3 DEF Bijection, Injection, Surjection, IsInjective
    <3>5. IsFiniteSet(1..D) /\ Cardinality(1..D) = D
      <4>1. 1 \in Int /\ D \in Int
        BY <3>1
      <4>2. IsFiniteSet(1..D) /\ Cardinality(1..D) = IF 1 > D THEN 0 ELSE D - 1 + 1
        BY <4>1, FS_Interval, Zenon
      <4> QED
        BY <3>1, <4>2
    <3>6. IsFiniteSet(W) /\ Cardinality(W) = D
      <4>1. ExistsBijection(1..D, W)
        BY <3>4 DEF ExistsBijection
      <4> HIDE DEF W
      <4>2. IsFiniteSet(W) /\ Cardinality(W) = Cardinality(1..D)
        BY <3>5, <4>1, FS_Bijection
      <4> QED
        BY <3>5, <4>2
    <3>7. W \subseteq 1..L
      BY <1>4, <3>2
    <3>8. victims = {j[w] : w \in W}
      <4>1. victims = {idle[i] : i \in 1..D}
        BY <3>1
      <4>2. \A i \in 1..D : idle[i] = j[g[i]]
        BY <1>4, <3>2
      <4>3. \A v : (\E i \in 1..D : v = idle[i]) <=> (\E w \in W : v = j[w])
        BY <4>2
      <4> HIDE DEF V, W, victims
      <4> QED
        BY <4>1, <4>3
    <3>9. R = (1..L) \ W
      <4>1. \A n, m \in 1..L : j[n] = j[m] => n = m
        BY <1>2 DEF Distinct
      <4>2. \A n \in 1..L : j[n] \in victims <=> n \in W
        <5> SUFFICES ASSUME NEW n \in 1..L PROVE j[n] \in victims <=> n \in W
          OBVIOUS
        <5> HIDE DEF V, W, victims
        <5>1. n \in W => j[n] \in victims
          BY <3>8
        <5>2. ASSUME j[n] \in victims PROVE n \in W
          <6>1. PICK w \in W : j[n] = j[w]
            BY <3>8, <5>2
          <6>2. w \in 1..L
            BY <3>7
          <6>3. n = w
            BY <4>1, <6>1, <6>2
          <6> QED
            BY <6>3
        <5> QED
          BY <5>1, <5>2
      <4> HIDE DEF W, V
      <4> QED
        BY <1>2, <4>2
    <3>10. (1..L) \cap W = W
      BY <3>7
    <3> HIDE DEF R, W
    <3>11. Cardinality(R) = L - D
      <4> DEFINE X == 1..L
      <4>1. IsFiniteSet(X) /\ Cardinality(X) = L /\ X \cap W = W /\ R = X \ W
        BY <1>7, <3>9, <3>10
      <4> HIDE DEF X
      <4>2. Cardinality(X \ W) = Cardinality(X) - Cardinality(X \cap W)
        BY <3>6, <4>1, FS_Difference
      <4> QED
        BY <3>6, <4>1, <4>2
    <3>12. Len(journals') = MaxJournals
      <4>1. Len(journals') = L - D
        BY <1>6, <3>11
      <4>2. L - (L - MaxJournals) = MaxJournals
        BY <1>2
      <4> QED
        BY <4>1, <4>2 DEF D
    <3> QED
      BY <1>2, <3>12 DEF Bounded
  <2> QED
    BY <2>1, <2>2
<1> QED
  BY <1>8, <1>9

(* Bounded again, whoever the subscribers are after the step *)
LEMMA IdleStep ==
  ASSUME HubInv, IdleJournalsBounded, [Next]_vars
  PROVE  IdleJournalsBounded'
<1>1. IdleJournalsBounded <=> Bounded(journals, Busy(Subscribers))
  BY DEF IdleJournalsBounded, Bounded, Idle
<1>2. IdleJournalsBounded' <=> Bounded(journals', Busy(Subscribers)')
  BY DEF IdleJournalsBounded, Bounded, Idle
<1>3. JournalsGood(journals)
  BY DEF HubInv
<1>4. ASSUME journals' = journals, DOMAIN sockets' = Subscribers,
             \A s \in Subscribers : sockets'[s].client = sockets[s].client
      PROVE  IdleJournalsBounded'
  <2>1. Busy(Subscribers)' = Busy(Subscribers)
    BY <1>4 DEF Busy, Subscribers
  <2> QED
    BY <1>1, <1>2, <1>4, <2>1
<1>5. ASSUME NEW c \in Clients, NEW s \in Slots, Attach(c, s) PROVE IdleJournalsBounded'
  <2> DEFINE a == ScopeOf[c]
  <2>1. /\ Prune(hub, Touched(a), {a}, Busy(Subscribers) \cup {a})
        /\ s \notin Subscribers
        /\ DOMAIN sockets' = Subscribers \cup {s}
        /\ sockets'[s].client = c
        /\ \A t \in Subscribers : sockets'[t] = sockets[t]
    BY <1>5 DEF Attach
  <2>2. Busy(Subscribers)' = Busy(Subscribers) \cup {a}
    <3>1. Subscribers' = Subscribers \cup {s}
      BY <2>1 DEF Subscribers
    <3>2. Busy(Subscribers)' = {ScopeOf[sockets'[t].client] : t \in Subscribers \cup {s}}
      BY <3>1 DEF Busy
    <3>3. \A v : (\E t \in Subscribers \cup {s} : v = ScopeOf[sockets'[t].client])
                   <=> (\E t \in Subscribers : v = ScopeOf[sockets[t].client]) \/ v = a
      BY <2>1
    <3> QED
      BY <3>2, <3>3 DEF Busy
  <2>3. JournalsGood(Touched(a))
    BY <1>3, TouchedIsGood, ConstantsAssumption
  <2>4. Bounded(journals', Busy(Subscribers) \cup {a})
    <3>1. \A x, y \in {a} : x = y
      OBVIOUS
    <3> QED
      BY <2>1, <2>3, <3>1, PruneBounds
  <2> QED
    BY <1>2, <2>2, <2>4
<1>6. ASSUME NEW a \in Scopes, NEW e \in Events[a], NEW failing \in SUBSET Following(a), Publish(a, e, failing)
      PROVE  IdleJournalsBounded'
  <2>1. DOMAIN sockets' = Subscribers /\ \A s \in Subscribers : sockets'[s].client = sockets[s].client
    <3>1. CASE e.id \in hub[a].ids
      BY <1>6, <3>1 DEF Publish, Subscribers
    <3>2. CASE e.id \notin hub[a].ids
      <4> DEFINE f == [kind |-> "event", n |-> hub[a].cursor + 1]
      <4>1. sockets' = [s \in Subscribers |-> IF s \in Following(a) THEN Sent(s, f, s \in failing) ELSE sockets[s]]
        BY <1>6, <3>2 DEF Publish
      <4>2. f \in Frame
        BY DEF HubInv, HubWhole, Journal, Frame
      <4> HIDE DEF f
      <4> QED
        BY <4>1, <4>2, SentIs
    <3> QED
      BY <3>1, <3>2
  <2>2. Busy(Subscribers)' = Busy(Subscribers)
    BY <2>1 DEF Busy, Subscribers
  <2>3. \E h : Prune(h, Touched(a), {a}, Busy(Subscribers))
    BY <1>6 DEF Publish
  <2>4. Bounded(journals', Busy(Subscribers))
    <3>1. \A x, y \in {a} : x = y
      OBVIOUS
    <3>2. JournalsGood(Touched(a))
      BY <1>3, TouchedIsGood
    <3> QED
      BY <2>3, <3>1, <3>2, PruneBounds
  <2> QED
    BY <1>2, <2>2, <2>4
<1>7. ASSUME NEW s, Detach(s) PROVE IdleJournalsBounded'
  <2> DEFINE rest == Subscribers \ {s}
  <2>1. Prune(hub, journals, {}, Busy(rest)) /\ sockets' = [t \in rest |-> sockets[t]]
    BY <1>7 DEF Detach, PruneIdle
  <2>2. Busy(Subscribers)' = Busy(rest)
    <3>1. Subscribers' = rest
      BY <2>1 DEF Subscribers
    <3>2. Busy(Subscribers)' = {ScopeOf[sockets'[t].client] : t \in rest}
      BY <3>1 DEF Busy
    <3> QED
      BY <2>1, <3>2 DEF Busy
  <2>3. Bounded(journals', Busy(rest))
    BY <1>3, <2>1, PruneBounds
  <2> QED
    BY <1>2, <2>2, <2>3
<1>8. ASSUME NEW c \in Clients, Read(c) \/ Pong(c) \/ Leave(c) PROVE IdleJournalsBounded'
  <2> DEFINE s == client[c].at
  <2>1. s # NoSlot /\ journals' = journals
    BY <1>8 DEF Read, Pong, Leave
  <2>2. s \in Subscribers /\ sockets[s] \in Socket
    BY <2>1, OwnSocket
  <2>3. \E v : \/ sockets' = [sockets EXCEPT ![s].queue = v]
               \/ sockets' = [sockets EXCEPT ![s].alive = v]
    BY <1>8 DEF Read, Pong, Leave
  <2>4. sockets \in [Subscribers -> Socket]
    BY DEF HubInv, Wired, Subscribers
  <2> HIDE DEF s
  <2>5. PICK v : \/ sockets' = [sockets EXCEPT ![s].queue = v]
                 \/ sockets' = [sockets EXCEPT ![s].alive = v]
    BY <2>3
  <2>6. DOMAIN sockets' = Subscribers /\ \A t \in Subscribers : sockets'[t].client = sockets[t].client
    <3>1. CASE sockets' = [sockets EXCEPT ![s].queue = v]
      BY <2>2, <2>4, <3>1 DEF Socket
    <3>2. CASE sockets' = [sockets EXCEPT ![s].alive = v]
      BY <2>2, <2>4, <3>2 DEF Socket
    <3> QED
      BY <2>5, <3>1, <3>2
  <2> QED
    BY <1>4, <2>1, <2>6
<1>9. ASSUME NEW s, Heartbeat(s) \/ Expire(s) PROVE IdleJournalsBounded'
  <2>1. s \in Subscribers /\ journals' = journals
    BY <1>9 DEF Heartbeat, Expire
  <2>2. \E v : \/ sockets' = [sockets EXCEPT ![s].state = v]
               \/ sockets' = [sockets EXCEPT ![s].alive = v]
    BY <1>9 DEF Heartbeat, Expire
  <2>3. sockets \in [Subscribers -> Socket]
    BY DEF HubInv, Wired, Subscribers
  <2>4. DOMAIN sockets' = Subscribers /\ \A t \in Subscribers : sockets'[t].client = sockets[t].client
    BY <2>1, <2>2, <2>3 DEF Socket
  <2> QED
    BY <1>4, <2>1, <2>4
<1>10. CASE Restart
  <2>1. Len(journals') = 0
    BY <1>10 DEF Restart
  <2>2. ~(Len(journals') > MaxJournals)
    BY <2>1, ConstantsAssumption
  <2> QED
    BY <1>2, <2>2 DEF Bounded
<1>11. CASE UNCHANGED vars
  BY <1>4, <1>11 DEF vars, Subscribers
<1> QED
  BY <1>5, <1>6, <1>7, <1>8, <1>9, <1>10, <1>11 DEF Next

-----------------------------------------------------------------------------
(* The frames kept for a late reader.  A turn of trim gives up a frame     *)
(* that is not terminal, or a terminal one of several; after as many turns *)
(* as there were frames no more has to go.                                 *)

Retained == [number : Nat, size : Nat, terminal : BOOLEAN]

InOrder(fs) == \A i, j \in DOMAIN fs : i < j => fs[i].number < fs[j].number

HasEnd(fs) == \E i \in DOMAIN fs : fs[i].terminal

UpTo(fs, n) == \A i \in DOMAIN fs : fs[i].number <= n

Settled(fs) == TooMuch(fs) => Victim(fs) = 0

LEMMA NoFrames ==
  /\ <<>> \in Seq(Retained)
  /\ ~TooMuch(<<>>)
<1> DEFINE h == CHOOSE h : h = [i \in 0..Len(<<>>) |-> IF i = 0 THEN 0 ELSE h[i - 1] + <<>>[i].size]
           g == [i \in 0..Len(<<>>) |-> 0]
<1>1. 0..Len(<<>>) = {0} /\ Len(<<>>) = 0
  OBVIOUS
<1>2. g = [i \in 0..Len(<<>>) |-> IF i = 0 THEN 0 ELSE g[i - 1] + <<>>[i].size]
  BY <1>1
<1>3. h = [i \in 0..Len(<<>>) |-> IF i = 0 THEN 0 ELSE h[i - 1] + <<>>[i].size]
  <2> HIDE DEF g
  <2> QED
    BY <1>2, Zenon
<1>4. FrameBytes(<<>>) = h[Len(<<>>)]
  BY Zenon DEF FrameBytes
<1> HIDE DEF h
<1>5. FrameBytes(<<>>) = 0
  BY <1>1, <1>3, <1>4
<1>6. ~TooMuch(<<>>)
  BY <1>1, <1>5, FrameConstantsAssumption DEF TooMuch
<1>7. <<>> \in Seq(Retained)
  OBVIOUS
<1> QED
  BY <1>6, <1>7

LEMMA VictimIs ==
  ASSUME NEW fs \in Seq(Retained)
  PROVE  /\ Victim(fs) \in 0..Len(fs)
         /\ Victim(fs) > 0 => ~fs[Victim(fs)].terminal \/ ((\A i \in DOMAIN fs : fs[i].terminal) /\ Len(fs) > 1)
         /\ Victim(fs) = 0 => Len(fs) <= 1 /\ \A i \in DOMAIN fs : fs[i].terminal
<1> DEFINE plain == {i \in DOMAIN fs : ~fs[i].terminal}
<1>1. Len(fs) \in Nat /\ DOMAIN fs = 1..Len(fs)
  OBVIOUS
<1>2. CASE plain # {}
  <2>1. plain \in SUBSET Nat
    BY <1>1
  <2>2. \E i \in plain : \A j \in plain : i <= j
    <3> HIDE DEF plain
    <3> QED
      BY <1>2, <2>1, LeastNat
  <2>3. Victim(fs) \in plain
    BY <1>2, <2>2 DEF Victim
  <2> QED
    BY <1>1, <2>3
<1>3. CASE plain = {}
  <2>1. Victim(fs) = IF Len(fs) > 1 THEN 1 ELSE 0
    BY <1>3 DEF Victim
  <2> QED
    BY <1>1, <1>3, <2>1
<1> QED
  BY <1>2, <1>3

LEMMA RemovedFrame ==
  ASSUME NEW S, NEW s \in Seq(S), NEW i \in 1..Len(s)
  PROVE  /\ RemoveAt(s, i) \in Seq(S)
         /\ Len(RemoveAt(s, i)) = Len(s) - 1
         /\ \A j \in 1..(Len(s) - 1) : RemoveAt(s, i)[j] = s[IF j < i THEN j ELSE j + 1]
<1> DEFINE front == SubSeq(s, 1, i - 1)
           back == SubSeq(s, i + 1, Len(s))
<1>6. Len(s) \in Nat /\ i \in Nat /\ i >= 1 /\ i <= Len(s)
  OBVIOUS
<1>1. front \in Seq(S) /\ Len(front) = i - 1 /\ \A j \in 1..(i - 1) : front[j] = s[j]
  BY <1>6, SubSeqProperties
<1>2. back \in Seq(S) /\ Len(back) = Len(s) - i /\ \A j \in 1..(Len(s) - i) : back[j] = s[i + j]
  BY <1>6, SubSeqProperties
<1>3. RemoveAt(s, i) = front \o back
  BY DEF RemoveAt
<1> HIDE DEF front, back
<1>4. front \o back \in Seq(S) /\ Len(front \o back) = Len(s) - 1
  <2>1. Len(front) + Len(back) = Len(s) - 1
    BY <1>6, <1>1, <1>2
  <2> QED
    BY <1>1, <1>2, <2>1, ConcatProperties, Zenon
<1>5. ASSUME NEW j \in 1..(Len(s) - 1)
      PROVE  (front \o back)[j] = s[IF j < i THEN j ELSE j + 1]
  <2>1. (front \o back)[j] = IF j <= i - 1 THEN front[j] ELSE back[j - (i - 1)]
    BY <1>6, <1>1, <1>2, ConcatProperties
  <2>2. CASE j < i
    BY <1>6, <1>1, <2>1, <2>2
  <2>3. CASE ~(j < i)
    <3>1. j - (i - 1) \in 1..(Len(s) - i) /\ i + (j - (i - 1)) = j + 1
      BY <1>6, <2>3
    <3>2. back[j - (i - 1)] = s[j + 1]
      BY <1>2, <3>1
    <3> QED
      BY <1>6, <2>1, <2>3, <3>2
  <2> QED
    BY <2>2, <2>3
<1> QED
  BY <1>3, <1>4, <1>5

LEMMA TrimStepKeeps ==
  ASSUME NEW fs \in Seq(Retained), InOrder(fs), NEW n \in Nat, UpTo(fs, n)
  PROVE  /\ TrimStep(fs) \in Seq(Retained)
         /\ InOrder(TrimStep(fs))
         /\ UpTo(TrimStep(fs), n)
         /\ HasEnd(fs) => HasEnd(TrimStep(fs))
         /\ \/ TrimStep(fs) = fs /\ Settled(fs)
            \/ Len(TrimStep(fs)) = Len(fs) - 1 /\ Len(fs) > 0
<1>1. CASE ~(TooMuch(fs) /\ Victim(fs) > 0)
  <2>1. TrimStep(fs) = fs
    BY <1>1 DEF TrimStep
  <2>2. Victim(fs) \in 0..Len(fs) /\ Len(fs) \in Nat
    BY VictimIs
  <2>3. Settled(fs)
    BY <1>1, <2>2 DEF Settled
  <2> QED
    BY <2>1, <2>3
<1>2. CASE TooMuch(fs) /\ Victim(fs) > 0
  <2> DEFINE v == Victim(fs)
             r == RemoveAt(fs, v)
             L == Len(fs)
             At(j) == IF j < v THEN j ELSE j + 1
  <2>1. TrimStep(fs) = r
    BY <1>2 DEF TrimStep
  <2>2. L \in Nat /\ v \in 1..L /\ DOMAIN fs = 1..L
    BY <1>2, VictimIs
  <2>3. ~fs[v].terminal \/ ((\A i \in 1..L : fs[i].terminal) /\ L > 1)
    BY <1>2, <2>2, VictimIs
  <2> HIDE DEF v
  <2>4. r \in Seq(Retained) /\ Len(r) = L - 1 /\ DOMAIN r = 1..(L - 1) /\ \A j \in 1..(L - 1) : r[j] = fs[At(j)]
    <3>1. /\ r \in Seq(Retained) /\ Len(r) = L - 1
          /\ \A j \in 1..(L - 1) : r[j] = fs[IF j < v THEN j ELSE j + 1]
      BY <2>2, RemovedFrame
    <3> HIDE DEF r
    <3> QED
      BY <3>1
  <2> HIDE DEF r, L
  <2>5. \A j \in 1..(L - 1) : At(j) \in 1..L
    BY <2>2
  <2>6. \A i, j \in 1..(L - 1) : i < j => At(i) < At(j)
    BY <2>2
  <2>7. \A i \in 1..L : i # v => \E j \in 1..(L - 1) : At(j) = i
    <3> SUFFICES ASSUME NEW i \in 1..L, i # v PROVE \E j \in 1..(L - 1) : At(j) = i
      OBVIOUS
    <3>1. CASE i < v
      <4>1. i \in 1..(L - 1) /\ At(i) = i
        BY <2>2, <3>1
      <4> QED
        BY <4>1
    <3>2. CASE ~(i < v)
      <4>1. i - 1 \in 1..(L - 1) /\ At(i - 1) = i
        BY <2>2, <3>2
      <4> QED
        BY <4>1
    <3> QED
      BY <3>1, <3>2
  <2> HIDE DEF At
  <2>8. InOrder(r)
    BY <2>2, <2>4, <2>5, <2>6 DEF InOrder
  <2>9. UpTo(r, n)
    BY <2>2, <2>4, <2>5 DEF UpTo
  <2>10. ASSUME HasEnd(fs) PROVE HasEnd(r)
    <3>1. \E i \in 1..L : fs[i].terminal /\ i # v
      <4>1. CASE ~fs[v].terminal
        BY <2>2, <2>10, <4>1 DEF HasEnd
      <4>2. CASE (\A i \in 1..L : fs[i].terminal) /\ L > 1
        <5>1. \E i \in 1..L : i # v
          <6>1. 1 \in 1..L /\ 2 \in 1..L
            BY <2>2, <4>2
          <6> QED
            BY <6>1
        <5> QED
          BY <4>2, <5>1
      <4> QED
        BY <2>3, <4>1, <4>2
    <3> QED
      BY <2>4, <2>7, <3>1 DEF HasEnd
  <2> QED
    BY <2>1, <2>2, <2>4, <2>8, <2>9, <2>10 DEF L
<1> QED
  BY <1>1, <1>2

(* g[k]: the frames after k turns *)
Turns(g, fs, N) ==
    /\ g \in [0..N -> Seq(Retained)]
    /\ g[0] = fs
    /\ \A k \in 1..N : g[k] = TrimStep(g[k - 1])

LEMMA TrimStepType ==
  ASSUME NEW fs \in Seq(Retained)
  PROVE  TrimStep(fs) \in Seq(Retained)
<1>1. CASE TooMuch(fs) /\ Victim(fs) > 0
  <2>1. Victim(fs) \in 1..Len(fs)
    BY <1>1, VictimIs
  <2> QED
    BY <1>1, <2>1, RemovedFrame DEF TrimStep
<1>2. CASE ~(TooMuch(fs) /\ Victim(fs) > 0)
  BY <1>2 DEF TrimStep
<1> QED
  BY <1>1, <1>2

LEMMA TurnsExist ==
  ASSUME NEW fs \in Seq(Retained), NEW N \in Nat
  PROVE  \E g : Turns(g, fs, N)
<1> DEFINE Partial(k) == \E g : Turns(g, fs, k)
           T == {k \in 0..N : ~Partial(k)}
<1>1. T = {}
  <2> SUFFICES ASSUME T # {} PROVE FALSE
    OBVIOUS
  <2>1. PICK k \in T : \A m \in T : k <= m
    <3>1. T \in SUBSET Nat
      OBVIOUS
    <3> HIDE DEF T
    <3> QED
      BY <3>1, LeastNat
  <2>2. k \in 0..N /\ ~Partial(k)
    BY <2>1
  <2>3. k # 0
    <3>1. Partial(0)
      <4> DEFINE g == [i \in 0..0 |-> fs]
      <4>1. g \in [0..0 -> Seq(Retained)] /\ g[0] = fs
        OBVIOUS
      <4>2. 1..0 = {}
        OBVIOUS
      <4> HIDE DEF g
      <4> QED
        BY <4>1, <4>2 DEF Turns
    <3> QED
      BY <2>2, <3>1
  <2>4. k - 1 \in 0..N /\ k \in Nat /\ k - 1 \in Nat /\ ~(k <= k - 1)
    BY <2>2, <2>3
  <2>5. Partial(k - 1)
    <3> HIDE DEF Partial
    <3> QED
      BY <2>1, <2>4
  <2>6. PICK g : Turns(g, fs, k - 1)
    BY <2>5
  <2>7. /\ g \in [0..(k - 1) -> Seq(Retained)] /\ g[0] = fs
        /\ \A i \in 1..(k - 1) : g[i] = TrimStep(g[i - 1])
    BY <2>6 DEF Turns
  <2> DEFINE last == TrimStep(g[k - 1])
             h == [i \in 0..k |-> IF i = k THEN last ELSE g[i]]
  <2>8. last \in Seq(Retained)
    BY <2>4, <2>7, TrimStepType
  <2>9. h \in [0..k -> Seq(Retained)] /\ h[0] = fs
    <3> HIDE DEF last
    <3> QED
      BY <2>3, <2>4, <2>7, <2>8
  <2>10. ASSUME NEW i \in 1..k PROVE h[i] = TrimStep(h[i - 1])
    <3>1. CASE i = k
      <4>1. h[k] = last /\ h[k - 1] = g[k - 1]
        BY <2>4
      <4> HIDE DEF h
      <4> QED
        BY <3>1, <4>1
    <3>2. CASE i # k
      <4>1. i \in 1..(k - 1) /\ i \in 0..k /\ i - 1 \in 0..k /\ i - 1 # k
        BY <2>4, <3>2
      <4>2. h[i] = g[i] /\ h[i - 1] = g[i - 1]
        BY <3>2, <4>1
      <4> HIDE DEF h
      <4> QED
        BY <2>7, <4>1, <4>2
    <3> QED
      BY <3>1, <3>2
  <2> HIDE DEF h
  <2>11. Partial(k)
    BY <2>9, <2>10 DEF Turns
  <2> QED
    BY <2>2, <2>11
<1> HIDE DEF Partial
<1>2. Partial(N)
  BY <1>1
<1> QED
  BY <1>2 DEF Partial

LEMMA TrimmedByTurns ==
  ASSUME NEW fs \in Seq(Retained), NEW g, Turns(g, fs, Len(fs))
  PROVE  FramesTrimmed(fs) = g[Len(fs)]
<1> DEFINE N == Len(fs)
           h == CHOOSE h : h = [k \in 0..N |-> IF k = 0 THEN fs ELSE TrimStep(h[k - 1])]
           T == {k \in 0..N : h[k] # g[k]}
<1>1. N \in Nat
  OBVIOUS
<1>2. g = [k \in 0..N |-> IF k = 0 THEN fs ELSE TrimStep(g[k - 1])]
  <2>1. \A k \in 0..N : k # 0 => k \in 1..N
    BY <1>1
  <2>2. g[0] = fs /\ \A k \in 1..N : g[k] = TrimStep(g[k - 1])
    BY DEF Turns
  <2>3. \A k \in 0..N : g[k] = IF k = 0 THEN fs ELSE TrimStep(g[k - 1])
    BY <2>1, <2>2, Zenon
  <2> QED
    BY <2>3 DEF Turns
<1>3. h = [k \in 0..N |-> IF k = 0 THEN fs ELSE TrimStep(h[k - 1])]
  BY <1>2, Zenon
<1>4. FramesTrimmed(fs) = h[N]
  BY Zenon DEF FramesTrimmed
<1> HIDE DEF h, N
<1>5. T = {}
  <2> SUFFICES ASSUME T # {} PROVE FALSE
    OBVIOUS
  <2>1. PICK k \in T : \A m \in T : k <= m
    <3>1. T \in SUBSET Nat
      BY <1>1
    <3> HIDE DEF T
    <3> QED
      BY <3>1, LeastNat
  <2>2. k \in 0..N /\ h[k] # g[k]
    BY <2>1
  <2>3. k # 0
    BY <1>1, <1>2, <1>3, <2>2
  <2>4. k - 1 \in 0..N /\ ~(k <= k - 1)
    BY <1>1, <2>2, <2>3
  <2>5. h[k - 1] = g[k - 1]
    BY <2>1, <2>4
  <2>6. h[k] = TrimStep(h[k - 1]) /\ g[k] = TrimStep(g[k - 1])
    BY <1>2, <1>3, <2>2, <2>3
  <2> QED
    BY <2>2, <2>5, <2>6
<1>6. h[N] = g[N]
  BY <1>1, <1>5
<1> QED
  BY <1>4, <1>6 DEF N

LEMMA FramesTrimmedKeeps ==
  ASSUME NEW fs \in Seq(Retained), InOrder(fs), NEW n \in Nat, UpTo(fs, n)
  PROVE  /\ FramesTrimmed(fs) \in Seq(Retained)
         /\ InOrder(FramesTrimmed(fs))
         /\ UpTo(FramesTrimmed(fs), n)
         /\ HasEnd(fs) => HasEnd(FramesTrimmed(fs))
         /\ Settled(FramesTrimmed(fs))
         /\ Len(FramesTrimmed(fs)) <= Len(fs)
<1> DEFINE N == Len(fs)
<1>1. N \in Nat
  OBVIOUS
<1>2. PICK g : Turns(g, fs, N)
  BY <1>1, TurnsExist
<1>3. FramesTrimmed(fs) = g[N]
  BY <1>2, TrimmedByTurns
<1>4. /\ g \in [0..N -> Seq(Retained)] /\ g[0] = fs
      /\ \A k \in 1..N : g[k] = TrimStep(g[k - 1])
  BY <1>2 DEF Turns
<1> DEFINE Ok(k) == /\ InOrder(g[k]) /\ UpTo(g[k], n)
                    /\ HasEnd(fs) => HasEnd(g[k])
                    /\ Len(g[k]) <= N
                    /\ Settled(g[k]) \/ Len(g[k]) = N - k
           T == {k \in 0..N : ~Ok(k)}
<1>5. T = {}
  <2> SUFFICES ASSUME T # {} PROVE FALSE
    OBVIOUS
  <2>1. PICK k \in T : \A m \in T : k <= m
    <3>1. T \in SUBSET Nat
      BY <1>1
    <3> HIDE DEF T
    <3> QED
      BY <3>1, LeastNat
  <2>2. k \in 0..N /\ ~Ok(k)
    BY <2>1
  <2>3. k # 0
    <3>1. Ok(0)
      BY <1>1, <1>4
    <3> HIDE DEF Ok
    <3> QED
      BY <2>2, <3>1
  <2>4. k - 1 \in 0..N /\ k \in 1..N /\ k \in Nat /\ ~(k <= k - 1) /\ N - (k - 1) - 1 = N - k
    BY <1>1, <2>2, <2>3
  <2>5. Ok(k - 1)
    <3> HIDE DEF Ok
    <3> QED
      BY <2>1, <2>4
  <2> DEFINE old == g[k - 1]
             new == g[k]
  <2>6. old \in Seq(Retained) /\ new = TrimStep(old) /\ Len(old) \in Nat
    <3>1. g[k - 1] \in Seq(Retained)
      BY <1>4, <2>4
    <3>2. g[k] = TrimStep(g[k - 1])
      BY <1>4, <2>4
    <3> QED
      BY <3>1, <3>2
  <2>7. InOrder(old) /\ UpTo(old, n) /\ (HasEnd(fs) => HasEnd(old)) /\ Len(old) <= N
        /\ (Settled(old) \/ Len(old) = N - (k - 1))
    BY <2>5
  <2> HIDE DEF old, new, N
  <2>8. /\ InOrder(new) /\ UpTo(new, n) /\ (HasEnd(old) => HasEnd(new))
        /\ \/ new = old /\ Settled(old)
           \/ Len(new) = Len(old) - 1 /\ Len(old) > 0
    <3>1. /\ InOrder(TrimStep(old)) /\ UpTo(TrimStep(old), n) /\ (HasEnd(old) => HasEnd(TrimStep(old)))
          /\ \/ TrimStep(old) = old /\ Settled(old)
             \/ Len(TrimStep(old)) = Len(old) - 1 /\ Len(old) > 0
      BY <2>6, <2>7, TrimStepKeeps, Zenon
    <3> QED
      BY <2>6, <3>1, Zenon
  <2>9. Len(new) <= N
    BY <1>1, <2>6, <2>7, <2>8
  <2>10. Settled(new) \/ Len(new) = N - k
    <3>1. CASE new = old /\ Settled(old)
      BY <3>1
    <3>2. CASE Len(new) = Len(old) - 1 /\ Len(old) = N - (k - 1)
      BY <2>4, <3>2
    <3>3. CASE Len(new) = Len(old) - 1 /\ Settled(old)
      <4>1. ~(TooMuch(old) /\ Victim(old) > 0)
        BY <3>3 DEF Settled
      <4>2. new = old
        BY <2>6, <4>1 DEF TrimStep
      <4> QED
        BY <3>3, <4>2
    <3> QED
      BY <2>7, <2>8, <3>1, <3>2, <3>3
  <2>11. Ok(k)
    BY <2>7, <2>8, <2>9, <2>10 DEF new
  <2> HIDE DEF Ok
  <2> QED
    BY <2>2, <2>11
<1>6. Ok(N)
  <2> HIDE DEF Ok, N
  <2> QED
    BY <1>1, <1>5
<1>7. g[N] \in Seq(Retained)
  BY <1>1, <1>4
<1>8. Settled(g[N])
  <2>1. CASE Len(g[N]) = N - N
    <3>1. Len(g[N]) = 0
      BY <1>1, <2>1
    <3>2. g[N] = <<>>
      BY <1>7, <3>1
    <3> QED
      BY <3>2, NoFrames DEF Settled
  <2> QED
    BY <1>6, <2>1
<1> QED
  BY <1>3, <1>6, <1>7, <1>8

-----------------------------------------------------------------------------
FramesInv ==
    /\ frames \in Seq(Retained) /\ InOrder(frames) /\ UpTo(frames, pushes.all)
    /\ pushes \in [all : 0..MaxPushes, terminal : Nat]
    /\ dropped \in Nat /\ dropped + Len(frames) = pushes.all
    /\ pushes.terminal > 0 => HasEnd(frames)
    /\ Settled(frames)

LEMMA FramesInvMeans ==
  ASSUME FramesInv
  PROVE  FramesTypeOK /\ EndIsRetained
<1>1. Len(frames) \in Nat /\ DOMAIN frames = 1..Len(frames)
  BY DEF FramesInv
<1>2. FramesTypeOK
  <2>1. pushes.all \in 0..MaxPushes /\ MaxPushes \in Nat
    BY FrameConstantsAssumption DEF FramesInv
  <2>2. dropped \in Nat /\ dropped + Len(frames) = pushes.all
    BY DEF FramesInv
  <2> QED
    BY <1>1, <2>1, <2>2 DEF FramesTypeOK
<1>3. ASSUME TooMuch(frames) PROVE Len(frames) = 1 /\ frames[1].terminal
  <2>1. Victim(frames) = 0 /\ frames \in Seq(Retained)
    BY <1>3 DEF FramesInv, Settled
  <2>2. Len(frames) <= 1 /\ \A i \in DOMAIN frames : frames[i].terminal
    BY <2>1, VictimIs
  <2>3. Len(frames) # 0
    <3>1. frames # <<>>
      BY <1>3, NoFrames
    <3> QED
      BY <2>1, <3>1
  <2> QED
    BY <1>1, <2>2, <2>3
<1>4. EndIsRetained
  BY <1>3 DEF EndIsRetained, FramesInv, HasEnd, InOrder
<1> QED
  BY <1>2, <1>4

LEMMA FramesInitHolds ==
  ASSUME FramesInit
  PROVE  FramesInv
<1>1. frames = <<>> /\ pushes = [all |-> 0, terminal |-> 0] /\ dropped = 0
  BY DEF FramesInit
<1>2. 0 \in 0..MaxPushes
  BY FrameConstantsAssumption
<1>3. Settled(<<>>) /\ <<>> \in Seq(Retained) /\ Len(<<>>) = 0
  BY NoFrames DEF Settled
<1> QED
  BY <1>1, <1>2, <1>3 DEF FramesInv, InOrder, UpTo

LEMMA FramesStep ==
  ASSUME FramesInv, [FramesNext]_frameVars
  PROVE  FramesInv'
<1>1. ASSUME NEW size \in FrameSizes, NEW terminal \in BOOLEAN, PushFrame(size, terminal)
      PROVE  FramesInv'
  <2> DEFINE n == pushes.all + 1
             f == [number |-> n, size |-> size, terminal |-> terminal]
             all == Append(frames, f)
             L == Len(frames)
  <2>1. /\ pushes.all < MaxPushes
        /\ pushes' = [all |-> n, terminal |-> pushes.terminal + (IF terminal THEN 1 ELSE 0)]
        /\ frames' = FramesTrimmed(all)
        /\ dropped' = dropped + Len(all) - Len(FramesTrimmed(all))
    BY <1>1 DEF PushFrame
  <2>2. /\ pushes.all \in Nat /\ pushes.terminal \in Nat /\ n \in 0..MaxPushes /\ n \in Nat
        /\ dropped \in Nat /\ L \in Nat /\ dropped + L = pushes.all /\ frames \in Seq(Retained)
    BY <2>1, FrameConstantsAssumption DEF FramesInv
  <2>3. f \in Retained /\ f.number = n /\ f.terminal = terminal
    BY <2>2, FrameConstantsAssumption DEF Retained
  <2> HIDE DEF f
  <2>4. /\ all \in Seq(Retained) /\ Len(all) = L + 1 /\ DOMAIN all = 1..(L + 1)
        /\ all[L + 1] = f /\ \A i \in 1..L : all[i] = frames[i]
        /\ DOMAIN frames = 1..L
    BY <2>2, <2>3
  <2> HIDE DEF all
  <2>5. \A i \in 1..(L + 1) : i \in 1..L \/ i = L + 1
    BY <2>2
  <2>6. \A i \in 1..L : frames[i].number \in Nat /\ frames[i].number <= pushes.all /\ frames[i].number < n
    <3>1. \A i \in 1..L : frames[i].number <= pushes.all
      BY <2>4 DEF FramesInv, UpTo
    <3>2. \A i \in 1..L : frames[i].number \in Nat
      <4>1. \A i \in 1..L : frames[i] \in Retained
        BY <2>2
      <4> HIDE DEF L
      <4> QED
        BY <4>1 DEF Retained
    <3> QED
      BY <2>2, <3>1, <3>2
  <2>7. InOrder(all)
    <3>1. \A i, j \in 1..L : i < j => frames[i].number < frames[j].number
      BY <2>4 DEF FramesInv, InOrder
    <3>2. \A i, j \in 1..(L + 1) : i < j => i \in 1..L
      BY <2>2
    <3> HIDE DEF L, n
    <3> QED
      BY <2>3, <2>4, <2>5, <2>6, <3>1, <3>2 DEF InOrder
  <2>8. UpTo(all, n)
    <3>1. n <= n /\ \A i \in 1..L : frames[i].number <= n
      BY <2>2, <2>6
    <3> HIDE DEF L, n
    <3> QED
      BY <2>3, <2>4, <2>5, <3>1 DEF UpTo
  <2> DEFINE r == FramesTrimmed(all)
  <2>9. /\ r \in Seq(Retained) /\ InOrder(r) /\ UpTo(r, n) /\ Settled(r)
        /\ HasEnd(all) => HasEnd(r)
        /\ Len(r) <= L + 1 /\ Len(r) \in Nat
    BY <2>2, <2>4, <2>7, <2>8, FramesTrimmedKeeps
  <2> HIDE DEF r
  <2>10. pushes' \in [all : 0..MaxPushes, terminal : Nat] /\ pushes'.all = n
    BY <2>1, <2>2
  <2>11. dropped' \in Nat /\ dropped' + Len(r) = n
    BY <2>1, <2>2, <2>4, <2>9 DEF r
  <2>12. ASSUME pushes'.terminal > 0 PROVE HasEnd(r)
    <3>1. CASE terminal
      <4>1. L + 1 \in 1..(L + 1)
        BY <2>2
      <4> QED
        BY <2>3, <2>4, <2>9, <3>1, <4>1 DEF HasEnd
    <3>2. CASE ~terminal
      <4>1. pushes.terminal > 0
        BY <2>1, <2>2, <2>12, <3>2
      <4>2. HasEnd(frames)
        BY <4>1 DEF FramesInv
      <4>3. 1..L \subseteq 1..(L + 1)
        BY <2>2
      <4>4. HasEnd(all)
        <5> HIDE DEF L
        <5> QED
          BY <2>4, <4>2, <4>3 DEF HasEnd
      <4> QED
        BY <2>9, <4>4
    <3> QED
      BY <3>1, <3>2
  <2>13. frames' = r
    BY <2>1 DEF r
  <2> HIDE DEF n
  <2> QED
    BY <2>9, <2>10, <2>11, <2>12, <2>13 DEF FramesInv
<1>2. CASE DrainFrames
  <2>1. FramesInit'
    BY <1>2 DEF DrainFrames, FramesInit
  <2>2. frames' = <<>> /\ pushes' = [all |-> 0, terminal |-> 0] /\ dropped' = 0
    BY <1>2 DEF DrainFrames
  <2>3. 0 \in 0..MaxPushes
    BY FrameConstantsAssumption
  <2>4. Settled(<<>>) /\ <<>> \in Seq(Retained) /\ Len(<<>>) = 0
    BY NoFrames DEF Settled
  <2> QED
    BY <2>2, <2>3, <2>4 DEF FramesInv, InOrder, UpTo
<1>3. CASE UNCHANGED frameVars
  <2>1. frames' = frames /\ pushes' = pushes /\ dropped' = dropped
    BY <1>3 DEF frameVars
  <2> QED
    BY <2>1 DEF FramesInv
<1> QED
  BY <1>1, <1>2, <1>3 DEF FramesNext

-----------------------------------------------------------------------------
(* The rate limit.  Of one key: the attempts counted so far at the times   *)
(* q, its bucket b, its limit M and window W, at time t.  A bucket stands  *)
(* for the last attempts, from the one that opened it; what was counted M  *)
(* attempts before that one, or before any that may open a bucket now, is  *)
(* a window old.                                                           *)
Fair(b, q, M, W, t) ==
    /\ q \in Seq(Nat)
    /\ \A i, j \in 1..Len(q) : i <= j => q[i] <= q[j]
    /\ \A i \in 1..Len(q) : q[i] <= t
    /\ \A i, j \in 1..Len(q) : j - i >= 2 * M - 1 => q[i] + W <= q[j]
    /\ b = NoBucket =>
          \A i \in 1..Len(q) : i + M <= Len(q) + 1 => q[i] + W <= t
    /\ b # NoBucket =>
          LET first == Len(q) - b.count + 1
          IN  /\ b.count \in 1..M /\ b.count <= Len(q)
              /\ b.until = q[first] + W
              /\ \A i \in 1..Len(q) : i + M <= first => q[i] + W <= q[first]

Bumped(b, W, t) == [count |-> b.count + 1, until |-> IF b = NoBucket THEN t + W ELSE b.until]

LEMMA FairLater ==
  ASSUME NEW b, NEW q, NEW M \in Nat \ {0}, NEW W \in Nat \ {0}, NEW t \in Nat, Fair(b, q, M, W, t)
  PROVE  Fair(b, q, M, W, t + 1)
<1>1. \A i \in 1..Len(q) : q[i] \in Nat
  BY DEF Fair
<1>2. \A i \in 1..Len(q) : q[i] <= t => q[i] <= t + 1
  BY <1>1
<1>3. \A i \in 1..Len(q) : q[i] + W <= t => q[i] + W <= t + 1
  BY <1>1
<1> QED
  BY <1>2, <1>3 DEF Fair

LEMMA FairPruned ==
  ASSUME NEW b, NEW q, NEW M \in Nat \ {0}, NEW W \in Nat \ {0}, NEW t \in Nat, Fair(b, q, M, W, t), b.until <= t
  PROVE  Fair(NoBucket, q, M, W, t)
<1>1. CASE b = NoBucket
  BY <1>1
<1>2. CASE b # NoBucket
  <2> DEFINE L == Len(q)
             first == L - b.count + 1
  <2>1. L \in Nat /\ \A i \in 1..L : q[i] \in Nat
    BY DEF Fair
  <2>2. b.count \in 1..M /\ b.count <= L /\ b.until = q[first] + W
    BY <1>2 DEF Fair
  <2>3. first \in 1..L
    BY <2>1, <2>2
  <2>4. ASSUME NEW i \in 1..L, i + M <= L + 1 PROVE q[i] + W <= t
    <3>1. i <= first
      BY <2>1, <2>2, <2>4
    <3> HIDE DEF L, first
    <3>2. q[i] <= q[first]
      BY <2>3, <3>1 DEF Fair, L
    <3> QED
      BY <2>1, <2>2, <2>3, <3>2
  <2> QED
    BY <2>4 DEF Fair
<1> QED
  BY <1>1, <1>2

LEMMA FairCounted ==
  ASSUME NEW b \in [count : Nat, until : Nat], NEW q, NEW M \in Nat \ {0}, NEW W \in Nat \ {0}, NEW t \in Nat,
         Fair(b, q, M, W, t), b.count < M
  PROVE  /\ Fair(Bumped(b, W, t), Append(q, t), M, W, t)
         /\ Bumped(b, W, t) \in [count : Nat, until : Nat]
         /\ Bumped(b, W, t) # NoBucket
<1> DEFINE L == Len(q)
           r == Append(q, t)
           d == Bumped(b, W, t)
           open == IF b = NoBucket THEN L + 1 ELSE L - b.count + 1
<1>1. q \in Seq(Nat) /\ L \in Nat /\ \A i \in 1..L : q[i] \in Nat /\ q[i] <= t
  BY DEF Fair
<1>2. r \in Seq(Nat) /\ Len(r) = L + 1 /\ r[L + 1] = t /\ \A i \in 1..L : r[i] = q[i]
  BY <1>1
<1>3. b.count \in Nat /\ b.until \in Nat /\ d.count = b.count + 1 /\ d \in [count : Nat, until : Nat]
  BY DEF Bumped
<1>4. d # NoBucket
  BY <1>3 DEF NoBucket
<1>5. /\ d.count \in 1..M
      /\ b = NoBucket => d.count = 1
      /\ b # NoBucket => b.count >= 1 /\ b.count <= L
  <2>1. b = NoBucket => b.count = 0
    BY DEF NoBucket
  <2>2. b # NoBucket => b.count \in 1..M /\ b.count <= L
    BY DEF Fair
  <2> QED
    BY <1>3, <2>1, <2>2
<1>6. d.count <= L + 1 /\ (L + 1) - d.count + 1 = open /\ open \in 1..(L + 1)
  <2> DEFINE n == b.count
  <2>1. L \in Nat /\ n \in Nat /\ d.count = n + 1 /\ (b # NoBucket => n >= 1 /\ n <= L)
    BY <1>1, <1>3, <1>5
  <2>2. b = NoBucket => n = 0
    BY DEF NoBucket
  <2> HIDE DEF n, L, d
  <2>3. CASE b = NoBucket
    <3>1. n = 0 /\ d.count = 1 /\ open = L + 1
      BY <2>1, <2>2, <2>3
    <3> QED
      BY <2>1, <3>1
  <2>4. CASE b # NoBucket
    <3>1. open = L - n + 1
      BY <2>4 DEF n, L
    <3> HIDE DEF open
    <3> QED
      BY <2>1, <2>4, <3>1
  <2> QED
    BY <2>3, <2>4
<1>7. \A i \in 1..(L + 1) : i \in 1..L \/ i = L + 1
  BY <1>1
<1>8. d.until = r[open] + W
  <2>1. CASE b = NoBucket
    BY <1>2, <2>1 DEF Bumped
  <2>2. CASE b # NoBucket
    <3>1. d.until = b.until /\ b.until = q[L - b.count + 1] + W
      BY <2>2 DEF Bumped, Fair
    <3>2. L - b.count + 1 \in 1..L
      BY <1>1, <1>3, <1>5, <2>2
    <3> QED
      BY <1>2, <2>2, <3>1, <3>2
  <2> QED
    BY <2>1, <2>2
<1>9. \A i \in 1..(L + 1) : r[i] \in Nat /\ r[i] <= t
  BY <1>1, <1>2, <1>7
<1>10. ASSUME NEW i \in 1..(L + 1), i + M <= open PROVE r[i] + W <= r[open]
  <2>1. i \in 1..L
    BY <1>1, <1>3, <1>5, <1>6, <1>10, SMTT(40)
  <2>2. CASE b = NoBucket
    <3>1. q[i] + W <= t
      BY <1>10, <2>1, <2>2 DEF Fair
    <3> QED
      BY <1>2, <2>1, <2>2, <3>1
  <2>3. CASE b # NoBucket
    <3>1. q[i] + W <= q[L - b.count + 1]
      BY <1>10, <2>1, <2>3 DEF Fair
    <3>2. L - b.count + 1 \in 1..L
      BY <1>1, <1>3, <1>5, <2>3, SMTT(40)
    <3> QED
      BY <1>2, <2>1, <2>3, <3>1, <3>2
  <2> QED
    BY <2>2, <2>3
<1> HIDE DEF r, d, open, L
<1>11. \A i, j \in 1..(L + 1) : i <= j => r[i] <= r[j]
  <2>1. \A i, j \in 1..L : i <= j => q[i] <= q[j]
    BY DEF Fair, L
  <2>2. \A i, j \in 1..(L + 1) : i <= j /\ j \in 1..L => i \in 1..L
    BY <1>1
  <2> QED
    BY <1>2, <1>7, <1>9, <2>1, <2>2
<1>12. \A i, j \in 1..(L + 1) : j - i >= 2 * M - 1 => r[i] + W <= r[j]
  <2> SUFFICES ASSUME NEW i \in 1..(L + 1), NEW j \in 1..(L + 1), j - i >= 2 * M - 1 PROVE r[i] + W <= r[j]
    OBVIOUS
  <2>1. i < j /\ i \in 1..L
    BY <1>1
  <2>2. CASE j \in 1..L
    <3>1. q[i] + W <= q[j]
      BY <2>1, <2>2 DEF Fair, L
    <3> QED
      BY <1>2, <2>1, <2>2, <3>1
  <2>3. CASE j = L + 1
    <3>1. i + M <= open
      BY <1>1, <1>3, <1>5, <1>6, <2>3
    <3>2. r[i] + W <= r[open]
      BY <1>10, <3>1
    <3>3. r[open] <= t /\ r[open] \in Nat /\ r[i] \in Nat
      BY <1>6, <1>9
    <3>4. r[j] = t
      BY <1>2, <2>3
    <3>5. \A x, y \in Nat : x + W <= y /\ y <= t => x + W <= t
      OBVIOUS
    <3>6. r[i] + W <= t
      BY <3>2, <3>3, <3>5
    <3> QED
      BY <3>4, <3>6
  <2> QED
    BY <1>7, <2>2, <2>3
<1>13. Fair(d, r, M, W, t)
  BY <1>2, <1>4, <1>5, <1>6, <1>8, <1>9, <1>10, <1>11, <1>12 DEF Fair
<1> QED
  BY <1>3, <1>4, <1>13 DEF d, r

-----------------------------------------------------------------------------
Bucket == [count : Nat, until : Nat]

RatesInv ==
    /\ now \in 0..MaxNow
    /\ buckets \in [Keys -> Bucket]
    /\ counted \in [Keys -> Seq(Nat)]
    /\ \A key \in Keys : Fair(buckets[key], counted[key], MaxFor(key), WindowOf[key[1]], now)
    /\ IsFiniteSet(Tracked(buckets)) /\ Cardinality(Tracked(buckets)) <= MaxKeys

LEMMA KeyConstants ==
  ASSUME NEW key \in Keys
  PROVE  MaxFor(key) \in Nat \ {0} /\ WindowOf[key[1]] \in Nat \ {0}
  BY RateConstantsAssumption DEF Keys, MaxFor

LEMMA FewerTracked ==
  ASSUME NEW bs, IsFiniteSet(Tracked(bs)), NEW ds, Tracked(ds) \subseteq Tracked(bs)
  PROVE  /\ IsFiniteSet(Tracked(ds)) /\ Cardinality(Tracked(ds)) <= Cardinality(Tracked(bs))
         /\ Cardinality(Tracked(ds)) \in Nat /\ Cardinality(Tracked(bs)) \in Nat
<1>1. Tracked(ds) \in SUBSET Tracked(bs)
  OBVIOUS
<1>2. IsFiniteSet(Tracked(ds)) /\ Cardinality(Tracked(ds)) <= Cardinality(Tracked(bs))
  BY <1>1, FS_Subset
<1> QED
  BY <1>2, FS_CardinalityType

LEMMA PrunedIs ==
  ASSUME RatesInv
  PROVE  /\ PrunedBuckets(buckets) \in [Keys -> Bucket]
         /\ \A key \in Keys : Fair(PrunedBuckets(buckets)[key], counted[key], MaxFor(key), WindowOf[key[1]], now)
         /\ IsFiniteSet(Tracked(PrunedBuckets(buckets)))
         /\ Cardinality(Tracked(PrunedBuckets(buckets))) <= MaxKeys
<1> DEFINE p == PrunedBuckets(buckets)
<1>1. NoBucket \in Bucket
  BY DEF NoBucket, Bucket
<1>2. \A key \in Keys : p[key] = IF buckets[key].until <= now THEN NoBucket ELSE buckets[key]
  BY DEF PrunedBuckets
<1>3. p \in [Keys -> Bucket]
  BY <1>1 DEF PrunedBuckets, RatesInv
<1> HIDE DEF p
<1>4. ASSUME NEW key \in Keys PROVE Fair(p[key], counted[key], MaxFor(key), WindowOf[key[1]], now)
  <2>1. Fair(buckets[key], counted[key], MaxFor(key), WindowOf[key[1]], now) /\ now \in Nat
    BY RateConstantsAssumption DEF RatesInv
  <2>2. CASE buckets[key].until <= now
    <3>1. Fair(NoBucket, counted[key], MaxFor(key), WindowOf[key[1]], now)
      BY <2>1, <2>2, KeyConstants, FairPruned
    <3> QED
      BY <1>2, <2>2, <3>1
  <2>3. CASE ~(buckets[key].until <= now)
    BY <1>2, <2>1, <2>3
  <2> QED
    BY <2>2, <2>3
<1>5. Tracked(p) \subseteq Tracked(buckets)
  BY <1>2 DEF Tracked
<1>6. IsFiniteSet(Tracked(p)) /\ Cardinality(Tracked(p)) <= MaxKeys
  BY <1>5, FewerTracked, RateConstantsAssumption DEF RatesInv
<1> QED
  BY <1>3, <1>4, <1>6 DEF p

LEMMA CountedIs ==
  ASSUME NEW bs \in [Keys -> Bucket], NEW key \in Keys, now \in Nat
  PROVE  /\ Counted(bs, key) \in [Keys -> Bucket]
         /\ Counted(bs, key)[key] = Bumped(bs[key], WindowOf[key[1]], now)
         /\ \A other \in Keys : other # key => Counted(bs, key)[other] = bs[other]
<1> DEFINE d == Bumped(bs[key], WindowOf[key[1]], now)
<1>1. Counted(bs, key) = [bs EXCEPT ![key] = d]
  BY DEF Counted, Bumped
<1>2. d \in Bucket
  BY KeyConstants DEF Bumped, Bucket
<1> HIDE DEF d
<1>3. /\ [bs EXCEPT ![key] = d] \in [Keys -> Bucket]
      /\ [bs EXCEPT ![key] = d][key] = d
      /\ \A other \in Keys : other # key => [bs EXCEPT ![key] = d][other] = bs[other]
  BY <1>2
<1> QED
  BY <1>1, <1>3 DEF d

LEMMA CountedTracks ==
  ASSUME NEW bs \in [Keys -> Bucket], NEW key \in Keys, now \in Nat, Admits(bs, key),
         IsFiniteSet(Tracked(bs)), Cardinality(Tracked(bs)) <= MaxKeys
  PROVE  /\ IsFiniteSet(Tracked(Counted(bs, key)))
         /\ Cardinality(Tracked(Counted(bs, key))) <= MaxKeys
<1>1. Bumped(bs[key], WindowOf[key[1]], now) # NoBucket
  BY DEF Bumped, NoBucket, Bucket
<1>2. Tracked(Counted(bs, key)) = Tracked(bs) \cup {key}
  BY <1>1, CountedIs DEF Tracked
<1>3. /\ IsFiniteSet(Tracked(bs) \cup {key})
      /\ Cardinality(Tracked(bs) \cup {key}) = IF key \in Tracked(bs) THEN Cardinality(Tracked(bs)) ELSE Cardinality(Tracked(bs)) + 1
  BY FS_AddElement
<1>4. Cardinality(Tracked(bs)) \in Nat /\ MaxKeys \in Nat
  BY FS_CardinalityType, RateConstantsAssumption
<1>5. key \notin Tracked(bs) => Cardinality(Tracked(bs)) < MaxKeys
  BY DEF Admits, Tracked
<1> QED
  BY <1>2, <1>3, <1>4, <1>5

LEMMA RatesInvMeans ==
  ASSUME RatesInv
  PROVE  RatesTypeOK /\ RatesAreFair
<1>1. RatesTypeOK
  <2>1. ASSUME NEW key \in Keys
        PROVE  /\ buckets[key].count \in 0..MaxFor(key)
               /\ buckets[key].until \in 0..(MaxNow + WindowOf[key[1]])
    <3> DEFINE b == buckets[key]
               q == counted[key]
               W == WindowOf[key[1]]
               M == MaxFor(key)
    <3>1. Fair(b, q, M, W, now) /\ now \in 0..MaxNow /\ MaxNow \in Nat
      BY RateConstantsAssumption DEF RatesInv
    <3>2. M \in Nat \ {0} /\ W \in Nat \ {0}
      BY KeyConstants
    <3> HIDE DEF b, q, W, M
    <3>3. CASE b = NoBucket
      <4>1. b.count = 0 /\ b.until = 0
        BY <3>3 DEF NoBucket
      <4>2. b.count \in 0..M /\ b.until \in 0..(MaxNow + W)
        BY <3>1, <3>2, <4>1
      <4> QED
        BY <4>2 DEF b, M, W
    <3>4. CASE b # NoBucket
      <4>1. b.count \in 1..M /\ b.count <= Len(q) /\ b.until = q[Len(q) - b.count + 1] + W
        BY <3>1, <3>4 DEF Fair
      <4>2. Len(q) \in Nat /\ Len(q) - b.count + 1 \in 1..Len(q)
        <5>1. Len(q) \in Nat
          BY <3>1 DEF Fair
        <5> QED
          BY <3>2, <4>1, <5>1
      <4>3. q[Len(q) - b.count + 1] \in Nat /\ q[Len(q) - b.count + 1] <= now
        BY <3>1, <4>2 DEF Fair
      <4>4. b.count \in 0..M /\ b.until \in 0..(MaxNow + W)
        BY <3>1, <3>2, <4>1, <4>3
      <4> QED
        BY <4>4 DEF b, M, W
    <3> QED
      BY <3>3, <3>4
  <2> QED
    BY <2>1 DEF RatesTypeOK, RatesInv
<1>2. RateIsBounded
  <2> SUFFICES ASSUME NEW key \in Keys
               PROVE  \A i, j \in DOMAIN counted[key] :
                        j - i >= 2 * MaxFor(key) - 1 => counted[key][i] + WindowOf[key[1]] <= counted[key][j]
    BY DEF RateIsBounded
  <2>1. Fair(buckets[key], counted[key], MaxFor(key), WindowOf[key[1]], now)
    BY DEF RatesInv
  <2>2. DOMAIN counted[key] = 1..Len(counted[key])
    BY <2>1 DEF Fair
  <2> QED
    BY <2>1, <2>2 DEF Fair
<1>3. QuietIsAdmitted
  <2> SUFFICES ASSUME \A key \in Keys : \A i \in DOMAIN counted[key] : counted[key][i] + WindowOf[key[1]] <= now
               PROVE  \A key \in Keys : Admits(PrunedBuckets(buckets), key)
    BY DEF QuietIsAdmitted
  <2>1. ASSUME NEW key \in Keys PROVE PrunedBuckets(buckets)[key] = NoBucket
    <3> DEFINE b == buckets[key]
               q == counted[key]
    <3>1. PrunedBuckets(buckets)[key] = IF b.until <= now THEN NoBucket ELSE b
      BY DEF PrunedBuckets
    <3>2. Fair(b, q, MaxFor(key), WindowOf[key[1]], now)
      BY DEF RatesInv
    <3>3. \A i \in DOMAIN q : q[i] + WindowOf[key[1]] <= now
      OBVIOUS
    <3>4. MaxFor(key) \in Nat
      BY KeyConstants
    <3> HIDE DEF b, q
    <3>5. CASE b # NoBucket
      <4>1. b.count \in 1..MaxFor(key) /\ b.count <= Len(q) /\ b.until = q[Len(q) - b.count + 1] + WindowOf[key[1]]
        BY <3>2, <3>5 DEF Fair
      <4>2. Len(q) \in Nat /\ DOMAIN q = 1..Len(q)
        BY <3>2 DEF Fair
      <4>3. Len(q) - b.count + 1 \in 1..Len(q)
        BY <3>4, <4>1, <4>2
      <4> QED
        BY <3>1, <3>3, <4>1, <4>2, <4>3
    <3> QED
      BY <3>1, <3>5
  <2>2. Tracked(PrunedBuckets(buckets)) = {}
    BY <2>1 DEF Tracked
  <2>3. Cardinality(Tracked(PrunedBuckets(buckets))) < MaxKeys
    BY <2>2, FS_EmptySet, RateConstantsAssumption
  <2>4. ASSUME NEW key \in Keys PROVE PrunedBuckets(buckets)[key].count < MaxFor(key)
    <3>1. PrunedBuckets(buckets)[key].count = 0
      BY <2>1 DEF NoBucket
    <3> QED
      BY <3>1, KeyConstants
  <2> QED
    BY <2>3, <2>4 DEF Admits
<1> QED
  BY <1>1, <1>2, <1>3 DEF RatesAreFair

LEMMA RatesInitHolds ==
  ASSUME RatesInit
  PROVE  RatesInv
<1>1. /\ now = 0 /\ buckets = [key \in Keys |-> NoBucket] /\ counted = [key \in Keys |-> <<>>]
  BY DEF RatesInit
<1>2. now \in 0..MaxNow
  BY <1>1, RateConstantsAssumption
<1>3. NoBucket \in Bucket
  BY DEF NoBucket, Bucket
<1>4. <<>> \in Seq(Nat) /\ Len(<<>>) = 0
  OBVIOUS
<1>5. ASSUME NEW M, NEW W PROVE Fair(NoBucket, <<>>, M, W, now)
  BY <1>4 DEF Fair
<1>6. Tracked(buckets) = {}
  BY <1>1 DEF Tracked
<1>7. IsFiniteSet(Tracked(buckets)) /\ Cardinality(Tracked(buckets)) <= MaxKeys
  BY <1>6, FS_EmptySet, RateConstantsAssumption
<1>8. \A key \in Keys : Fair(buckets[key], counted[key], MaxFor(key), WindowOf[key[1]], now)
  <2>1. \A key \in Keys : buckets[key] = NoBucket /\ counted[key] = <<>>
    BY <1>1
  <2> QED
    BY <1>5, <2>1
<1>9. buckets \in [Keys -> Bucket] /\ counted \in [Keys -> Seq(Nat)]
  BY <1>1, <1>3, <1>4
<1> QED
  BY <1>2, <1>7, <1>8, <1>9 DEF RatesInv

LEMMA AttemptKeeps ==
  ASSUME RatesInv, NEW source \in Sources, NEW scope \in RateScopes, Attempt(source, scope)
  PROVE  RatesInv'
<1> DEFINE p == PrunedBuckets(buckets)
           mine == <<scope, source>>
           all == <<scope, "global">>
           one == Counted(p, mine)
           bySource == Admits(p, mine)
           byBoth == bySource /\ Admits(one, all)
           Bump(key) == (key = mine /\ bySource) \/ (key = all /\ byBoth)
<1>1. /\ buckets' = IF byBoth THEN Counted(one, all) ELSE IF bySource THEN one ELSE p
      /\ counted' = [key \in Keys |-> IF Bump(key) THEN Append(counted[key], now) ELSE counted[key]]
      /\ now' = now
  BY DEF Attempt
<1>2. mine \in Keys /\ all \in Keys /\ mine # all
  BY RateConstantsAssumption DEF Keys
<1>3. /\ p \in [Keys -> Bucket]
      /\ \A key \in Keys : Fair(p[key], counted[key], MaxFor(key), WindowOf[key[1]], now)
      /\ IsFiniteSet(Tracked(p)) /\ Cardinality(Tracked(p)) <= MaxKeys
  BY PrunedIs
<1>4. now \in Nat /\ now \in 0..MaxNow /\ counted \in [Keys -> Seq(Nat)]
  BY RateConstantsAssumption DEF RatesInv
<1> HIDE DEF p, mine, all
<1>5. /\ one \in [Keys -> Bucket]
      /\ one[mine] = Bumped(p[mine], WindowOf[mine[1]], now)
      /\ \A key \in Keys : key # mine => one[key] = p[key]
      /\ bySource => IsFiniteSet(Tracked(one)) /\ Cardinality(Tracked(one)) <= MaxKeys
  BY <1>2, <1>3, <1>4, CountedIs, CountedTracks
<1> HIDE DEF one
<1>6. /\ Counted(one, all) \in [Keys -> Bucket]
      /\ Counted(one, all)[all] = Bumped(one[all], WindowOf[all[1]], now)
      /\ \A key \in Keys : key # all => Counted(one, all)[key] = one[key]
      /\ byBoth => IsFiniteSet(Tracked(Counted(one, all))) /\ Cardinality(Tracked(Counted(one, all))) <= MaxKeys
  BY <1>2, <1>4, <1>5, CountedIs, CountedTracks
<1>7. /\ buckets' \in [Keys -> Bucket]
      /\ IsFiniteSet(Tracked(buckets')) /\ Cardinality(Tracked(buckets')) <= MaxKeys
  <2> HIDE DEF byBoth, bySource
  <2>1. byBoth => bySource
    BY DEF byBoth
  <2> QED
    BY <1>1, <1>3, <1>5, <1>6
<1>8. \A key \in Keys : buckets'[key] = IF Bump(key) THEN Bumped(p[key], WindowOf[key[1]], now) ELSE p[key]
  <2> SUFFICES ASSUME NEW key \in Keys
               PROVE  buckets'[key] = IF Bump(key) THEN Bumped(p[key], WindowOf[key[1]], now) ELSE p[key]
    OBVIOUS
  <2>1. byBoth => bySource
    OBVIOUS
  <2> HIDE DEF byBoth, bySource
  <2>2. CASE byBoth
    BY <1>1, <1>2, <1>5, <1>6, <2>1, <2>2
  <2>3. CASE ~byBoth /\ bySource
    BY <1>1, <1>2, <1>5, <2>3
  <2>4. CASE ~byBoth /\ ~bySource
    BY <1>1, <2>4
  <2> QED
    BY <2>2, <2>3, <2>4
<1>9. \A key \in Keys : Bump(key) => p[key].count < MaxFor(key)
  <2>1. bySource => p[mine].count < MaxFor(mine)
    BY DEF Admits
  <2>2. byBoth => p[all].count < MaxFor(all)
    BY <1>2, <1>5 DEF Admits
  <2> HIDE DEF byBoth, bySource
  <2> QED
    BY <2>1, <2>2
<1> HIDE DEF Bump
<1>10. \A key \in Keys : Fair(buckets'[key], counted'[key], MaxFor(key), WindowOf[key[1]], now)
  <2> SUFFICES ASSUME NEW key \in Keys
               PROVE  Fair(buckets'[key], counted'[key], MaxFor(key), WindowOf[key[1]], now)
    OBVIOUS
  <2>1. MaxFor(key) \in Nat \ {0} /\ WindowOf[key[1]] \in Nat \ {0} /\ p[key] \in [count : Nat, until : Nat]
    BY <1>3, KeyConstants DEF Bucket
  <2>2. CASE Bump(key)
    <3>1. Fair(Bumped(p[key], WindowOf[key[1]], now), Append(counted[key], now), MaxFor(key), WindowOf[key[1]], now)
      BY <1>3, <1>4, <1>9, <2>1, <2>2, FairCounted
    <3> QED
      BY <1>1, <1>8, <2>2, <3>1
  <2>3. CASE ~Bump(key)
    BY <1>1, <1>3, <1>8, <2>3
  <2> QED
    BY <2>2, <2>3
<1>11. counted' \in [Keys -> Seq(Nat)]
  <2>1. \A key \in Keys : Append(counted[key], now) \in Seq(Nat)
    BY <1>4
  <2> QED
    BY <1>1, <1>4, <2>1
<1> QED
  BY <1>1, <1>4, <1>7, <1>10, <1>11 DEF RatesInv, Tracked

LEMMA RatesStep ==
  ASSUME RatesInv, [RatesNext]_rateVars
  PROVE  RatesInv'
<1>1. CASE TimePasses
  <2>1. now < MaxNow /\ now' = now + 1 /\ buckets' = buckets /\ counted' = counted
    BY <1>1 DEF TimePasses
  <2>2. now \in Nat /\ now' \in 0..MaxNow
    BY <2>1, RateConstantsAssumption DEF RatesInv
  <2>3. \A key \in Keys : Fair(buckets[key], counted[key], MaxFor(key), WindowOf[key[1]], now')
    BY <2>1, <2>2, KeyConstants, FairLater DEF RatesInv
  <2>4. Tracked(buckets)' = Tracked(buckets)
    BY <2>1 DEF Tracked
  <2> QED
    BY <2>1, <2>2, <2>3, <2>4 DEF RatesInv
<1>2. ASSUME NEW source \in Sources, NEW scope \in RateScopes, Attempt(source, scope) PROVE RatesInv'
  BY <1>2, AttemptKeeps
<1>3. CASE UNCHANGED rateVars
  <2>1. now' = now /\ buckets' = buckets /\ counted' = counted
    BY <1>3 DEF rateVars
  <2>2. Tracked(buckets)' = Tracked(buckets)
    BY <2>1 DEF Tracked
  <2> QED
    BY <2>1, <2>2 DEF RatesInv
<1> QED
  BY <1>1, <1>2, <1>3 DEF RatesNext

-----------------------------------------------------------------------------
(* The three parts hold what they hold independently of each other.        *)
LEMMA LimitsInvAlways == EventsSpec => [](IdleJournalsBounded /\ FramesInv /\ RatesInv)
<1>1. EventsInit => IdleJournalsBounded /\ FramesInv /\ RatesInv
  <2> SUFFICES ASSUME EventsInit PROVE IdleJournalsBounded /\ FramesInv /\ RatesInv
    OBVIOUS
  <2>1. Len(journals) = 0 /\ MaxJournals \in Nat
    BY ConstantsAssumption DEF EventsInit, Init
  <2>2. IdleJournalsBounded
    BY <2>1 DEF IdleJournalsBounded
  <2>3. FramesInv /\ RatesInv
    BY FramesInitHolds, RatesInitHolds DEF EventsInit
  <2> QED
    BY <2>2, <2>3
<1>2. HubInv /\ (IdleJournalsBounded /\ FramesInv /\ RatesInv) /\ [EventsNext]_eventsVars
        => (IdleJournalsBounded /\ FramesInv /\ RatesInv)'
  <2> SUFFICES ASSUME HubInv, IdleJournalsBounded, FramesInv, RatesInv, [EventsNext]_eventsVars
               PROVE  IdleJournalsBounded' /\ FramesInv' /\ RatesInv'
    OBVIOUS
  <2>1. [Next]_vars /\ [FramesNext]_frameVars /\ [RatesNext]_rateVars
    BY DEF EventsNext, HubMoves, FramesMove, RatesMove, eventsVars
  <2> QED
    BY <2>1, IdleStep, FramesStep, RatesStep
<1> QED
  BY <1>1, <1>2, HubInvAlways, PTL DEF EventsSpec

(* What is kept for clients that are away is bounded, the end of a stream  *)
(* stays among the pending frames whatever is trimmed, and the attempts    *)
(* that are admitted keep to the limit of their windows.                   *)
THEOREM LimitsAlwaysHold == EventsSpec => []LimitsHold
<1>1. IdleJournalsBounded /\ FramesInv /\ RatesInv => LimitsHold
  BY FramesInvMeans, RatesInvMeans DEF LimitsHold
<1> QED
  BY <1>1, LimitsInvAlways, PTL
===============================================================================
