------------------------ MODULE PriorityQueueProofs ------------------------
(***************************************************************************)
(* Proofs about PriorityQueue, for every set of elements, every set of     *)
(* keys and every number of buckets: the queue stays well formed and       *)
(* implements KeyedQueue.                                                  *)
(***************************************************************************)
EXTENDS PriorityQueue, FiniteSetTheorems, TLAPS

Inv == TypeOK /\ WellFormed

\* A list that holds nothing twice.
Once(s) == \A i, j \in DOMAIN s : s[i] = s[j] => i = j

-----------------------------------------------------------------------------
(* Lists. *)

LEMMA AppendFacts ==
    ASSUME NEW s \in Seq(Elem), NEW e \in Elem
    PROVE  /\ Append(s, e) \in Seq(Elem)
           /\ Range(Append(s, e)) = Range(s) \cup {e}
           /\ e \notin Range(s) /\ Once(s) => Once(Append(s, e))
           /\ Append(s, e) # << >>
<1> DEFINE t == Append(s, e)
<1>1. /\ t \in Seq(Elem) /\ Len(t) = Len(s) + 1
      /\ \A i \in 1..Len(s) : t[i] = s[i]
      /\ t[Len(s) + 1] = e
  OBVIOUS
<1>2. Range(t) = Range(s) \cup {e}
  BY <1>1 DEF Range
<1>3. ASSUME e \notin Range(s), Once(s) PROVE Once(t)
  BY <1>1, <1>3 DEF Range, Once
<1>4. t # << >>
  BY <1>1
<1> QED BY <1>1, <1>2, <1>3, <1>4

LEMMA ConcatFacts ==
    ASSUME NEW s \in Seq(Elem), NEW t \in Seq(Elem)
    PROVE  /\ s \o t \in Seq(Elem)
           /\ Range(s \o t) = Range(s) \cup Range(t)
           /\ Once(s) /\ Once(t) /\ Range(s) \cap Range(t) = {} => Once(s \o t)
<1> DEFINE u == s \o t
<1>1. /\ u \in Seq(Elem) /\ Len(u) = Len(s) + Len(t)
      /\ \A i \in 1..Len(u) : u[i] = IF i <= Len(s) THEN s[i] ELSE t[i - Len(s)]
  OBVIOUS
<1>2. Range(u) \subseteq Range(s) \cup Range(t)
  BY <1>1 DEF Range
<1>3. Range(s) \subseteq Range(u)
  BY <1>1 DEF Range
<1>4. ASSUME NEW i \in DOMAIN t PROVE t[i] \in Range(u)
  <2>1. Len(s) + i \in DOMAIN u /\ u[Len(s) + i] = t[i]
    BY <1>1
  <2> QED BY <2>1 DEF Range
<1>5. Range(t) \subseteq Range(u)
  BY <1>4 DEF Range
<1>6. ASSUME Once(s), Once(t), Range(s) \cap Range(t) = {} PROVE Once(u)
  <2>1. SUFFICES ASSUME NEW i \in 1..Len(u), NEW j \in 1..Len(u), u[i] = u[j]
                 PROVE  i = j
    BY <1>1 DEF Once
  <2>2. CASE i <= Len(s) /\ j <= Len(s)
    BY <1>1, <1>6, <2>1, <2>2 DEF Once
  <2>3. CASE i > Len(s) /\ j > Len(s)
    <3>1. t[i - Len(s)] = t[j - Len(s)]
      BY <1>1, <2>1, <2>3
    <3>2. i - Len(s) \in DOMAIN t /\ j - Len(s) \in DOMAIN t
      BY <1>1, <2>3
    <3>3. i - Len(s) = j - Len(s)
      BY <1>6, <3>1, <3>2 DEF Once
    <3> QED BY <1>1, <3>3
  <2>4. CASE i <= Len(s) /\ j > Len(s)
    <3>1. s[i] \in Range(s) /\ t[j - Len(s)] \in Range(t)
      BY <1>1, <2>4 DEF Range
    <3> QED BY <1>1, <1>6, <2>1, <2>4, <3>1
  <2>5. CASE i > Len(s) /\ j <= Len(s)
    <3>1. s[j] \in Range(s) /\ t[i - Len(s)] \in Range(t)
      BY <1>1, <2>5 DEF Range
    <3> QED BY <1>1, <1>6, <2>1, <2>5, <3>1
  <2> QED BY <1>1, <2>2, <2>3, <2>4, <2>5
<1> QED BY <1>1, <1>2, <1>3, <1>5, <1>6

LEMMA WithoutFacts ==
    ASSUME NEW s \in Seq(Elem), Once(s), NEW i \in DOMAIN s
    PROVE  /\ Without(s, i) \in Seq(Elem)
           /\ Len(Without(s, i)) = Len(s) - 1
           /\ Range(Without(s, i)) = Range(s) \ {s[i]}
           /\ Once(Without(s, i))
<1> DEFINE t == Without(s, i)
<1>1. /\ t \in Seq(Elem) /\ Len(t) = Len(s) - 1
      /\ \A j \in 1..Len(t) : t[j] = IF j < i THEN s[j] ELSE s[j + 1]
  BY DEF Without
<1>2. Range(t) \subseteq Range(s) \ {s[i]}
  BY <1>1 DEF Range, Once
<1>3. ASSUME NEW j \in DOMAIN s, j # i PROVE s[j] \in Range(t)
  <2>1. CASE j < i
    BY <1>1, <1>3, <2>1 DEF Range
  <2>2. CASE j > i
    <3>1. j - 1 \in DOMAIN t /\ t[j - 1] = s[j]
      BY <1>1, <1>3, <2>2
    <3> QED BY <3>1 DEF Range
  <2> QED BY <1>3, <2>1, <2>2
<1>4. Range(s) \ {s[i]} \subseteq Range(t)
  BY <1>3 DEF Range
<1>5. Once(t)
  BY SMTT(30), <1>1 DEF Once
<1> QED BY <1>1, <1>2, <1>4, <1>5

LEMMA FillHoleFacts ==
    ASSUME NEW s \in Seq(Elem), Once(s), NEW i \in DOMAIN s
    PROVE  /\ FillHole(s, i) \in Seq(Elem)
           /\ Len(FillHole(s, i)) = Len(s) - 1
           /\ Range(FillHole(s, i)) = Range(s) \ {s[i]}
<1> DEFINE t == FillHole(s, i)
<1>1. /\ t \in Seq(Elem) /\ Len(t) = Len(s) - 1
      /\ \A j \in 1..Len(t) : t[j] = IF j = i THEN s[Len(s)] ELSE s[j]
  BY DEF FillHole
<1>2. Range(t) \subseteq Range(s) \ {s[i]}
  BY <1>1 DEF Range, Once
<1>3. ASSUME NEW j \in DOMAIN s, j # i PROVE s[j] \in Range(t)
  <2>1. CASE j < Len(s)
    <3>1. j \in DOMAIN t /\ t[j] = s[j]
      BY <1>1, <1>3, <2>1
    <3> QED BY <3>1 DEF Range
  <2>2. CASE j = Len(s)
    <3>1. i \in DOMAIN t /\ t[i] = s[j]
      BY <1>1, <1>3, <2>2
    <3> QED BY <3>1 DEF Range
  <2> QED BY <2>1, <2>2
<1>4. Range(s) \ {s[i]} \subseteq Range(t)
  BY <1>3 DEF Range
<1> QED BY <1>1, <1>2, <1>4

LEMMA ElemFinite ==
    ASSUME NEW S \in SUBSET Elem
    PROVE  IsFiniteSet(S) /\ Cardinality(S) \in Nat
BY FS_Subset, FS_CardinalityType, ElemAssumption

LEMMA OrdersFacts ==
    ASSUME NEW S \in SUBSET Elem, NEW s \in Orders(S)
    PROVE  s \in Seq(Elem) /\ Range(s) = S /\ Once(s)
<1>1. Cardinality(S) \in Nat
  BY ElemFinite
<1>2. s \in [1..Cardinality(S) -> S]
  BY DEF Orders
<1>3. s \in Seq(Elem)
  BY <1>1, <1>2
<1>4. Range(s) \subseteq S
  BY <1>2 DEF Range
<1>5. S \subseteq Range(s)
  BY <1>2 DEF Range, Orders
<1>6. Once(s)
  BY DEF Orders, Once
<1> QED BY <1>3, <1>4, <1>5, <1>6

-----------------------------------------------------------------------------
(* The buckets. *)

\* An element is in the bucket of its key, at its position, and nowhere else.
LEMMA PlaceFacts ==
    ASSUME Inv
    PROVE  /\ \A e \in InBuckets : /\ e \in Elem
                                   /\ key[e] \in Buckets
                                   /\ pos[e] + 1 \in DOMAIN bucket[key[e]]
                                   /\ bucket[key[e]][pos[e] + 1] = e
           /\ \A k \in Buckets : Once(bucket[k])
<1> USE DEF Inv, TypeOK, WellFormed
<1>1. ASSUME NEW e \in InBuckets
      PROVE  /\ e \in Elem
             /\ key[e] \in Buckets
             /\ pos[e] + 1 \in DOMAIN bucket[key[e]]
             /\ bucket[key[e]][pos[e] + 1] = e
  <2>1. PICK k \in Buckets : e \in Range(bucket[k])
    BY DEF InBuckets
  <2>2. PICK i \in DOMAIN bucket[k] : bucket[k][i] = e
    BY <2>1 DEF Range
  <2>3. bucket[k] \in Seq(Elem) /\ i \in 1..Len(bucket[k])
    BY <2>2
  <2>4. key[e] = k /\ pos[e] = i - 1
    BY <2>2 DEF PlacesKnown
  <2> QED BY <2>2, <2>3, <2>4
<1>2. ASSUME NEW k \in Buckets PROVE Once(bucket[k])
  <2>1. bucket[k] \in Seq(Elem)
    OBVIOUS
  <2> QED BY <2>1 DEF PlacesKnown, Once
<1> QED BY <1>1, <1>2

\* While the buckets are used nothing is in the heap.
LEMMA HeapUnused ==
    ASSUME Inv, inBuckets
    PROVE  /\ root = << >>
           /\ \A e \in Elem : parent[e] = None
           /\ step = "idle"
           /\ Held = InBuckets
<1>1. InHeap = {} /\ step = "idle"
  BY DEF Inv, WellFormed, OneStructure
<1>2. Range(root) = {} /\ \A e \in Elem : parent[e] = None
  BY <1>1 DEF InHeap
<1>3. root = << >>
  <2>1. SUFFICES ASSUME root # << >> PROVE FALSE
    OBVIOUS
  <2>2. root \in Seq(Elem)
    BY DEF Inv, TypeOK
  <2>3. 1 \in DOMAIN root
    BY <2>1, <2>2
  <2> QED BY <1>2, <2>3 DEF Range
<1> QED BY <1>1, <1>2, <1>3 DEF Held

\* What some buckets hold.
Content(b) == UNION {Range(b[j]) : j \in Buckets}

LEMMA ContentIsInBuckets == InBuckets = Content(bucket) /\ InBuckets' = Content(bucket')
BY DEF InBuckets, Content, Buckets

\* Putting an element that is in none of the buckets into the one of its key.
Fits(b, n, low, p, e) ==
    /\ \A j \in Buckets : e \notin Range(b[j])
    /\ \A j \in Buckets : \A i \in DOMAIN b[j] :
          key[b[j][i]] = j /\ p[b[j][i]] = i - 1
    /\ \A j \in Buckets : b[j] # << >> => low <= j
    /\ n = Cardinality(Content(b))

LEMMA BucketPutFacts ==
    ASSUME NEW b \in [Buckets -> Seq(Elem)], NEW n \in Nat,
           NEW low \in 0..BucketSize, NEW p \in [Elem -> Nat],
           NEW e \in Elem, NEW k \in Buckets,
           key \in [Elem -> Nat],
           Fits(b, n, low, p, e),
           BucketPut(e, k, b, n, low, p)
    PROVE  /\ bucket' \in [Buckets -> Seq(Elem)]
           /\ size' \in Nat /\ lowest' \in 0..BucketSize
           /\ key' \in [Elem -> Nat] /\ pos' \in [Elem -> Nat]
           /\ PlacesKnown' /\ NothingBelow' /\ SizeRight'
           /\ InBuckets' = Content(b) \cup {e}
<1> DEFINE S == Content(b)
<1> USE DEF Content, Fits
<1>1. /\ bucket' = [b EXCEPT ![k] = Append(@, e)]
      /\ pos' = [p EXCEPT ![e] = Len(b[k])]
      /\ key' = [key EXCEPT ![e] = k]
      /\ size' = n + 1
      /\ lowest' = IF k < low THEN k ELSE low
  BY DEF BucketPut
<1>2. BucketSize \in Nat /\ k \in Nat /\ k < BucketSize
  BY SizeAssumption DEF Buckets
<1>3. Append(b[k], e) \in Seq(Elem) /\ Range(Append(b[k], e)) = Range(b[k]) \cup {e}
  BY AppendFacts
<1>4. bucket' \in [Buckets -> Seq(Elem)]
  BY <1>1, <1>3
<1>5. \A j \in Buckets : bucket'[j] = IF j = k THEN Append(b[k], e) ELSE b[j]
  BY <1>1
<1>6. /\ size' \in Nat /\ lowest' \in 0..BucketSize
      /\ key' \in [Elem -> Nat] /\ pos' \in [Elem -> Nat]
  BY <1>1, <1>2
<1>7. InBuckets' = S \cup {e}
  <2>1. InBuckets' = UNION {Range(bucket'[j]) : j \in Buckets}
    BY DEF InBuckets, Buckets
  <2>2. \A j \in Buckets : Range(bucket'[j]) = IF j = k THEN Range(b[k]) \cup {e} ELSE Range(b[j])
    BY <1>3, <1>5
  <2>3. ASSUME NEW x \in InBuckets' PROVE x \in S \cup {e}
    <3>1. PICK j \in Buckets : x \in Range(bucket'[j])
      BY <2>1, <2>3
    <3>2. CASE j = k
      BY <2>2, <3>1, <3>2
    <3>3. CASE j # k
      BY <2>2, <3>1, <3>3
    <3> QED BY <3>2, <3>3
  <2>4. ASSUME NEW x \in S PROVE x \in InBuckets'
    <3>1. PICK j \in Buckets : x \in Range(b[j])
      OBVIOUS
    <3>2. x \in Range(bucket'[j])
      BY <2>2, <3>1
    <3> QED BY <2>1, <3>2
  <2>5. e \in InBuckets'
    BY <2>1, <2>2
  <2> QED BY <2>3, <2>4, <2>5
<1>8. PlacesKnown'
  <2>1. SUFFICES ASSUME NEW j \in Buckets, NEW i \in DOMAIN bucket'[j]
                 PROVE  key'[bucket'[j][i]] = j /\ pos'[bucket'[j][i]] = i - 1
    <3>1. Buckets' = Buckets
      BY DEF Buckets
    <3> QED BY <3>1 DEF PlacesKnown
  <2> DEFINE q == Append(b[k], e)
  <2>4. /\ b[k] \in Seq(Elem) /\ q \in Seq(Elem) /\ Len(q) = Len(b[k]) + 1
        /\ \A l \in 1..Len(b[k]) : q[l] = b[k][l]
        /\ q[Len(b[k]) + 1] = e
    OBVIOUS
  <2>5. j = k => bucket'[j] = q
    BY <1>5
  <2> HIDE DEF q
  <2>2. CASE j = k /\ i = Len(b[k]) + 1
    <3>1. bucket'[j][i] = e
      BY <2>2, <2>4, <2>5
    <3> QED BY <1>1, <2>2, <2>4, <3>1
  <2>3. CASE ~(j = k /\ i = Len(b[k]) + 1)
    <3>1. i \in DOMAIN b[j] /\ bucket'[j][i] = b[j][i]
      <4>1. CASE j = k
        <5>1. i \in 1..Len(b[k]) + 1 /\ i # Len(b[k]) + 1
          BY <2>1, <2>3, <2>4, <2>5, <4>1
        <5>2. i \in 1..Len(b[k])
          BY <2>4, <5>1
        <5>3. DOMAIN b[k] = 1..Len(b[k])
          BY <2>4
        <5>4. bucket'[j][i] = q[i] /\ q[i] = b[k][i]
          BY <2>4, <2>5, <4>1, <5>2
        <5> QED BY <4>1, <5>2, <5>3, <5>4
      <4>2. CASE j # k
        BY <1>5, <2>1, <4>2
      <4> QED BY <4>1, <4>2
    <3>2. b[j][i] # e /\ b[j][i] \in Elem
      BY <3>1 DEF Range
    <3> QED BY SMTT(30), <1>1, <3>1, <3>2
  <2> QED BY <2>2, <2>3
<1>9. NothingBelow'
  <2>1. SUFFICES ASSUME NEW j \in Buckets, bucket'[j] # << >>
                 PROVE  lowest' <= j
    BY DEF NothingBelow, Buckets
  <2>2. j \in Nat
    BY <1>2 DEF Buckets
  <2> QED BY <1>1, <1>2, <1>5, <2>1, <2>2
<1>10. SizeRight'
  <2>1. S \in SUBSET Elem
    BY DEF Range
  <2>2. e \notin S
    OBVIOUS
  <2>3. Cardinality(S \cup {e}) = Cardinality(S) + 1
    BY <2>1, <2>2, ElemFinite, FS_AddElement
  <2> QED BY <1>1, <1>7, <2>3 DEF SizeRight
<1> QED BY <1>1, <1>4, <1>6, <1>7, <1>8, <1>9, <1>10

\* A step on the buckets leaves the unused heap well formed.
LEMMA StillBuckets ==
    ASSUME Inv, inBuckets, UNCHANGED inBuckets, UNCHANGED heapVars
    PROVE  /\ OneStructure' /\ ListsApart' /\ HeapOrder' /\ Rooted' /\ PopPhase'
           /\ Held' = InBuckets'
<1>1. /\ root' = << >> /\ step' = "idle" /\ inBuckets'
      /\ \A e \in Elem : parent'[e] = None
  BY HeapUnused DEF heapVars
<1>2. Range(root') = {}
  BY <1>1 DEF Range
<1>3. InHeap' = {}
  BY <1>1, <1>2 DEF InHeap
<1>4. OneStructure' /\ PopPhase'
  BY <1>1, <1>3 DEF OneStructure, PopPhase
<1>5. ListsApart' /\ HeapOrder'
  BY <1>1, <1>2 DEF ListsApart, HeapOrder
<1>6. Rooted'
  BY <1>3 DEF Rooted
<1>7. Held' = InBuckets'
  BY <1>3 DEF Held
<1> QED BY <1>4, <1>5, <1>6, <1>7

LEMMA BucketPushStep ==
    ASSUME Inv, NEW e \in Elem, NEW k \in Key, e \notin Held, BucketPush(e, k)
    PROVE  Inv' /\ Held' = Held \cup {e} /\ key' = [key EXCEPT ![e] = k]
<1> USE DEF BucketPush
<1>1. k \in Buckets
  BY KeyAssumption, SizeAssumption DEF Buckets
<1>2. Held = InBuckets
  BY HeapUnused
<1>3. \A j \in Buckets : e \notin Range(bucket[j])
  BY <1>2 DEF InBuckets
<1>4. /\ bucket \in [Buckets -> Seq(Elem)] /\ size \in Nat
      /\ lowest \in 0..BucketSize /\ pos \in [Elem -> Nat] /\ key \in [Elem -> Nat]
      /\ BucketPut(e, k, bucket, size, lowest, pos)
  BY DEF Inv, TypeOK
<1>5. Fits(bucket, size, lowest, pos, e)
  <2>1. size = Cardinality(Content(bucket))
    BY ContentIsInBuckets DEF Inv, WellFormed, SizeRight
  <2> QED BY <1>3, <2>1 DEF Inv, WellFormed, PlacesKnown, NothingBelow, Fits
<1>6. /\ bucket' \in [Buckets -> Seq(Elem)]
      /\ size' \in Nat /\ lowest' \in 0..BucketSize
      /\ key' \in [Elem -> Nat] /\ pos' \in [Elem -> Nat]
      /\ PlacesKnown' /\ NothingBelow' /\ SizeRight'
      /\ InBuckets' = InBuckets \cup {e}
  BY <1>1, <1>4, <1>5, BucketPutFacts, ContentIsInBuckets
<1>7. /\ OneStructure' /\ ListsApart' /\ HeapOrder' /\ Rooted' /\ PopPhase'
      /\ Held' = InBuckets'
  BY StillBuckets
<1>8. TypeOK'
  BY <1>6 DEF Inv, TypeOK, heapVars, Buckets
<1>9. key' = [key EXCEPT ![e] = k]
  BY DEF BucketPut
<1> QED BY <1>2, <1>6, <1>7, <1>8, <1>9 DEF Inv, WellFormed

LEMMA BucketUpdateStep ==
    ASSUME Inv, NEW e \in Elem, NEW k \in Key, e \in Held, BucketUpdate(e, k)
    PROVE  Inv' /\ Held' = Held /\ key' = [key EXCEPT ![e] = k]
<1> DEFINE l == key[e]
           s == bucket[l]
           t == FillHole(s, pos[e] + 1)
           b == [bucket EXCEPT ![l] = t]
           p == PosAfterHole(e)
           n == size - 1
           low == IF size = 1 THEN BucketSize ELSE lowest
<1>1. k \in Buckets /\ BucketSize \in Nat
  BY KeyAssumption, SizeAssumption DEF Buckets, BucketUpdate
<1>2. Held = InBuckets
  BY HeapUnused DEF BucketUpdate
<1>3. /\ bucket \in [Buckets -> Seq(Elem)] /\ size \in Nat
      /\ lowest \in 0..BucketSize /\ pos \in [Elem -> Nat] /\ key \in [Elem -> Nat]
  BY DEF Inv, TypeOK
<1>4. /\ l \in Buckets /\ pos[e] + 1 \in DOMAIN s /\ s[pos[e] + 1] = e /\ Once(s)
      /\ s \in Seq(Elem)
  BY <1>2, <1>3, PlaceFacts
<1>5. /\ t \in Seq(Elem) /\ Len(t) = Len(s) - 1 /\ Range(t) = Range(s) \ {e}
  BY <1>4, FillHoleFacts
<1>6. b \in [Buckets -> Seq(Elem)] /\ \A j \in Buckets : b[j] = IF j = l THEN t ELSE bucket[j]
  BY <1>3, <1>4, <1>5
<1>7. \A j \in Buckets : \A i \in DOMAIN bucket[j] :
          key[bucket[j][i]] = j /\ pos[bucket[j][i]] = i - 1
  BY DEF Inv, WellFormed, PlacesKnown
<1>8. ASSUME NEW j \in Buckets PROVE Range(b[j]) = Range(bucket[j]) \ {e}
  <2>1. CASE j = l
    BY <1>5, <1>6, <2>1
  <2>2. CASE j # l
    BY <1>6, <1>7, <2>2 DEF Range
  <2> QED BY <2>1, <2>2
<1>9. Len(s) \in Nat \ {0} /\ Len(s) \in DOMAIN s /\ s[Len(s)] \in Elem
  BY <1>4
<1>10. p = [pos EXCEPT ![s[Len(s)]] = pos[e]] /\ p \in [Elem -> Nat]
  BY <1>3, <1>9 DEF PosAfterHole
<1>11. ASSUME NEW j \in Buckets, NEW i \in DOMAIN b[j]
       PROVE  key[b[j][i]] = j /\ p[b[j][i]] = i - 1
  <2>1. CASE j # l
    <3>1. b[j] = bucket[j] /\ bucket[j][i] \in Elem
      BY <1>3, <1>6, <1>11, <2>1
    <3>2. bucket[j][i] # s[Len(s)]
      BY <1>4, <1>7, <1>9, <1>11, <2>1, <3>1
    <3> QED BY <1>3, <1>7, <1>10, <1>11, <3>1, <3>2
  <2>2. CASE j = l
    <3>1. /\ i \in 1..Len(s) - 1
          /\ b[j][i] = IF i = pos[e] + 1 THEN s[Len(s)] ELSE s[i]
      <4>1. b[j] = t
        BY <1>6, <2>2
      <4>2. i \in 1..Len(t)
        BY <1>5, <1>11, <4>1
      <4> QED BY <1>5, <4>1, <4>2 DEF FillHole
    <3>2. i \in DOMAIN s /\ s[i] \in Elem
      BY <1>4, <3>1
    <3>3. CASE i = pos[e] + 1
      BY <1>3, <1>4, <1>7, <1>9, <1>10, <2>2, <3>1, <3>2, <3>3
    <3>4. CASE i # pos[e] + 1
      <4>1. s[i] # s[Len(s)]
        BY <1>4, <1>9, <3>1, <3>2 DEF Once
      <4> QED BY SMTT(30), <1>3, <1>4, <1>7, <1>10, <2>2, <3>1, <3>2, <3>4, <4>1
    <3> QED BY <3>3, <3>4
  <2> QED BY <2>1, <2>2
<1>12. Content(b) = InBuckets \ {e}
  BY <1>8 DEF InBuckets, Content
<1>13. InBuckets \in SUBSET Elem /\ e \in InBuckets
  BY <1>2, PlaceFacts
<1>14. n = Cardinality(Content(b)) /\ n \in Nat
  <2>1. size = Cardinality(InBuckets)
    BY DEF Inv, WellFormed, SizeRight
  <2>2. Cardinality(InBuckets \ {e}) = Cardinality(InBuckets) - 1
    BY <1>13, ElemFinite, FS_RemoveElement
  <2>3. Cardinality(InBuckets \ {e}) \in Nat
    BY <1>13, ElemFinite
  <2> QED BY <1>12, <2>1, <2>2, <2>3
<1>15. ASSUME NEW j \in Buckets, b[j] # << >> PROVE low <= j
  <2>1. Range(b[j]) # {}
    <3>1. b[j] \in Seq(Elem)
      BY <1>6
    <3>2. 1 \in DOMAIN b[j]
      BY <1>15, <3>1
    <3> QED BY <3>2 DEF Range
  <2>2. size # 1
    <3>1. Content(b) # {}
      BY <2>1 DEF Content
    <3>2. Content(b) \in SUBSET Elem
      BY <1>12, <1>13
    <3>3. Cardinality(Content(b)) # 0
      BY <3>1, <3>2, ElemFinite, FS_EmptySet
    <3>4. n # 0
      BY <1>14, <3>3
    <3> QED BY <1>3, <3>4
  <2>3. bucket[j] # << >>
    <3>1. Range(bucket[j]) # {}
      BY <1>8, <2>1
    <3> QED BY <3>1 DEF Range
  <2>4. lowest <= j
    BY <2>3 DEF Inv, WellFormed, NothingBelow
  <2> QED BY <2>2, <2>4
<1>16. low \in 0..BucketSize
  BY <1>1, <1>3
<1>17. \A j \in Buckets : e \notin Range(b[j])
  BY <1>8
<1>18. BucketPut(e, k, b, n, low, p) /\ Fits(b, n, low, p, e)
  BY <1>11, <1>14, <1>15, <1>17 DEF BucketUpdate, Fits
<1> HIDE DEF b, p, n, low
<1>19. /\ bucket' \in [Buckets -> Seq(Elem)]
       /\ size' \in Nat /\ lowest' \in 0..BucketSize
       /\ key' \in [Elem -> Nat] /\ pos' \in [Elem -> Nat]
       /\ PlacesKnown' /\ NothingBelow' /\ SizeRight'
       /\ InBuckets' = Content(b) \cup {e}
  BY <1>1, <1>3, <1>6, <1>10, <1>14, <1>16, <1>18, BucketPutFacts
<1>20. InBuckets' = InBuckets
  BY <1>12, <1>13, <1>19
<1>21. /\ OneStructure' /\ ListsApart' /\ HeapOrder' /\ Rooted' /\ PopPhase'
       /\ Held' = InBuckets'
  BY StillBuckets DEF BucketUpdate
<1>22. TypeOK'
  BY <1>19 DEF Inv, TypeOK, heapVars, Buckets, BucketUpdate
<1>23. key' = [key EXCEPT ![e] = k]
  BY <1>18 DEF BucketPut
<1> QED BY <1>2, <1>19, <1>20, <1>21, <1>22, <1>23 DEF Inv, WellFormed

LEMMA BucketPopStep ==
    ASSUME Inv, BucketPop
    PROVE  /\ Inv'
           /\ \E e \in Held : /\ \A o \in Held : key[e] <= key[o]
                              /\ popped' = <<e, key[e]>>
                              /\ Held' = Held \ {e}
           /\ UNCHANGED key
<1> USE DEF BucketPop
<1>1. PICK k \in Buckets :
        /\ IsFirst(k)
        /\ lowest' = k
        /\ popped' = <<bucket[k][Len(bucket[k])], k>>
        /\ bucket' = [bucket EXCEPT ![k] = SubSeq(@, 1, Len(@) - 1)]
  OBVIOUS
<1> DEFINE s == bucket[k]
           e == s[Len(s)]
           t == SubSeq(s, 1, Len(s) - 1)
<1>2. /\ bucket \in [Buckets -> Seq(Elem)] /\ size \in Nat
      /\ lowest \in 0..BucketSize /\ pos \in [Elem -> Nat] /\ key \in [Elem -> Nat]
      /\ BucketSize \in Nat /\ k \in Nat /\ k < BucketSize
  BY SizeAssumption DEF Inv, TypeOK, Buckets
<1>3. s \in Seq(Elem) /\ s # << >> /\ Once(s)
  BY <1>1, <1>2, PlaceFacts DEF IsFirst
<1>4. Len(s) \in Nat \ {0} /\ Len(s) \in DOMAIN s /\ e \in Elem
  BY <1>3
<1>5. /\ t \in Seq(Elem) /\ Len(t) = Len(s) - 1
      /\ \A i \in 1..Len(t) : t[i] = s[i] /\ i \in DOMAIN s /\ i # Len(s)
  BY <1>3, <1>4
<1>6. Range(t) = Range(s) \ {e}
  <2>1. Range(t) \subseteq Range(s) \ {e}
    BY <1>3, <1>4, <1>5 DEF Range, Once
  <2>2. ASSUME NEW i \in DOMAIN s, s[i] # e PROVE s[i] \in Range(t)
    <3>1. i \in 1..Len(t)
      BY <1>3, <1>4, <1>5, <2>2
    <3> QED BY <1>5, <3>1 DEF Range
  <2> QED BY <2>1, <2>2 DEF Range
<1>7. /\ bucket' \in [Buckets -> Seq(Elem)]
      /\ \A j \in Buckets : bucket'[j] = IF j = k THEN t ELSE bucket[j]
  BY <1>1, <1>2, <1>5
<1> HIDE DEF t
<1>8. \A j \in Buckets : \A i \in DOMAIN bucket[j] :
          key[bucket[j][i]] = j /\ pos[bucket[j][i]] = i - 1
  BY DEF Inv, WellFormed, PlacesKnown
<1>9. key[e] = k
  BY <1>4, <1>8
<1>10. ASSUME NEW j \in Buckets PROVE Range(bucket'[j]) = Range(bucket[j]) \ {e}
  <2>1. CASE j = k
    BY <1>6, <1>7, <2>1
  <2>2. CASE j # k
    <3>1. e \notin Range(bucket[j])
      BY <1>8, <1>9, <2>2 DEF Range
    <3> QED BY <1>7, <2>2, <3>1
  <2> QED BY <2>1, <2>2
<1>11. Buckets' = Buckets
  BY DEF Buckets
<1>12. InBuckets' = InBuckets \ {e}
  <2>1. Content(bucket') = Content(bucket) \ {e}
    <3>1. ASSUME NEW x PROVE x \in Content(bucket') <=> x \in Content(bucket) \ {e}
      <4>1. x \in Content(bucket') <=> \E j \in Buckets : x \in Range(bucket'[j])
        BY DEF Content
      <4>2. x \in Content(bucket) <=> \E j \in Buckets : x \in Range(bucket[j])
        BY DEF Content
      <4> QED BY <1>10, <4>1, <4>2
    <3> QED BY <3>1
  <2> QED BY <2>1, ContentIsInBuckets
<1>13. e \in InBuckets /\ InBuckets \in SUBSET Elem
  <2>1. e \in Range(s)
    BY <1>4 DEF Range
  <2> QED BY <2>1, PlaceFacts DEF InBuckets
<1>14. SizeRight' /\ size' \in Nat
  <2>1. Cardinality(InBuckets \ {e}) = Cardinality(InBuckets) - 1
    BY SMTT(30), <1>13, ElemFinite, FS_RemoveElement
  <2>2. size = Cardinality(InBuckets)
    BY DEF Inv, WellFormed, SizeRight
  <2>3. size' = Cardinality(InBuckets')
    BY <1>12, <2>1, <2>2
  <2>4. size' \in Nat
    BY <1>2
  <2> QED BY <2>3, <2>4 DEF SizeRight
<1>15. PlacesKnown'
  <2>1. SUFFICES ASSUME NEW j \in Buckets, NEW i \in DOMAIN bucket'[j]
                 PROVE  key[bucket'[j][i]] = j /\ pos[bucket'[j][i]] = i - 1
    BY <1>11 DEF PlacesKnown
  <2>2. i \in DOMAIN bucket[j] /\ bucket'[j][i] = bucket[j][i]
    <3>1. CASE j = k
      BY <1>5, <1>7, <2>1, <3>1
    <3>2. CASE j # k
      BY <1>7, <2>1, <3>2
    <3> QED BY <3>1, <3>2
  <2> QED BY <1>8, <2>2
<1>16. ASSUME NEW j \in Buckets, bucket[j] # << >> PROVE k <= j
  <2>1. lowest <= j /\ j \in Nat
    BY <1>2, <1>16 DEF Inv, WellFormed, NothingBelow, Buckets
  <2> QED BY <1>1, <1>2, <1>16, <2>1 DEF IsFirst
<1>17. NothingBelow'
  <2>1. SUFFICES ASSUME NEW j \in Buckets, bucket'[j] # << >> PROVE k <= j
    BY <1>1, <1>11 DEF NothingBelow
  <2>2. CASE j = k
    BY <1>2, <2>2
  <2>3. CASE j # k
    BY <1>7, <1>16, <2>1, <2>3
  <2> QED BY <2>2, <2>3
<1>18. /\ OneStructure' /\ ListsApart' /\ HeapOrder' /\ Rooted' /\ PopPhase'
       /\ Held' = InBuckets'
  BY StillBuckets
<1>19. Held = InBuckets
  BY HeapUnused
<1>20. \A o \in Held : key[e] <= key[o]
  <2>1. SUFFICES ASSUME NEW o \in InBuckets PROVE k <= key[o]
    BY <1>9, <1>19
  <2>2. key[o] \in Buckets /\ pos[o] + 1 \in DOMAIN bucket[key[o]]
    BY PlaceFacts
  <2>3. bucket[key[o]] # << >>
    BY <2>2
  <2> QED BY <1>16, <2>2, <2>3
<1>21. TypeOK'
  <2>1. popped' \in Elem \X Nat
    BY <1>1, <1>2, <1>4
  <2>2. lowest' \in 0..BucketSize
    BY <1>1, <1>2
  <2> QED BY <1>7, <1>11, <1>14, <2>1, <2>2 DEF Inv, TypeOK, heapVars
<1> QED
  BY <1>1, <1>9, <1>12, <1>13, <1>14, <1>15, <1>17, <1>18, <1>19, <1>20, <1>21
     DEF Inv, WellFormed

-----------------------------------------------------------------------------
(* The heap. *)

\* While the heap is used the buckets are empty, and stay well formed.
LEMMA StillHeap ==
    ASSUME Inv, ~inBuckets, UNCHANGED <<inBuckets, bucketVars>>
    PROVE  /\ Held = InHeap /\ Held' = InHeap'
           /\ PlacesKnown' /\ NothingBelow' /\ SizeRight' /\ OneStructure'
<1>1. \A k \in Buckets : bucket[k] = << >>
  BY DEF Inv, WellFormed, OneStructure
<1>2. InBuckets = {}
  BY <1>1 DEF InBuckets, Range
<1>3. bucket' = bucket /\ size' = size /\ inBuckets' = inBuckets /\ Buckets' = Buckets
  BY DEF bucketVars, Buckets
<1>4. InBuckets' = {}
  BY <1>1, <1>3 DEF InBuckets, Range
<1>5. PlacesKnown' /\ NothingBelow' /\ OneStructure'
  BY <1>1, <1>3 DEF PlacesKnown, NothingBelow, OneStructure
<1>6. SizeRight'
  BY <1>2, <1>3, <1>4 DEF Inv, WellFormed, SizeRight
<1> QED BY <1>2, <1>4, <1>5, <1>6 DEF Held

LEMMA HeapTypes ==
    ASSUME Inv
    PROVE  /\ root \in Seq(Elem) /\ Once(root)
           /\ parent \in [Elem -> Elem \cup {None}] /\ key \in [Elem -> Nat]
           /\ Range(root) \subseteq InHeap /\ InHeap \subseteq Elem
           /\ \A x \in Range(root) : parent[x] = None
           /\ \A x \in Elem : parent[x] # None =>
                 parent[x] \in InHeap /\ key[parent[x]] <= key[x]
<1>1. root \in Seq(Elem) /\ parent \in [Elem -> Elem \cup {None}] /\ key \in [Elem -> Nat]
  BY DEF Inv, TypeOK
<1>2. Once(root) /\ \A x \in Range(root) : parent[x] = None
  BY DEF Inv, WellFormed, ListsApart, Once
<1>3. Range(root) \subseteq InHeap /\ InHeap \subseteq Elem
  BY <1>1 DEF InHeap, Range
<1> QED BY <1>1, <1>2, <1>3 DEF Inv, WellFormed, HeapOrder

\* Nobody is its own child.
LEMMA ChildrenFacts ==
    ASSUME Inv, NEW e \in InHeap
    PROVE  /\ Children(e) \in SUBSET InHeap
           /\ e \notin Children(e)
           /\ Children(e) \cap Range(root) = {}
<1>1. e \in Elem /\ e # None
  BY HeapTypes, ElemAssumption
<1>2. Children(e) \in SUBSET InHeap /\ Children(e) \cap Range(root) = {}
  BY <1>1, HeapTypes DEF Children, InHeap
<1>3. e \notin Children(e)
  <2>1. {e} \in SUBSET InHeap
    OBVIOUS
  <2>2. e \in Range(root) \/ parent[e] \notin {e}
    BY <2>1 DEF Inv, WellFormed, Rooted
  <2> QED BY <1>1, <2>2, HeapTypes DEF Children
<1> QED BY <1>2, <1>3

LEMMA OtherRootsFacts ==
    ASSUME Inv, NEW e \in Elem
    PROVE  /\ OtherRoots(e) \in Seq(Elem) /\ Once(OtherRoots(e))
           /\ Range(OtherRoots(e)) = Range(root) \ {e}
<1>1. root \in Seq(Elem) /\ Once(root)
  BY HeapTypes
<1>2. CASE e \notin Range(root)
  BY <1>1, <1>2 DEF OtherRoots
<1>3. CASE e \in Range(root)
  <2> DEFINE i == CHOOSE j \in DOMAIN root : root[j] = e
  <2>1. i \in DOMAIN root /\ root[i] = e
    BY <1>3 DEF Range
  <2>2. OtherRoots(e) = Without(root, i)
    BY <1>3 DEF OtherRoots
  <2> HIDE DEF i
  <2> QED BY <1>1, <2>1, <2>2, WithoutFacts
<1> QED BY <1>2, <1>3

\* An element that joins the list of roots.
LEMMA NewRoot ==
    ASSUME Inv, NEW e \in Elem, NEW k \in Nat, e \notin InHeap,
           root' = Append(root, e), key' = [key EXCEPT ![e] = k],
           UNCHANGED parent
    PROVE  /\ root' \in Seq(Elem) /\ root' # << >> /\ key' \in [Elem -> Nat]
           /\ InHeap' = InHeap \cup {e}
           /\ ListsApart' /\ HeapOrder' /\ Rooted'
<1>1. e \notin Range(root) /\ parent[e] = None
  BY DEF InHeap
<1>2. /\ root' \in Seq(Elem) /\ root' # << >> /\ Once(root')
      /\ Range(root') = Range(root) \cup {e}
  BY <1>1, AppendFacts, HeapTypes
<1>3. InHeap' = InHeap \cup {e}
  BY <1>2 DEF InHeap
<1>4. ListsApart'
  BY <1>1, <1>2, HeapTypes DEF ListsApart, Once
<1>5. HeapOrder'
  BY <1>1, <1>3, HeapTypes DEF HeapOrder
<1>6. Rooted'
  <2>1. SUFFICES ASSUME NEW S \in SUBSET (InHeap \cup {e}), S # {}
                 PROVE  \E x \in S : x \in Range(root') \/ parent[x] \notin S
    BY <1>3 DEF Rooted
  <2>2. CASE e \in S
    BY <1>2, <2>2
  <2>3. CASE e \notin S
    <3>1. S \in SUBSET InHeap
      BY <2>1, <2>3
    <3>2. PICK x \in S : x \in Range(root) \/ parent[x] \notin S
      BY <2>1, <3>1 DEF Inv, WellFormed, Rooted
    <3> QED BY <1>2, <3>2
  <2> QED BY <2>2, <2>3
<1>7. key' \in [Elem -> Nat]
  BY HeapTypes
<1> QED BY <1>2, <1>3, <1>4, <1>5, <1>6, <1>7

LEMMA HeapPushStep ==
    ASSUME Inv, NEW e \in Elem, NEW k \in Key, step = "idle", e \notin Held,
           HeapPush(e, k)
    PROVE  Inv' /\ Held' = Held \cup {e} /\ key' = [key EXCEPT ![e] = k]
<1> USE DEF HeapPush
<1>1. /\ Held = InHeap /\ Held' = InHeap'
      /\ PlacesKnown' /\ NothingBelow' /\ SizeRight' /\ OneStructure'
  BY StillHeap
<1>2. k \in Nat
  BY KeyAssumption
<1>3. /\ root' \in Seq(Elem) /\ root' # << >> /\ key' \in [Elem -> Nat]
      /\ InHeap' = InHeap \cup {e}
      /\ ListsApart' /\ HeapOrder' /\ Rooted'
  BY <1>1, <1>2, NewRoot
<1>4. PopPhase'
  BY DEF PopPhase
<1>5. TypeOK'
  BY <1>3 DEF Inv, TypeOK, bucketVars, Buckets
<1> QED BY <1>1, <1>3, <1>4, <1>5 DEF Inv, WellFormed

\* What is below a node becomes a root when the node leaves its list.
LEMMA OrphanedFacts ==
    ASSUME Inv, NEW e \in InHeap
    PROVE  /\ Orphaned(e) \in [Elem -> Elem \cup {None}]
           /\ \A x \in Elem : Orphaned(e)[x] =
                 IF x = e \/ x \in Children(e) THEN None ELSE parent[x]
BY HeapTypes DEF Orphaned, Children

LEMMA HeapUpdateStep ==
    ASSUME Inv, NEW e \in Elem, NEW k \in Key, step = "idle", e \in Held,
           HeapUpdate(e, k)
    PROVE  Inv' /\ Held' = Held /\ key' = [key EXCEPT ![e] = k]
<1> USE DEF HeapUpdate
<1>1. /\ Held = InHeap /\ Held' = InHeap'
      /\ PlacesKnown' /\ NothingBelow' /\ SizeRight' /\ OneStructure'
  BY StillHeap
<1>2. k \in Nat /\ e \in InHeap /\ e # None
  BY <1>1, KeyAssumption, ElemAssumption
<1> DEFINE C == Children(e)
<1>3. C \in SUBSET InHeap /\ e \notin C /\ C \cap Range(root) = {}
  BY <1>2, ChildrenFacts
<1>4. InHeap \subseteq Elem
  BY HeapTypes
<1>5. PICK s \in Orders(C) : root' = Append(OtherRoots(e) \o s, e)
  OBVIOUS
<1>6. s \in Seq(Elem) /\ Range(s) = C /\ Once(s)
  BY <1>3, <1>4, OrdersFacts
<1> HIDE DEF C
<1> DEFINE o == OtherRoots(e)
<1>7. o \in Seq(Elem) /\ Once(o) /\ Range(o) = Range(root) \ {e}
  BY OtherRootsFacts
<1> HIDE DEF o
<1>8. root' = Append(o \o s, e)
  BY <1>5 DEF o
<1>9. /\ o \o s \in Seq(Elem) /\ Once(o \o s)
      /\ Range(o \o s) = (Range(root) \ {e}) \cup C
  BY <1>3, <1>6, <1>7, ConcatFacts
<1>10. /\ root' \in Seq(Elem) /\ root' # << >> /\ Once(root')
       /\ Range(root') = Range(root) \cup C \cup {e}
  <2>1. e \notin Range(o \o s)
    BY <1>3, <1>9
  <2> QED BY ZenonT(60), <1>8, <1>9, <2>1, AppendFacts
<1>11. /\ parent' \in [Elem -> Elem \cup {None}]
       /\ \A x \in Elem : parent'[x] = IF x = e \/ x \in C THEN None ELSE parent[x]
  BY <1>2, OrphanedFacts DEF C
<1>12. \A x \in Elem : parent[x] = e <=> x \in C
  BY DEF C, Children
<1>13. InHeap' = InHeap
  <2>1. ASSUME NEW x \in Elem PROVE x \in InHeap' <=> x \in InHeap
    BY <1>2, <1>3, <1>10, <1>11 DEF InHeap
  <2>2. InHeap' \subseteq Elem
    BY <1>10 DEF InHeap, Range
  <2> QED BY <1>4, <2>1, <2>2
<1>14. ListsApart'
  BY <1>10, <1>11, HeapTypes, <1>3, <1>4 DEF ListsApart, Once
<1>15. key' \in [Elem -> Nat]
  BY <1>2, HeapTypes
<1>16. HeapOrder'
  <2>1. SUFFICES ASSUME NEW x \in Elem, parent'[x] # None
                 PROVE  parent'[x] \in InHeap /\ key'[parent'[x]] <= key'[x]
    BY <1>13 DEF HeapOrder
  <2>2. x # e /\ parent'[x] = parent[x] /\ parent[x] # e
    BY <1>11, <1>12, <2>1
  <2>3. parent[x] \in InHeap /\ key[parent[x]] <= key[x]
    BY <2>1, <2>2, HeapTypes
  <2> QED BY <1>4, <2>2, <2>3, HeapTypes
<1>17. Rooted'
  <2>1. SUFFICES ASSUME NEW S \in SUBSET InHeap, S # {}
                 PROVE  \E x \in S : x \in Range(root') \/ parent'[x] \notin S
    BY <1>13 DEF Rooted
  <2>2. PICK x \in S : x \in Range(root) \/ parent[x] \notin S
    BY <2>1 DEF Inv, WellFormed, Rooted
  <2> QED BY <1>4, <1>10, <1>11, <2>2
<1>18. PopPhase'
  BY DEF PopPhase
<1>19. TypeOK'
  BY <1>10, <1>11, <1>15 DEF Inv, TypeOK, bucketVars, Buckets
<1> QED BY <1>1, <1>10, <1>13, <1>14, <1>16, <1>17, <1>18, <1>19 DEF Inv, WellFormed

\* One of two roots becomes the child of the other, which has no larger key.
LEMMA MeldFacts ==
    ASSUME Inv, NEW i \in 1..Len(root)-1, Meld(i)
    PROVE  /\ root' \in Seq(Elem) /\ Once(root') /\ Len(root') = Len(root) - 1
           /\ \E c \in Range(root), p \in Range(root) :
                 /\ c # p /\ key[p] <= key[c]
                 /\ Range(root') = Range(root) \ {c}
                 /\ parent' = [parent EXCEPT ![c] = p]
<1>1. root \in Seq(Elem) /\ Once(root) /\ key \in [Elem -> Nat]
  BY HeapTypes
<1>2. /\ i \in DOMAIN root /\ i + 1 \in DOMAIN root /\ i # i + 1
      /\ root[i] \in Elem /\ root[i + 1] \in Elem
      /\ root[i] \in Range(root) /\ root[i + 1] \in Range(root)
  BY <1>1 DEF Range
<1>3. root[i] # root[i + 1]
  BY <1>2, <1>1 DEF Once
<1>4. CASE key[root[i]] <= key[root[i + 1]]
  <2>1. root' = Without(root, i + 1) /\ parent' = [parent EXCEPT ![root[i + 1]] = root[i]]
    BY <1>4 DEF Meld
  <2>2. /\ root' \in Seq(Elem) /\ Once(root') /\ Len(root') = Len(root) - 1
        /\ Range(root') = Range(root) \ {root[i + 1]}
    BY <1>1, <1>2, <2>1, WithoutFacts
  <2> QED BY <1>2, <1>3, <1>4, <2>1, <2>2
<1>5. CASE ~(key[root[i]] <= key[root[i + 1]])
  <2>1. root' = Without(root, i) /\ parent' = [parent EXCEPT ![root[i]] = root[i + 1]]
    BY <1>5 DEF Meld
  <2>2. /\ root' \in Seq(Elem) /\ Once(root') /\ Len(root') = Len(root) - 1
        /\ Range(root') = Range(root) \ {root[i]}
    BY <1>1, <1>2, <2>1, WithoutFacts
  <2>3. key[root[i + 1]] <= key[root[i]]
    BY <1>1, <1>2, <1>5
  <2> QED BY <1>2, <1>3, <2>1, <2>2, <2>3
<1> QED BY <1>4, <1>5

LEMMA MeldStep ==
    ASSUME Inv, NEW i \in 1..Len(root)-1, Meld(i), UNCHANGED key
    PROVE  /\ parent' \in [Elem -> Elem \cup {None}]
           /\ InHeap' = InHeap
           /\ ListsApart' /\ HeapOrder' /\ Rooted'
<1>1. PICK c \in Range(root), p \in Range(root) :
        /\ c # p /\ key[p] <= key[c]
        /\ Range(root') = Range(root) \ {c}
        /\ parent' = [parent EXCEPT ![c] = p]
  BY MeldFacts
<1>2. root' \in Seq(Elem) /\ Once(root')
  BY MeldFacts
<1>3. c \in Elem /\ p \in Elem /\ c \in InHeap /\ p \in InHeap /\ p # None
  BY HeapTypes, ElemAssumption
<1>4. /\ parent' \in [Elem -> Elem \cup {None}]
      /\ \A x \in Elem : parent'[x] = IF x = c THEN p ELSE parent[x]
  BY <1>1, <1>3, HeapTypes
<1>5. InHeap' = InHeap
  <2>1. ASSUME NEW x \in Elem PROVE x \in InHeap' <=> x \in InHeap
    BY <1>1, <1>3, <1>4 DEF InHeap
  <2>2. InHeap' \subseteq Elem /\ InHeap \subseteq Elem
    BY <1>2, HeapTypes DEF InHeap, Range
  <2> QED BY <2>1, <2>2
<1>6. ListsApart'
  BY <1>1, <1>2, <1>4, HeapTypes DEF ListsApart, Once
<1>7. HeapOrder'
  BY <1>1, <1>3, <1>4, <1>5, HeapTypes DEF HeapOrder
<1>8. Rooted'
  <2>1. SUFFICES ASSUME NEW S \in SUBSET InHeap, S # {}
                 PROVE  \E x \in S : x \in Range(root') \/ parent'[x] \notin S
    BY <1>5 DEF Rooted
  <2>2. PICK x \in S : x \in Range(root) \/ parent[x] \notin S
    BY <2>1 DEF Inv, WellFormed, Rooted
  <2>3. x \in Elem
    BY HeapTypes
  <2>4. CASE x # c
    BY <1>1, <1>4, <2>2, <2>3, <2>4
  <2>5. CASE x = c /\ p \notin S
    BY <1>4, <2>3, <2>5
  <2>6. CASE x = c /\ p \in S
    BY <1>1, <2>6
  <2> QED BY <2>4, <2>5, <2>6
<1> QED BY <1>4, <1>5, <1>6, <1>7, <1>8

LEMMA PairingStep ==
    ASSUME Inv, FirstPairing \/ SecondPairing
    PROVE  Inv' /\ Held' = Held /\ UNCHANGED <<key, popped>>
<1> USE DEF FirstPairing, SecondPairing
<1>1. item \in 1..Len(root)-1 /\ Meld(item) /\ root \in Seq(Elem)
  BY DEF Inv, TypeOK
<1>2. ~inBuckets
  BY HeapUnused
<1>3. /\ Held = InHeap /\ Held' = InHeap'
      /\ PlacesKnown' /\ NothingBelow' /\ SizeRight' /\ OneStructure'
  BY <1>2, StillHeap
<1>4. /\ parent' \in [Elem -> Elem \cup {None}]
      /\ InHeap' = InHeap
      /\ ListsApart' /\ HeapOrder' /\ Rooted'
  BY <1>1, MeldStep
<1>5. root' \in Seq(Elem) /\ Len(root') = Len(root) - 1
  BY <1>1, MeldFacts
<1>6. root' # << >>
  BY <1>1, <1>5
<1>7. PopPhase'
  BY <1>6 DEF PopPhase, Inv, WellFormed
<1>8. item' \in Nat \ {0}
  BY DEF Inv, TypeOK
<1>9. UNCHANGED <<inBuckets, bucketVars, key, step, popped>>
  OBVIOUS
<1> HIDE DEF FirstPairing, SecondPairing
<1>10. TypeOK'
  BY <1>4, <1>5, <1>8, <1>9 DEF Inv, TypeOK, bucketVars, Buckets
<1> QED BY <1>3, <1>4, <1>7, <1>9, <1>10 DEF Inv, WellFormed

\* Where a pop begins, and between its passes: the heap stays as it is.
LEMMA PassStep ==
    ASSUME Inv, HeapPopStart \/ FirstPairingEnds \/ SecondPairingEnds
    PROVE  Inv' /\ Held' = Held /\ UNCHANGED <<key, popped>>
<1>1. /\ UNCHANGED <<inBuckets, bucketVars, key, root, parent, popped>>
      /\ step' \in {"first", "second", "extract"}
      /\ item' \in Nat \ {0}
      /\ ~inBuckets
  BY HeapUnused DEF HeapPopStart, FirstPairingEnds, SecondPairingEnds, Inv, TypeOK
<1>2. /\ Held = InHeap /\ Held' = InHeap'
      /\ PlacesKnown' /\ NothingBelow' /\ SizeRight' /\ OneStructure'
  BY <1>1, StillHeap
<1>3. InHeap' = InHeap
  BY <1>1 DEF InHeap
<1>4. ListsApart' /\ HeapOrder' /\ Rooted'
  BY <1>1, <1>3 DEF Inv, WellFormed, ListsApart, HeapOrder, Rooted
<1>5. root # << >> /\ root \in Seq(Elem) /\ Len(root) # 0
  BY DEF HeapPopStart, FirstPairingEnds, SecondPairingEnds, Inv, TypeOK, WellFormed, PopPhase
<1>6. PopPhase'
  <2>1. CASE HeapPopStart
    BY <1>5, <2>1 DEF HeapPopStart, PopPhase
  <2>2. CASE FirstPairingEnds
    BY <1>5, <2>2 DEF FirstPairingEnds, PopPhase
  <2>3. CASE SecondPairingEnds
    <3>1. item = 1 /\ Len(root) = 1
      <4>1. item = 1 /\ item >= Len(root)
        BY <2>3 DEF SecondPairingEnds, Inv, WellFormed, PopPhase
      <4>2. Len(root) \in Nat
        BY <1>5
      <4>3. Len(root) <= 1
        BY <4>1, <4>2
      <4>4. Len(root) # 0
        BY <1>5
      <4>5. Len(root) = 1
        BY <4>2, <4>3, <4>4
      <4> QED BY <4>1, <4>5
    <3> QED BY <1>5, <2>3, <3>1 DEF SecondPairingEnds, PopPhase
  <2> QED BY <2>1, <2>2, <2>3
<1>7. TypeOK'
  BY <1>1 DEF Inv, TypeOK, bucketVars, Buckets
<1> QED BY <1>1, <1>2, <1>3, <1>4, <1>6, <1>7 DEF Inv, WellFormed

\* A single root has no larger key than anything in the heap.
LEMMA SingleRootIsLowest ==
    ASSUME Inv, Len(root) = 1
    PROVE  /\ root[1] \in InHeap /\ Range(root) = {root[1]}
           /\ \A o \in InHeap : key[root[1]] <= key[o]
<1> DEFINE r == root[1]
<1>1. Range(root) = {r} /\ r \in InHeap
  BY HeapTypes DEF Range
<1> DEFINE S == {o \in InHeap : key[o] < key[r]}
<1>2. ASSUME S # {} PROVE FALSE
  <2>1. PICK x \in S : x \in Range(root) \/ parent[x] \notin S
    BY <1>2 DEF Inv, WellFormed, Rooted
  <2>2. x \in Elem /\ key[x] \in Nat /\ key[r] \in Nat /\ x # r
    BY <1>1, HeapTypes
  <2>3. parent[x] # None /\ parent[x] \notin S
    BY <1>1, <2>1, <2>2 DEF InHeap
  <2>4. parent[x] \in InHeap /\ key[parent[x]] <= key[x] /\ key[parent[x]] \in Nat
    BY <2>2, <2>3, HeapTypes
  <2> QED BY <2>2, <2>3, <2>4
<1>3. \A o \in InHeap : key[o] \in Nat
  BY HeapTypes
<1> QED BY <1>1, <1>2, <1>3

LEMMA HeapPopEndStep ==
    ASSUME Inv, HeapPopEnd
    PROVE  /\ Inv'
           /\ \E e \in Held : /\ \A o \in Held : key[e] <= key[o]
                              /\ popped' = <<e, key[e]>>
                              /\ Held' = Held \ {e}
           /\ UNCHANGED key
<1> USE DEF HeapPopEnd
<1>1. ~inBuckets
  BY HeapUnused
<1>2. /\ Held = InHeap /\ Held' = InHeap'
      /\ PlacesKnown' /\ NothingBelow' /\ SizeRight' /\ OneStructure'
  BY <1>1, StillHeap
<1> DEFINE r == root[1]
<1>3. Len(root) = 1
  BY DEF Inv, WellFormed, PopPhase
<1>4. /\ r \in InHeap /\ Range(root) = {r}
      /\ \A o \in InHeap : key[r] <= key[o]
  BY <1>3, SingleRootIsLowest
<1> DEFINE C == Children(r)
<1>5. C \in SUBSET InHeap /\ r \notin C /\ InHeap \subseteq Elem /\ r # None
  BY <1>4, ChildrenFacts, HeapTypes, ElemAssumption
<1>6. PICK s \in Orders(C) : root' = Without(root, 1) \o s
  OBVIOUS
<1>7. s \in Seq(Elem) /\ Range(s) = C /\ Once(s)
  BY <1>5, OrdersFacts
<1>8. /\ Without(root, 1) \in Seq(Elem) /\ Once(Without(root, 1))
      /\ Range(Without(root, 1)) = {}
  <2>1. 1 \in DOMAIN root /\ root \in Seq(Elem) /\ Once(root)
    BY <1>3, HeapTypes
  <2> QED BY <1>4, <2>1, WithoutFacts
<1>9. root' \in Seq(Elem) /\ Once(root') /\ Range(root') = C
  <2> DEFINE t == Without(root, 1)
  <2>1. t \in Seq(Elem) /\ Once(t) /\ Range(t) = {} /\ root' = t \o s
    BY <1>6, <1>8
  <2> HIDE DEF t, C
  <2>2. Range(t) \cap Range(s) = {}
    BY <2>1
  <2>3. Range(t \o s) = Range(t) \cup Range(s)
    BY <1>7, <2>1, ConcatFacts
  <2>4. t \o s \in Seq(Elem) /\ Once(t \o s)
    BY <1>7, <2>1, <2>2, ConcatFacts
  <2> QED BY <1>7, <2>1, <2>3, <2>4
<1>10. /\ parent' \in [Elem -> Elem \cup {None}]
       /\ \A x \in Elem : parent'[x] = IF x = r \/ x \in C THEN None ELSE parent[x]
  BY <1>4, OrphanedFacts
<1>11. \A x \in Elem : parent[x] = r <=> x \in C
  BY DEF Children
<1> HIDE DEF C
<1>12. InHeap' = InHeap \ {r}
  <2>1. ASSUME NEW x \in Elem PROVE x \in InHeap' <=> x \in InHeap \ {r}
    BY <1>4, <1>5, <1>9, <1>10 DEF InHeap
  <2>2. InHeap' \subseteq Elem
    BY <1>9 DEF InHeap, Range
  <2> QED BY <1>5, <2>1, <2>2
<1>13. ListsApart'
  BY <1>5, <1>9, <1>10 DEF ListsApart, Once
<1>14. HeapOrder'
  <2>1. SUFFICES ASSUME NEW x \in Elem, parent'[x] # None
                 PROVE  parent'[x] \in InHeap \ {r} /\ key[parent'[x]] <= key[x]
    BY <1>12 DEF HeapOrder
  <2>2. parent'[x] = parent[x] /\ parent[x] # r
    BY <1>10, <1>11, <2>1
  <2> QED BY <2>1, <2>2, HeapTypes
<1>15. Rooted'
  <2>1. SUFFICES ASSUME NEW S \in SUBSET (InHeap \ {r}), S # {}
                 PROVE  \E x \in S : x \in Range(root') \/ parent'[x] \notin S
    BY <1>12 DEF Rooted
  <2>2. PICK x \in S : x \in Range(root) \/ parent[x] \notin S
    <3>1. S \in SUBSET InHeap
      BY <2>1
    <3> QED BY <2>1, <3>1 DEF Inv, WellFormed, Rooted
  <2>3. x \in Elem /\ x # r /\ parent[x] \notin S
    BY <1>4, <1>5, <2>2
  <2>4. CASE x \in C
    BY <1>9, <2>4
  <2>5. CASE x \notin C
    BY <1>10, <2>3, <2>5
  <2> QED BY <2>4, <2>5
<1>16. PopPhase'
  BY DEF PopPhase
<1>17. key[r] \in Nat /\ r \in Elem
  BY <1>4, HeapTypes
<1>18. TypeOK'
  BY <1>9, <1>10, <1>17 DEF Inv, TypeOK, bucketVars, Buckets
<1>19. \E e \in Held : /\ \A o \in Held : key[e] <= key[o]
                       /\ popped' = <<e, key[e]>>
                       /\ Held' = Held \ {e}
  BY <1>2, <1>4, <1>12
<1> QED BY <1>2, <1>13, <1>14, <1>15, <1>16, <1>18, <1>19 DEF Inv, WellFormed

-----------------------------------------------------------------------------
(* From buckets to heap. *)

\* Nothing is below lowest_key, so all of the buckets is moved.
LEMMA ToHeapStep ==
    ASSUME Inv, NEW e \in Elem, NEW k \in Key, e \notin Held, ToHeap(e, k)
    PROVE  Inv' /\ Held' = Held \cup {e} /\ key' = [key EXCEPT ![e] = k]
<1> USE DEF ToHeap
<1>1. /\ root = << >> /\ step = "idle" /\ Held = InBuckets
      /\ \A x \in Elem : parent[x] = None
  BY HeapUnused
<1>2. Moved = InBuckets
  BY DEF Moved, InBuckets, Inv, WellFormed, NothingBelow, Range
<1>3. InBuckets \in SUBSET Elem
  BY PlaceFacts
<1>4. PICK s \in Orders(InBuckets) : root' = Append(s, e)
  BY <1>2
<1>5. s \in Seq(Elem) /\ Range(s) = InBuckets /\ Once(s)
  BY <1>3, OrdersFacts
<1>6. /\ root' \in Seq(Elem) /\ root' # << >> /\ Once(root')
      /\ Range(root') = InBuckets \cup {e}
  BY <1>1, <1>4, <1>5, AppendFacts
<1>7. \A x \in Elem : parent'[x] = None
  BY <1>1
<1>8. InHeap' = InBuckets \cup {e}
  BY <1>6, <1>7 DEF InHeap
<1>9. Buckets' = Buckets
  BY DEF Buckets
<1>10. \A j \in Buckets : bucket'[j] = << >>
  OBVIOUS
<1>11. InBuckets' = {}
  BY <1>9, <1>10 DEF InBuckets, Range
<1>12. Held' = Held \cup {e}
  BY <1>1, <1>8, <1>11 DEF Held
<1>13. PlacesKnown' /\ NothingBelow' /\ OneStructure'
  BY <1>9, <1>10 DEF PlacesKnown, NothingBelow, OneStructure
<1>14. SizeRight'
  BY <1>11, FS_EmptySet DEF SizeRight
<1>15. ListsApart'
  BY <1>3, <1>6, <1>7 DEF ListsApart, Once
<1>16. HeapOrder'
  BY <1>7 DEF HeapOrder
<1>17. Rooted'
  BY <1>6, <1>8 DEF Rooted
<1>18. PopPhase'
  BY <1>1 DEF PopPhase
<1>19. k \in Nat
  BY KeyAssumption
<1>20. key' \in [Elem -> Nat] /\ pos' \in [Elem -> Nat] /\ size' \in Nat
       /\ bucket' \in [Buckets -> Seq(Elem)]
  BY <1>19 DEF Inv, TypeOK
<1>21. TypeOK'
  BY <1>6, <1>9, <1>20 DEF Inv, TypeOK
<1> QED
  BY <1>12, <1>13, <1>14, <1>15, <1>16, <1>17, <1>18, <1>21 DEF Inv, WellFormed

-----------------------------------------------------------------------------
(* The invariant and the refinement. *)

LEMMA InitInv == Init => Inv
<1> SUFFICES ASSUME Init PROVE Inv
  OBVIOUS
<1> USE DEF Init
<1>1. Range(root) = {} /\ \A k \in Buckets : Range(bucket[k]) = {}
  BY DEF Range
<1>2. InHeap = {} /\ InBuckets = {}
  BY <1>1 DEF InHeap, InBuckets
<1>3. TypeOK
  BY SizeAssumption DEF TypeOK
<1>4. PlacesKnown /\ NothingBelow /\ OneStructure /\ PopPhase
  BY <1>2 DEF PlacesKnown, NothingBelow, OneStructure, PopPhase
<1>5. SizeRight
  BY <1>2, FS_EmptySet DEF SizeRight
<1>6. ListsApart /\ HeapOrder /\ Rooted
  BY <1>1, <1>2 DEF ListsApart, HeapOrder, Rooted
<1> QED BY <1>3, <1>4, <1>5, <1>6 DEF Inv, WellFormed

LEMMA StutterStep ==
    ASSUME Inv, UNCHANGED vars
    PROVE  Inv' /\ Held' = Held /\ UNCHANGED <<key, popped>>
<1>1. Held' = Held /\ InHeap' = InHeap /\ InBuckets' = InBuckets
  BY DEF vars, bucketVars, heapVars, Held, InHeap, InBuckets, Buckets
<1>2. TypeOK'
  BY DEF Inv, TypeOK, vars, bucketVars, heapVars, Buckets
<1>3. PlacesKnown' /\ NothingBelow' /\ SizeRight' /\ OneStructure'
  BY <1>1 DEF Inv, WellFormed, PlacesKnown, NothingBelow, SizeRight, OneStructure,
              vars, bucketVars, heapVars, Buckets
<1>4. ListsApart' /\ HeapOrder' /\ Rooted' /\ PopPhase'
  BY <1>1 DEF Inv, WellFormed, ListsApart, HeapOrder, Rooted, PopPhase,
              vars, bucketVars, heapVars
<1> QED BY <1>1, <1>2, <1>3, <1>4 DEF Inv, WellFormed, vars

\* What a call does to the elements that are queued, and to their keys.
LEMMA PushStep ==
    ASSUME Inv, NEW e \in Elem, NEW k \in Key, Push(e, k)
    PROVE  /\ Inv' /\ e \notin Held
           /\ Held' = Held \cup {e} /\ key' = [key EXCEPT ![e] = k]
           /\ UNCHANGED popped
<1>1. CASE BucketPush(e, k)
  BY <1>1, BucketPushStep DEF Push, BucketPush
<1>2. CASE ToHeap(e, k)
  BY <1>2, ToHeapStep DEF Push, ToHeap
<1>3. CASE HeapPush(e, k)
  BY <1>3, HeapPushStep DEF Push, HeapPush
<1> QED BY <1>1, <1>2, <1>3 DEF Push

LEMMA UpdateStep ==
    ASSUME Inv, NEW e \in Elem, NEW k \in Key, Update(e, k)
    PROVE  /\ Inv' /\ e \in Held
           /\ Held' = Held /\ key' = [key EXCEPT ![e] = k]
           /\ UNCHANGED popped
<1>1. CASE BucketUpdate(e, k)
  BY <1>1, BucketUpdateStep DEF Update, BucketUpdate
<1>2. CASE HeapUpdate(e, k)
  BY <1>2, HeapUpdateStep DEF Update, HeapUpdate
<1> QED BY <1>1, <1>2 DEF Update

\* A pop ends in one step; the steps before it change nothing a caller sees.
LEMMA PopStepFacts ==
    ASSUME Inv, PopStep
    PROVE  /\ Inv' /\ UNCHANGED key
           /\ \/ Held' = Held /\ UNCHANGED popped
              \/ \E e \in Held : /\ \A o \in Held : key[e] <= key[o]
                                 /\ popped' = <<e, key[e]>>
                                 /\ Held' = Held \ {e}
<1>1. CASE BucketPop
  BY <1>1, BucketPopStep
<1>2. CASE HeapPopStart \/ FirstPairingEnds \/ SecondPairingEnds
  BY <1>2, PassStep
<1>3. CASE FirstPairing \/ SecondPairing
  BY <1>3, PairingStep
<1>4. CASE HeapPopEnd
  BY <1>4, HeapPopEndStep
<1> QED BY <1>1, <1>2, <1>3, <1>4 DEF PopStep

LEMMA NextInv == Inv /\ [Next]_vars => Inv'
<1> SUFFICES ASSUME Inv, [Next]_vars PROVE Inv'
  OBVIOUS
<1>1. CASE \E e \in Elem, k \in Key : Push(e, k) \/ Update(e, k)
  BY <1>1, PushStep, UpdateStep
<1>2. CASE PopStep
  BY <1>2, PopStepFacts
<1>3. CASE UNCHANGED vars
  BY <1>3, StutterStep
<1> QED BY <1>1, <1>2, <1>3 DEF Next

\* The queue of src/pq.c is well formed after any calls, through updates, the
\* conversion from buckets to heap and every step of a consolidation.
THEOREM QueueWellFormed == Spec => [](TypeOK /\ WellFormed)
<1>1. Init => Inv
  BY InitInv
<1>2. Inv /\ [Next]_vars => Inv'
  BY NextInv
<1>3. Inv => TypeOK /\ WellFormed
  BY DEF Inv
<1> QED BY <1>1, <1>2, <1>3, PTL DEF Spec

\* Every element is where the queue says it is, of the kind it should be:
\* buckets, positions, counter, heap and keys stay within their types.
THEOREM QueueTypeCorrect == Spec => []TypeOK
<1>1. TypeOK /\ WellFormed => TypeOK
  OBVIOUS
<1> QED BY <1>1, QueueWellFormed, PTL

LEMMA InitRefines == Init => Abstract!Init
<1> SUFFICES ASSUME Init PROVE Abstract!Init
  OBVIOUS
<1>1. Inv
  BY InitInv
<1>2. Held = InBuckets
  BY <1>1, HeapUnused DEF Init
<1>3. Held = {}
  BY <1>2 DEF InBuckets, Init, Range
<1>4. [e \in Held |-> key[e]] = [e \in {} |-> 0]
  BY <1>3
<1> QED BY <1>4 DEF Abstract!Init, Init

\* The keys of the queued elements after one of them got a key.
LEMMA PutRefines ==
    ASSUME Inv, NEW e \in Elem, NEW k \in Key,
           Held' = Held \cup {e}, key' = [key EXCEPT ![e] = k]
    PROVE  Abstract!Put(e, k)
<1>1. Held \subseteq Elem
  BY PlaceFacts, HeapTypes DEF Held
<1>2. \A o \in Held' : key'[o] = IF o = e THEN k ELSE [x \in Held |-> key[x]][o]
  BY <1>1 DEF Inv, TypeOK
<1> QED BY <1>2 DEF Abstract!Put, Abstract!Queued

LEMMA NextRefines ==
    ASSUME Inv, [Next]_vars
    PROVE  [Abstract!Next]_(Abstract!vars)
<1>1. ASSUME NEW e \in Elem, NEW k \in Key, Push(e, k)
      PROVE  Abstract!Push(e, k)
  <2>1. /\ e \notin Held /\ Held' = Held \cup {e}
        /\ key' = [key EXCEPT ![e] = k] /\ UNCHANGED popped
    BY <1>1, PushStep
  <2>2. Abstract!Put(e, k)
    BY <2>1, PutRefines
  <2> QED BY <2>1, <2>2 DEF Abstract!Push, Abstract!Queued
<1>2. ASSUME NEW e \in Elem, NEW k \in Key, Update(e, k)
      PROVE  Abstract!Update(e, k)
  <2>1. /\ e \in Held /\ Held' = Held
        /\ key' = [key EXCEPT ![e] = k] /\ UNCHANGED popped
    BY <1>2, UpdateStep
  <2>2. Held' = Held \cup {e}
    BY <2>1
  <2>3. Abstract!Put(e, k)
    BY <2>1, <2>2, PutRefines
  <2> QED BY <2>1, <2>3 DEF Abstract!Update, Abstract!Queued
<1>3. ASSUME UNCHANGED <<key, popped>>, Held' = Held
      PROVE  UNCHANGED Abstract!vars
  BY <1>3 DEF Abstract!vars
<1>4. ASSUME UNCHANGED key, NEW e \in Held,
             \A o \in Held : key[e] <= key[o],
             popped' = <<e, key[e]>>,
             Held' = Held \ {e}
      PROVE  Abstract!Pop(e) /\ e \in Elem
  <2>1. Held \subseteq Elem
    BY PlaceFacts, HeapTypes DEF Held
  <2> QED BY <1>4, <2>1 DEF Abstract!Pop, Abstract!Lowest, Abstract!Queued
<1>5. CASE \E e \in Elem, k \in Key : Push(e, k) \/ Update(e, k)
  BY <1>1, <1>2, <1>5 DEF Abstract!Next
<1>6. CASE PopStep
  BY <1>3, <1>4, <1>6, PopStepFacts DEF Abstract!Next
<1>7. CASE UNCHANGED vars
  BY <1>3, <1>7, StutterStep
<1> QED BY <1>5, <1>6, <1>7 DEF Next

\* The queue does what KeyedQueue says: nothing is lost, and what leaves is
\* the element with the lowest of the keys that were last given.
THEOREM QueueRefines == Spec => IsKeyedQueue
<1>1. Init => Inv /\ Abstract!Init
  BY InitInv, InitRefines
<1>2. Inv /\ [Next]_vars => Inv' /\ [Abstract!Next]_(Abstract!vars)
  BY NextInv, NextRefines
<1> QED BY <1>1, <1>2, PTL DEF Spec, IsKeyedQueue, Abstract!Spec
=============================================================================
