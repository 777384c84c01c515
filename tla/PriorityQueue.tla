--------------------------- MODULE PriorityQueue ---------------------------
(* The queue of src/pq.c: an array of buckets as long as every key is small, *)
(* and from the first larger key on the pairing heap of src/pairheap.c.      *)
(*                                                                           *)
(* Left open: the order in which the elements leave the buckets for the      *)
(* heap, and the order of the children of a node of the heap.                *)
EXTENDS Naturals, Sequences, FiniteSets, Functions

CONSTANTS Elem,         \* the elements (pddl_pq_el_t) of the caller
          Key,          \* the keys it gives them
          None,         \* no element
          BucketSize    \* PDDL_PQ_BUCKET_SIZE

ASSUME ElemAssumption == IsFiniteSet(Elem) /\ None \notin Elem
ASSUME KeyAssumption == Key \subseteq Nat
ASSUME SizeAssumption == BucketSize \in Nat \ {0}

VARIABLES
    inBuckets,   \* q->bucket: the buckets are used, not the heap
    bucket,      \* the elements of each bucket
    size,        \* the number of elements in the buckets
    lowest,      \* lowest_key
    key,         \* el->key
    pos,         \* el->conn.bucket, the position in the bucket
    root,        \* the roots of the heap, in the order of their list
    parent,      \* the node of the heap that has an element as its child
    step,        \* where a pop from the heap has got to
    item,        \* the position of `item' in the list of roots
    popped       \* what the last pop returned

bucketVars == <<bucket, size, lowest, pos>>
heapVars == <<root, parent, step, item>>
vars == <<inBuckets, bucketVars, key, heapVars, popped>>

Buckets == 0..BucketSize-1

InBuckets == UNION {Range(bucket[k]) : k \in Buckets}
InHeap == Range(root) \cup {e \in Elem : parent[e] # None}

(* The elements that are queued, wherever they are. *)
Held == InBuckets \cup InHeap

(* The lists that hold every element of a set once. *)
Orders(S) == {s \in [1..Cardinality(S) -> S] :
                 /\ \A x \in S : \E i \in DOMAIN s : s[i] = x
                 /\ \A i, j \in DOMAIN s : s[i] = s[j] => i = j}

Init == /\ inBuckets = TRUE
        /\ bucket = [k \in Buckets |-> <<>>]
        /\ size = 0
        /\ lowest = BucketSize
        /\ key = [e \in Elem |-> 0]
        /\ pos = [e \in Elem |-> 0]
        /\ root = <<>>
        /\ parent = [e \in Elem |-> None]
        /\ step = "idle"
        /\ item = 1
        /\ popped = None

---------------------------------------------------------------------------
(* The buckets.  Put appends to the bucket of the key; b, n, low and p are   *)
(* the buckets, the size, the lowest key and the positions it starts from.   *)
BucketPut(e, k, b, n, low, p) ==
    /\ bucket' = [b EXCEPT ![k] = Append(@, e)]
    /\ pos' = [p EXCEPT ![e] = Len(b[k])]
    /\ key' = [key EXCEPT ![e] = k]
    /\ size' = n + 1
    /\ lowest' = IF k < low THEN k ELSE low

BucketPush(e, k) ==
    /\ inBuckets
    /\ k < BucketSize
    /\ BucketPut(e, k, bucket, size, lowest, pos)
    /\ UNCHANGED <<inBuckets, heapVars, popped>>

(* s without its last element, which moves to position i. *)
FillHole(s, i) == [j \in 1..Len(s) - 1 |-> IF j = i THEN s[Len(s)] ELSE s[j]]

(* Mutant: the element that fills the hole keeps its old position. *)
PosAfterHoleStale(e) == pos

(* Mutant: positions counted from one. *)
PosAfterHoleOneOff(e) ==
    LET b == bucket[key[e]] IN [pos EXCEPT ![b[Len(b)]] = pos[e] - 1]

PosAfterHole(e) ==
    LET b == bucket[key[e]] IN [pos EXCEPT ![b[Len(b)]] = pos[e]]

(* A key that is too large for the buckets is not accepted here: the program *)
(* ends in PANIC.                                                            *)
BucketUpdate(e, k) ==
    /\ inBuckets
    /\ k < BucketSize
    /\ BucketPut(e, k,
                 [bucket EXCEPT ![key[e]] = FillHole(@, pos[e] + 1)],
                 size - 1,
                 IF size = 1 THEN BucketSize ELSE lowest,
                 PosAfterHole(e))
    /\ UNCHANGED <<inBuckets, heapVars, popped>>

(* The first bucket from lowest_key on that is not empty. *)
IsFirst(k) == /\ k \in Buckets
              /\ lowest <= k
              /\ bucket[k] # <<>>
              /\ \A j \in Buckets : lowest <= j /\ j < k => bucket[j] = <<>>

(* The key that is returned is the number of the bucket. *)
BucketPop ==
    /\ inBuckets
    /\ size > 0
    /\ \E k \in Buckets :
          /\ IsFirst(k)
          /\ lowest' = k
          /\ popped' = <<bucket[k][Len(bucket[k])], k>>
          /\ bucket' = [bucket EXCEPT ![k] = SubSeq(@, 1, Len(@) - 1)]
    /\ size' = size - 1
    /\ UNCHANGED <<inBuckets, key, pos, heapVars>>

---------------------------------------------------------------------------
(* From buckets to heap, at the first key that is too large.  Buckets below  *)
(* lowest_key are not looked at.  The positions are gone: they share their   *)
(* place with the nodes of the heap (conn is a union).                       *)
(* Mutant: the bucket of the lowest key is left behind. *)
MovedAfterLowest == UNION {Range(bucket[k]) : k \in {j \in Buckets : lowest < j}}

Moved == UNION {Range(bucket[k]) : k \in {j \in Buckets : lowest <= j}}

ToHeap(e, k) ==
    /\ inBuckets
    /\ k >= BucketSize
    /\ inBuckets' = FALSE
    /\ \E s \in Orders(Moved) : root' = Append(s, e)
    /\ key' = [key EXCEPT ![e] = k]
    /\ bucket' = [j \in Buckets |-> <<>>]
    /\ size' = 0
    /\ pos' = [x \in Elem |-> 0]
    /\ UNCHANGED <<lowest, parent, step, item, popped>>

---------------------------------------------------------------------------
(* The heap.  A node that is removed leaves its children to the list of      *)
(* roots.                                                                    *)
Children(e) == {c \in Elem : parent[c] = e}

Without(s, i) == [j \in 1..Len(s) - 1 |-> IF j < i THEN s[j] ELSE s[j + 1]]

OtherRoots(e) == IF e \in Range(root)
                 THEN Without(root, CHOOSE i \in DOMAIN root : root[i] = e)
                 ELSE root

Orphaned(e) == [c \in Elem |-> IF parent[c] = e \/ c = e THEN None ELSE parent[c]]

HeapPush(e, k) ==
    /\ ~inBuckets
    /\ root' = Append(root, e)
    /\ key' = [key EXCEPT ![e] = k]
    /\ UNCHANGED <<inBuckets, bucketVars, parent, step, item, popped>>

HeapUpdate(e, k) ==
    /\ ~inBuckets
    /\ key' = [key EXCEPT ![e] = k]
    /\ \E s \in Orders(Children(e)) :
          root' = Append(OtherRoots(e) \o s, e)
    /\ parent' = Orphaned(e)
    /\ UNCHANGED <<inBuckets, bucketVars, step, item, popped>>

(* pddlPairHeapMin: the heap is consolidated unless it has a single root. *)
HeapPopStart ==
    /\ ~inBuckets
    /\ step = "idle"
    /\ root # <<>>
    /\ step' = IF Len(root) = 1 THEN "extract" ELSE "first"
    /\ item' = 1
    /\ UNCHANGED <<inBuckets, bucketVars, key, root, parent, popped>>

(* Mutant: the second of two roots is always the child. *)
MeldAnyway(i) ==
    /\ root' = Without(root, i + 1)
    /\ parent' = [parent EXCEPT ![root[i + 1]] = root[i]]

(* The root at i or the one after it becomes a child of the other one. *)
Meld(i) ==
    LET n1 == root[i]
        n2 == root[i + 1]
    IN  IF key[n1] <= key[n2]
        THEN /\ root' = Without(root, i + 1)
             /\ parent' = [parent EXCEPT ![n2] = n1]
        ELSE /\ root' = Without(root, i)
             /\ parent' = [parent EXCEPT ![n1] = n2]

(* First pairing: neighbours are melded two by two. *)
FirstPairing ==
    /\ step = "first"
    /\ item < Len(root)
    /\ Meld(item)
    /\ item' = item + 1
    /\ UNCHANGED <<inBuckets, bucketVars, key, step, popped>>

FirstPairingEnds ==
    /\ step = "first"
    /\ item >= Len(root)
    /\ step' = "second"
    /\ item' = 1
    /\ UNCHANGED <<inBuckets, bucketVars, key, root, parent, popped>>

(* Second pairing: what is left is melded into one. *)
SecondPairing ==
    /\ step = "second"
    /\ item < Len(root)
    /\ Meld(item)
    /\ UNCHANGED <<inBuckets, bucketVars, key, step, item, popped>>

SecondPairingEnds ==
    /\ step = "second"
    /\ item >= Len(root)
    /\ step' = "extract"
    /\ UNCHANGED <<inBuckets, bucketVars, key, root, parent, item, popped>>

HeapPopEnd ==
    /\ step = "extract"
    /\ popped' = <<root[1], key[root[1]]>>
    /\ \E s \in Orders(Children(root[1])) : root' = Without(root, 1) \o s
    /\ parent' = Orphaned(root[1])
    /\ step' = "idle"
    /\ UNCHANGED <<inBuckets, bucketVars, key, item>>

---------------------------------------------------------------------------
(* The calls of a caller, which knows which of its elements are queued.  It  *)
(* does not pop from a queue that pddlPQEmpty finds empty.                   *)
IsEmpty == IF inBuckets THEN size = 0 ELSE root = <<>>

Push(e, k) == /\ step = "idle"
              /\ e \notin Held
              /\ BucketPush(e, k) \/ ToHeap(e, k) \/ HeapPush(e, k)

Update(e, k) == /\ step = "idle"
                /\ e \in Held
                /\ BucketUpdate(e, k) \/ HeapUpdate(e, k)

PopStep == \/ BucketPop
           \/ HeapPopStart
           \/ FirstPairing
           \/ FirstPairingEnds
           \/ SecondPairing
           \/ SecondPairingEnds
           \/ HeapPopEnd

Next == \/ \E e \in Elem, k \in Key : Push(e, k) \/ Update(e, k)
        \/ PopStep

Spec == Init /\ [][Next]_vars

---------------------------------------------------------------------------
(* Types. *)
TypeOK ==
    /\ inBuckets \in BOOLEAN
    /\ bucket \in [Buckets -> Seq(Elem)]
    /\ size \in Nat
    /\ lowest \in 0..BucketSize
    /\ key \in [Elem -> Nat]
    /\ pos \in [Elem -> Nat]
    /\ root \in Seq(Elem)
    /\ parent \in [Elem -> Elem \cup {None}]
    /\ step \in {"idle", "first", "second", "extract"}
    /\ item \in Nat \ {0}
    /\ popped \in {None} \cup (Elem \X Nat)

(* Every element of a bucket has its key and knows its place, which is what  *)
(* an update of the key relies on to take it out (pq.c:169).                 *)
PlacesKnown ==
    \A k \in Buckets : \A i \in DOMAIN bucket[k] :
        key[bucket[k][i]] = k /\ pos[bucket[k][i]] = i - 1

(* No bucket below lowest_key holds anything, which is what a pop and the    *)
(* conversion to a heap rely on (pq.c:152, pq.c:184).                        *)
NothingBelow == \A k \in Buckets : bucket[k] # <<>> => lowest <= k

(* The counter of the buckets counts their elements. *)
SizeRight == size = Cardinality(InBuckets)

(* Only one of the two data structures is in use. *)
OneStructure ==
    /\ inBuckets => InHeap = {} /\ step = "idle"
    /\ ~inBuckets => \A k \in Buckets : bucket[k] = <<>>

(* No node of the heap is in two lists. *)
ListsApart ==
    /\ \A i, j \in DOMAIN root : root[i] = root[j] => i = j
    /\ \A e \in Range(root) : parent[e] = None

(* A child has not a lower key than its parent, which is in the heap too. *)
HeapOrder ==
    \A e \in Elem : parent[e] # None =>
        parent[e] \in InHeap /\ key[parent[e]] <= key[e]

(* Every set of nodes has one that is a root or the child of a node outside: *)
(* nobody is below itself.                                                   *)
Rooted ==
    \A S \in SUBSET InHeap : S # {} =>
        \E e \in S : e \in Range(root) \/ parent[e] \notin S

(* Where a pop from the heap has got to. *)
PopPhase ==
    /\ step # "idle" => root # <<>>
    /\ step = "second" => item = 1
    /\ step = "extract" => Len(root) = 1

(* The queue is well formed: the inductive invariant of its proof. *)
WellFormed == /\ PlacesKnown
              /\ NothingBelow
              /\ SizeRight
              /\ OneStructure
              /\ ListsApart
              /\ HeapOrder
              /\ Rooted
              /\ PopPhase

(* The promise of pq.h: an element leaves with the key it was last given,    *)
(* which is the lowest one in the queue, through updates, the conversion to  *)
(* a heap and its lazy consolidation; and none is lost.                      *)
Abstract == INSTANCE KeyedQueue WITH keyOf <- [e \in Held |-> key[e]]

IsKeyedQueue == Abstract!Spec
=============================================================================
