---------------------------- MODULE KeyedQueue ----------------------------
(* What pddl/pq.h promises: a queue of elements with keys, from which an     *)
(* element with the lowest key is taken, whichever of its two data           *)
(* structures src/pq.c keeps it in.  PriorityQueue implements this module;   *)
(* the search for the estimates of facts in LMCut runs on it.                *)
EXTENDS Naturals

CONSTANTS Elem,   \* the elements that may be queued
          Key,    \* the keys they may have
          None    \* no element

VARIABLES keyOf,   \* the keys of the queued elements
          popped   \* what the last pop returned: an element and its key

vars == <<keyOf, popped>>

Queued == DOMAIN keyOf

Init == /\ keyOf = [e \in {} |-> 0]
        /\ popped = None

(* Sets the key of an element, one that is not queued or one that is. *)
Put(e, k) == keyOf' = [o \in Queued \cup {e} |-> IF o = e THEN k ELSE keyOf[o]]

Push(e, k) == /\ e \notin Queued
              /\ Put(e, k)
              /\ UNCHANGED popped

Update(e, k) == /\ e \in Queued
                /\ Put(e, k)
                /\ UNCHANGED popped

Lowest(e) == \A o \in Queued : keyOf[e] <= keyOf[o]

(* Which of several elements with the lowest key comes first is left open. *)
Pop(e) == /\ e \in Queued
          /\ Lowest(e)
          /\ popped' = <<e, keyOf[e]>>
          /\ keyOf' = [o \in Queued \ {e} |-> keyOf[o]]

Next == \E e \in Elem : \/ \E k \in Key : Push(e, k) \/ Update(e, k)
                        \/ Pop(e)

Spec == Init /\ [][Next]_vars
=============================================================================
