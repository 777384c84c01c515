------------------------------ MODULE MCLMCut ------------------------------
(* Tasks on four facts: every choice of up to four operators from a list     *)
(* with cheap and dear ways, joins, free operators and a cycle of them.      *)
EXTENDS LMCut

O(p, e, c) == [pre |-> p, eff |-> e, cost |-> c]

Catalogue == << O({1}, {2}, 1), O({1}, {3}, 2), O({2}, {3}, 0), O({3}, {2}, 0),
                O({2, 3}, {4}, 1), O({1, 2}, {3, 4}, 3), O({3}, {4}, 2),
                O({}, {2}, 2), O({1}, {2, 3}, 2), O({2}, {4}, 3) >>

Subsets == {S \in SUBSET (DOMAIN Catalogue) : Cardinality(S) \in 1..3}

OpsOf(S) == FoldSet(LAMBDA i, ops : Append(ops, Catalogue[i]), <<>>, S)

MCTasks == {[facts |-> 4, ops |-> OpsOf(S), goal |-> g] :
               S \in Subsets, g \in {{4}, {2, 3}}}
=============================================================================
