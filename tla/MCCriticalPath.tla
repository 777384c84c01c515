--------------------------- MODULE MCCriticalPath ---------------------------
(* Tasks of three variables with two values, and of one with three and one   *)
(* with two: every choice of up to three operators from a list with some     *)
(* that delete what they do not require.                                     *)
EXTENDS CriticalPath, FiniteSetsExt, TLC

MCFact == 1..6

StatesOf(groups) == {S \in SUBSET MCFact : S \subseteq UNION groups
                                          /\ \A M \in groups : Cardinality(S \cap M) = 1}

\* An operator deletes the other values of the variables it sets.
O(groups, pre, add) ==
    [pre |-> pre, add |-> add,
     del |-> UNION {M \in groups : M \cap add # {}} \ add]

Binary == {{1, 2}, {3, 4}, {5, 6}}
BinaryOps == << <<{1}, {2}>>, <<{2}, {1}>>, <<{2, 3}, {4}>>, <<{4}, {1, 3}>>, <<{4}, {6}>>,
                <<{1, 4}, {6}>>, <<{6}, {1, 3}>>, <<{3}, {2, 6}>>, <<{}, {4}>> >>

\* 2 cannot be reached, though only its pairs with 5 and 6 are known.
From2Ops == << <<{2}, {1}>>, <<{2, 3}, {4}>>, <<{4}, {6}>>, <<{}, {4}>>, <<{6}, {3}>> >>

Ternary == {{1, 2, 3}, {4, 5}}
TernaryOps == << <<{1}, {2}>>, <<{2, 4}, {3}>>, <<{3}, {1}>>, <<{2}, {5}>>, <<{5}, {1, 4}>>,
                 <<{1, 4}, {3}>>, <<{4}, {2}>> >>

SomeOps(groups, list) ==
    {FoldSet(LAMBDA i, ops : Append(ops, O(groups, list[i][1], list[i][2])), <<>>, S) :
        S \in {S \in SUBSET (DOMAIN list) : Cardinality(S) \in 1..3}}

\* With pruned, the operators that cannot be used are known beforehand.
WithReach(t, pruned) ==
    LET reach == Reachable(t)
    IN t @@ [reachable |-> reach, solvable |-> Solvable(t),
             dead |-> {o \in OpsOf(t) : pruned /\ \A s \in reach : ~(t.ops[o].pre \subseteq s)}]

TasksOn(groups, opss, init, goals, declared, known, pruned) ==
    LET states == StatesOf(groups)
    IN {WithReach([states |-> states, init |-> init, goal |-> g, ops |-> o, groups |-> declared,
                   known |-> known], pruned) : o \in opss, g \in goals}

MCTasks ==
    TasksOn(Binary, SomeOps(Binary, BinaryOps), {1, 3, 5}, {{6}, {2, 4}}, Binary, {}, FALSE)
    \cup TasksOn(Binary, SomeOps(Binary, BinaryOps), {1, 3, 5}, {{1, 6}},
                {{1, 2}, {5, 6}}, {{1, 2}}, TRUE)
    \cup TasksOn(Binary, SomeOps(Binary, From2Ops), {1, 3, 5}, {{6}},
                Binary, {{2, 5}, {2, 6}}, FALSE)
    \cup TasksOn(Ternary, SomeOps(Ternary, TernaryOps), {1, 4}, {{3}, {3, 4}}, Ternary, {}, FALSE)
=============================================================================
