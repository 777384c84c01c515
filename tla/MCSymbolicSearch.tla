-------------------------- MODULE MCSymbolicSearch --------------------------
(* Every task with up to five of ten weighted edges between five states, to  *)
(* one goal or two of them: detours, cycles of cost 0, dead ends, ways of    *)
(* equal cost, no way at all.  Beside them a task with nothing to do, one    *)
(* without a goal, and one with a relation behind the one to the goal.       *)
EXTENDS SymbolicSearch

(* The costs of cheapest walks, from walks that get longer and longer.       *)
Walks(t, d) ==
    LET arcs == {a : a \in Arcs(t, d)}
        walk[n \in 0..Cardinality(t.states)] ==
            IF n = 0 THEN Sources(t, d) \X {0}
            ELSE LET old == walk[n - 1]
                     new == {<<ap[1][2], ap[2][2] + ap[1][3]>> :
                                ap \in {x \in arcs \X old : x[1][1] = x[2][1]}}
                     all == {p : p \in old \cup new}
                 IN  {p \in all : \A q \in all : q[1] = p[1] => p[2] <= q[2]}
    IN  {p : p \in walk[Cardinality(t.states)]}

Task(n, g, trans) == [states |-> 1..n, init |-> 1, goal |-> g, trans |-> trans]

Measured(t) == [states |-> t.states, init |-> t.init, goal |-> t.goal, trans |-> t.trans,
                shortest |-> [fw |-> Walks(t, "fw"), bw |-> Walks(t, "bw")]]

T(c, edges) == [cost |-> c, edges |-> edges]

Catalogue == { <<1, 2, 1>>, <<2, 3, 1>>, <<3, 2, 0>>, <<2, 3, 0>>, <<3, 4, 1>>,
               <<1, 3, 2>>, <<2, 4, 2>>, <<4, 5, 1>>, <<3, 5, 3>>, <<1, 4, 3>> }

Relations(E) ==
    LET of(c) == T(c, {<<e[1], e[2]>> : e \in {x \in E : x[3] = c}})
    IN  SelectSeq(<<of(0), of(1), of(2), of(3)>>, LAMBDA t : t.edges # {})

MCTasks == {Measured(t) : t \in
    {Task(5, g, Relations(E)) : g \in {{5}, {4, 5}},
                                E \in UNION {kSubset(k, Catalogue) : k \in 1..5}}
    \cup {Task(2, {1, 2}, <<T(1, {<<1, 2>>})>>),
          Task(2, {}, <<T(1, {<<1, 2>>})>>)}}

LimitTasks == {Measured(t) : t \in
    {Task(3, {3}, <<T(1, {<<1, 2>>, <<2, 3>>}), T(3, {<<1, 3>>}), T(4, {<<2, 3>>})>>)}}
=============================================================================
