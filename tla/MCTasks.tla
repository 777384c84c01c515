------------------------------ MODULE MCTasks -------------------------------
(***************************************************************************)
(* Tasks for TLC: a few graphs with the shapes that make best-first search *)
(* hard, each with every heuristic over a few values, several costs and    *)
(* states to avoid.  State 0 is the initial state.                         *)
(***************************************************************************)
EXTENDS Integers, FiniteSets

MCState == 0..4
MCOp == 0..2
MCNoState == -1
MCNoOp == -1
MCDeadEnd == 20
MCInfinity == 20
MCMaxDist == 9

\* Edges <<operator, from, to>>.
Graph(edges) ==
    [o \in MCOp |-> [s \in MCState |->
        IF \E u \in MCState : <<o, s, u>> \in edges
        THEN CHOOSE u \in MCState : <<o, s, u>> \in edges ELSE MCNoState]]

\* Two ways to 2, the longer maybe cheaper: 2 is reopened, and with it 3.
Detour == Graph({<<2, 0, 2>>, <<0, 0, 1>>, <<1, 1, 2>>, <<0, 2, 3>>, <<1, 3, 4>>})

\* As Detour, but the expensive way to 2 is tried first.
Hasty == Graph({<<0, 0, 2>>, <<1, 0, 1>>, <<2, 1, 2>>, <<0, 2, 3>>, <<1, 3, 4>>})

\* A diamond with a shortcut and a way back.
Diamond == Graph({<<0, 0, 1>>, <<1, 0, 2>>, <<0, 1, 3>>, <<1, 2, 3>>, <<2, 1, 4>>,
                  <<0, 3, 4>>, <<2, 3, 0>>})

\* Cycles and self-loops, free of charge if operator 0 is.
Cycles == Graph({<<0, 0, 1>>, <<0, 1, 2>>, <<0, 2, 0>>, <<1, 1, 1>>, <<1, 2, 3>>,
                 <<2, 1, 3>>, <<0, 3, 4>>, <<1, 4, 2>>})

\* State 4 cannot be reached, state 3 leads nowhere.
Split == Graph({<<0, 0, 1>>, <<1, 0, 2>>, <<2, 1, 2>>, <<0, 2, 3>>, <<0, 4, 3>>})

Cost(a, b, c) == [o \in MCOp |-> CASE o = 0 -> a [] o = 1 -> b [] o = 2 -> c]
C113 == Cost(1, 1, 3)
C125 == Cost(1, 2, 5)
C311 == Cost(3, 1, 1)
C001 == Cost(0, 0, 1)

Least(S) == CHOOSE x \in S : \A y \in S : x <= y

\* The exact costs of reaching a goal, by Bellman-Ford.
Exact(succ, cost, goals, avoid) ==
    LET Via(d, s, o) ==
            IF succ[o][s] = MCNoState \/ d[succ[o][s]] = MCInfinity
            THEN MCInfinity ELSE cost[o] + d[succ[o][s]]
        round[n \in 0..Cardinality(MCState)] ==
            IF n = 0
            THEN [s \in MCState |-> IF s \in goals \ avoid THEN 0 ELSE MCInfinity]
            ELSE LET d == round[n - 1] IN
                 [s \in MCState |-> IF s \in avoid THEN MCInfinity
                                    ELSE Least({d[s]} \cup {Via(d, s, o) : o \in MCOp})]
    IN round[Cardinality(MCState)]

TasksOver(algs, graphs, costs, goals, avoids, hs) ==
    LET TasksOn(g, c, z, v) ==
            LET bound == Exact(g, c, z, v) IN
            {[alg |-> a, init |-> 0, succ |-> g, cost |-> c, goal |-> z, avoid |-> v,
              h |-> h, bound |-> bound] : a \in algs, h \in hs}
    IN UNION {TasksOn(g, c, z, v) : g \in graphs, c \in costs, z \in goals, v \in avoids}

HOver(values) == {h \in [MCState -> values] : h[4] # MCDeadEnd}

-----------------------------------------------------------------------------
Graphs4 == {Detour, Diamond, Cycles, Split}

AStarTasks ==
    TasksOver({"ASTAR"}, Graphs4, {C113, C125, C001}, {{4}}, {{}, {1}},
              HOver({0, 4, MCDeadEnd}))
    \cup TasksOver({"ASTAR"}, {Hasty}, {C311}, {{4}}, {{}}, HOver({0, 1, 4}))
    \cup TasksOver({"ASTAR"}, {Split}, {C113}, {{0}, {3}}, {{}, {0}}, HOver({0, MCDeadEnd}))

GreedyTasks ==
    TasksOver({"LAZY", "GBFS"}, Graphs4, {C125}, {{4}, {3}}, {{}, {1}},
              HOver({0, 2, MCDeadEnd}))
    \cup TasksOver({"LAZY", "GBFS"}, {Hasty}, {C311}, {{4}}, {{}}, HOver({0, 1}))
    \cup TasksOver({"LAZY", "GBFS"}, {Split}, {C001}, {{0}, {2, 3}}, {{}, {0}},
                   HOver({0, MCDeadEnd}))

AllTasks == AStarTasks \cup GreedyTasks
=============================================================================
