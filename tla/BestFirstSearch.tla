-------------------------- MODULE BestFirstSearch --------------------------
(***************************************************************************)
(* The ground best-first search of cpddl: pddlSearchBFS (search_bfs.c) on  *)
(* its open list (_open_list_splaytree.c), its state space                 *)
(* (fdr_state_space.c) and the extraction of the plan (plan.c), driven by  *)
(* the loop of bin/main.c and asnets.c: InitStep once, Step while it       *)
(* returns CONT, and the plan once it returns FOUND.                       *)
(*                                                                         *)
(* One planning task is drawn when the search is created.  A task gives    *)
(* the algorithm, the initial state, the partial function each operator    *)
(* is, the costs of the operators, the goal states, the states to avoid    *)
(* and the heuristic estimates.  States stand for their identifiers: the   *)
(* state pool maps equal states to one identifier.  The body of the loop   *)
(* over the applicable operators is an action of its own; it never runs    *)
(* concurrently with anything else.                                        *)
(*                                                                         *)
(* A definition marked "Mutant" is the one that follows it with a bug a    *)
(* programmer could make.  Nothing uses it; PROJECT.json says which        *)
(* property fails once it takes the place of the correct one.              *)
(***************************************************************************)
EXTENDS Integers, Sequences, FiniteSets

CONSTANTS State,     \* states of the task (pddl_state_id_t)
          Op,        \* operator identifiers, applied in increasing order
          Tasks,     \* planning tasks with the algorithm that solves them
          NoState,   \* PDDL_NO_STATE_ID
          NoOp,      \* the operator identifier -1
          DeadEnd    \* PDDL_COST_DEAD_END

Algs == {"ASTAR", "LAZY", "GBFS"}

\* What a task is: pddl_search_config_t and the parts of pddl_fdr_t it uses.
IsTask(t) ==
    /\ t.alg \in Algs
    /\ t.init \in State
    /\ t.succ \in [Op -> [State -> State \cup {NoState}]]
    /\ t.cost \in [Op -> Nat]
    /\ t.goal \subseteq State
    /\ t.avoid \subseteq State
    /\ t.h \in [State -> 0..DeadEnd]

ASSUME SearchAssumption ==
    /\ Op \subseteq Nat
    /\ NoState \notin State
    /\ NoOp \notin Op
    /\ DeadEnd \in Nat \ {0}
    /\ \A t \in Tasks : IsTask(t)

VARIABLES
    task,     \* the task being solved
    pc,       \* where the driver and the search are
    ret,      \* pddl_search_status_t of the last call
    node,     \* the state space: search node of every state
    open,     \* the open list: FIFO of states under every key present
    cur,      \* cur_node: the search's own copy of the node it expands
    todo,     \* applicable operators the loop of bfsStep has left
    hcur,     \* h_value of bfsStep: -1, or the estimate of cur (lazy)
    goal,     \* goal_state_id and goal_g_value
    last_f,   \* stat.last_f_value: f-value of the node closed last
    plan      \* pddl_plan_t

vars == <<task, pc, ret, node, open, cur, todo, hcur, goal, last_f, plan>>

-----------------------------------------------------------------------------
(* The configurations of pddlSearchNew. *)

GWeight  == IF task.alg = "ASTAR" THEN 1 ELSE 0
HWeight  == 1
IsGreedy == task.alg # "ASTAR"
IsLazy   == task.alg = "LAZY"
Reopen   == task.alg = "ASTAR"

-----------------------------------------------------------------------------
(* The open list: a FIFO per cost pair, the least pair served first. *)

\* Mutant: the estimate is compared before the f-value.
KeyLeqByH(k, l) == k[2] < l[2] \/ (k[2] = l[2] /\ k[1] <= l[1])

KeyLeq(k, l) == k[1] < l[1] \/ (k[1] = l[1] /\ k[2] <= l[2])

IsMinKey(k) == k \in DOMAIN open /\ \A l \in DOMAIN open : KeyLeq(k, l)

\* Mutant: a FIFO present under the key is replaced.
OpenPushReplaces(k, s) ==
    [l \in DOMAIN open \cup {k} |-> IF l = k THEN <<s>> ELSE open[l]]

OpenPush(k, s) ==
    [l \in DOMAIN open \cup {k} |->
        IF l # k THEN open[l]
        ELSE IF k \in DOMAIN open THEN Append(open[k], s) ELSE <<s>>]

\* Mutant: an empty FIFO stays in the tree.
OpenPopKeepsKey(k) == [open EXCEPT ![k] = Tail(@)]

\* A key whose FIFO gets empty leaves the tree.
OpenPop(k) ==
    [l \in {m \in DOMAIN open : m # k \/ Len(open[k]) > 1} |->
        IF l = k THEN Tail(open[k]) ELSE open[l]]

-----------------------------------------------------------------------------
(* The helpers of search_bfs.c. *)

NewNode == [status |-> "NEW", g |-> -1, parent |-> NoState, op |-> NoOp]

\* Mutant: A* orders by the estimate alone.
KeyWithoutG(g, h) == <<HWeight * h, h>>

Key(g, h) == <<GWeight * g + HWeight * h, h>>

IsGoal(s)  == s \in task.goal
IsAvoid(s) == s \in task.avoid

\* bfsCheckGoal on a goal state: the g-value kept is that of cur_node.
GoalAt(s, g) ==
    IF goal.id = NoState \/ goal.g > g THEN [id |-> s, g |-> g] ELSE goal

Applicable(s) == {o \in Op : task.succ[o][s] # NoState}

\* Mutants: a path of the same cost is taken for a better one; the node is not
\* checked to be new; a closed node is not compared.
HasBetterStrict(s, g) == node[s].status # "NEW" /\ node[s].g < g
HasBetterOfNew(s, g) == node[s].g <= g
HasBetterOfOpen(s, g) == node[s].status = "OPEN" /\ node[s].g <= g

\* bfsInsertNextState returns early: an equal or better path is known ...
HasBetter(s, g) == node[s].status # "NEW" /\ node[s].g <= g

\* Mutants: no algorithm reopens; every algorithm does.
MayNotReopenEver(s) == node[s].status = "CLOSED"
MayNotReopenNever(s) == FALSE

\* ... or the state is closed and the algorithm does not reopen.
MayNotReopen(s) == node[s].status = "CLOSED" /\ ~Reopen

\* The h_value used for a successor: the parent's if lazy, else its own.
SuccessorH(s) == IF hcur >= 0 THEN hcur ELSE task.h[s]

-----------------------------------------------------------------------------
NoPlan == [state |-> <<>>, op |-> <<>>, cost |-> 0]

Init ==
    /\ task \in Tasks
    /\ pc = "init"
    /\ ret = "CONT"
    /\ node = [s \in State |-> NewNode]
    /\ open = << >>
    /\ cur = [id |-> NoState, g |-> 0]
    /\ todo = {}
    /\ hcur = -1
    /\ goal = [id |-> NoState, g |-> 0]
    /\ last_f = 0
    /\ plan = NoPlan

\* What the driver does with the status InitStep or Step returned.
Return(r) ==
    /\ ret' = r
    /\ pc' = CASE r = "CONT"  -> "loop"
               [] r = "FOUND" -> "extract"
               [] OTHER       -> "done"

-----------------------------------------------------------------------------
(* bfsInitStep.  The initial state is evaluated before it is checked, so   *)
(* a dead end returns UNSOLVABLE unless the state is a goal; a state to    *)
(* avoid is never pushed and its node stays NEW.                           *)

InitStatus == IF task.h[task.init] = DeadEnd THEN "UNSOLVABLE" ELSE "CONT"

InitAvoided ==
    /\ pc = "init"
    /\ IsAvoid(task.init)
    /\ cur' = [id |-> task.init, g |-> 0]
    /\ Return(InitStatus)
    /\ UNCHANGED <<task, node, open, todo, hcur, goal, last_f, plan>>

InitPushed ==
    /\ pc = "init"
    /\ ~IsAvoid(task.init)
    /\ cur' = [id |-> task.init, g |-> 0]
    /\ node' = [node EXCEPT ![task.init] =
                    [status |-> "OPEN", g |-> 0, parent |-> NoState, op |-> NoOp]]
    /\ open' = OpenPush(Key(0, task.h[task.init]), task.init)
    /\ goal' = IF IsGoal(task.init) THEN GoalAt(task.init, 0) ELSE goal
    /\ Return(IF IsGoal(task.init) THEN "FOUND" ELSE InitStatus)
    /\ UNCHANGED <<task, todo, hcur, last_f, plan>>

-----------------------------------------------------------------------------
(* bfsStep up to the loop over the applicable operators. *)

Close(s) == [node EXCEPT ![s].status = "CLOSED"]

\* The node under the least key is taken from the open list into cur_node.
Pop(k) ==
    /\ pc = "loop"
    /\ IsMinKey(k)
    /\ open' = OpenPop(k)
    /\ cur' = [id |-> Head(open[k]), g |-> node[Head(open[k])].g]

\* The open list is empty.
StepEmpty ==
    /\ pc = "loop"
    /\ DOMAIN open = {}
    /\ Return("UNSOLVABLE")
    /\ UNCHANGED <<task, node, open, cur, todo, hcur, goal, last_f, plan>>

\* An entry of a node that is closed already is dropped.
StepSkip(k) ==
    /\ Pop(k)
    /\ node[Head(open[k])].status # "OPEN"
    /\ UNCHANGED <<task, pc, ret, node, todo, hcur, goal, last_f, plan>>

\* A state to avoid is closed and not expanded.
StepAvoid(k) ==
    LET s == Head(open[k]) IN
    /\ Pop(k)
    /\ node[s].status = "OPEN"
    /\ IsAvoid(s)
    /\ node' = Close(s)
    /\ last_f' = k[1]
    /\ UNCHANGED <<task, pc, ret, todo, hcur, goal, plan>>

\* A non-greedy search stops at a goal state it takes from the open list.
StepGoal(k) ==
    LET s == Head(open[k]) IN
    /\ Pop(k)
    /\ node[s].status = "OPEN"
    /\ ~IsAvoid(s)
    /\ ~IsGreedy
    /\ IsGoal(s)
    /\ node' = Close(s)
    /\ last_f' = k[1]
    /\ goal' = GoalAt(s, node[s].g)
    /\ Return("FOUND")
    /\ UNCHANGED <<task, todo, hcur, plan>>

Expandable(s) ==
    /\ node[s].status = "OPEN"
    /\ ~IsAvoid(s)
    /\ IsGreedy \/ ~IsGoal(s)

EvaluatesCur(s) == IsLazy /\ Applicable(s) # {}

\* The lazy search finds the node it expands to be a dead end.
StepDeadEnd(k) ==
    LET s == Head(open[k]) IN
    /\ Pop(k)
    /\ Expandable(s)
    /\ EvaluatesCur(s)
    /\ task.h[s] = DeadEnd
    /\ node' = Close(s)
    /\ last_f' = k[1]
    /\ UNCHANGED <<task, pc, ret, todo, hcur, goal, plan>>

StepExpand(k) ==
    LET s == Head(open[k]) IN
    /\ Pop(k)
    /\ Expandable(s)
    /\ EvaluatesCur(s) => task.h[s] # DeadEnd
    /\ node' = Close(s)
    /\ last_f' = k[1]
    /\ todo' = Applicable(s)
    /\ hcur' = IF EvaluatesCur(s) THEN task.h[s] ELSE -1
    /\ pc' = "expand"
    /\ UNCHANGED <<task, ret, goal, plan>>

-----------------------------------------------------------------------------
(* The loop of bfsStep over the applicable operators: bfsInsertNextState   *)
(* and, in a greedy search, the goal check.                                *)

NextOp(o) == pc = "expand" /\ o \in todo /\ \A p \in todo : o <= p

\* Mutant: the node expanded is checked in place of its successor.
CheckGeneratedCur(o, s) ==
    IF IsGreedy /\ ~IsAvoid(cur.id) /\ IsGoal(cur.id)
    THEN goal' = GoalAt(cur.id, cur.g) /\ todo' = {} /\ Return("FOUND")
    ELSE todo' = todo \ {o} /\ UNCHANGED <<goal, pc, ret>>

\* Mutant: the loop does not get past the operator.
CheckGeneratedKeepsOp(o, s) ==
    IF IsGreedy /\ ~IsAvoid(s) /\ IsGoal(s)
    THEN goal' = GoalAt(s, cur.g) /\ todo' = {} /\ Return("FOUND")
    ELSE UNCHANGED <<todo, goal, pc, ret>>

\* A greedy search stops as soon as a goal state is generated; what it keeps
\* as the g-value of the goal is the g-value of the node it expands.
CheckGenerated(o, s) ==
    IF IsGreedy /\ ~IsAvoid(s) /\ IsGoal(s)
    THEN /\ goal' = GoalAt(s, cur.g)
         /\ todo' = {}
         /\ Return("FOUND")
    ELSE /\ todo' = todo \ {o}
         /\ UNCHANGED <<goal, pc, ret>>

SkipsSuccessor(s, g) == HasBetter(s, g) \/ MayNotReopen(s)

ExpandSkip(o) ==
    LET s == task.succ[o][cur.id] IN
    /\ NextOp(o)
    /\ SkipsSuccessor(s, cur.g + task.cost[o])
    /\ CheckGenerated(o, s)
    /\ UNCHANGED <<task, node, open, cur, hcur, last_f, plan>>

ReachedFrom(o, status) ==
    [status |-> status, g |-> cur.g + task.cost[o], parent |-> cur.id, op |-> o]

ExpandDeadEnd(o) ==
    LET s == task.succ[o][cur.id] IN
    /\ NextOp(o)
    /\ ~SkipsSuccessor(s, cur.g + task.cost[o])
    /\ SuccessorH(s) = DeadEnd
    /\ node' = [node EXCEPT ![s] = ReachedFrom(o, "CLOSED")]
    /\ CheckGenerated(o, s)
    /\ UNCHANGED <<task, open, cur, hcur, last_f, plan>>

ExpandPush(o) ==
    LET s == task.succ[o][cur.id]
        g == cur.g + task.cost[o]
    IN
    /\ NextOp(o)
    /\ ~SkipsSuccessor(s, g)
    /\ SuccessorH(s) # DeadEnd
    /\ node' = [node EXCEPT ![s] = ReachedFrom(o, "OPEN")]
    /\ open' = OpenPush(Key(g, SuccessorH(s)), s)
    /\ CheckGenerated(o, s)
    /\ UNCHANGED <<task, cur, hcur, last_f, plan>>

\* All applicable operators were applied: bfsStep returns CONT.
ExpandEnd ==
    /\ pc = "expand"
    /\ todo = {}
    /\ Return("CONT")
    /\ UNCHANGED <<task, node, open, cur, todo, hcur, goal, last_f, plan>>

-----------------------------------------------------------------------------
(* The driver gives up between two steps: a termination signal in          *)
(* bin/main.c, the time limit in asnets.c.                                 *)

Abort ==
    /\ pc = "loop"
    /\ Return("ABORT")
    /\ UNCHANGED <<task, node, open, cur, todo, hcur, goal, last_f, plan>>

-----------------------------------------------------------------------------
(* pddlPlanLoadBacktrack: the parents are followed from the goal state to  *)
(* the node without a parent, and the states met are reversed.             *)

Extract ==
    /\ pc = "extract"
    /\ plan' = [state |-> <<goal.id>>, op |-> << >>, cost |-> 0]
    /\ pc' = "backtrack"
    /\ UNCHANGED <<task, ret, node, open, cur, todo, hcur, goal, last_f>>

Backtrack ==
    /\ pc = "backtrack"
    /\ node[Head(plan.state)].parent # NoState
    /\ plan' = [plan EXCEPT !.state = <<node[Head(@)].parent>> \o @]
    /\ UNCHANGED <<task, pc, ret, node, open, cur, todo, hcur, goal, last_f>>

\* Mutant: the operator is read from the state it leaves, not the one it reaches.
PlanOfShifted(path) ==
    [state |-> path,
     op |-> [i \in 1..(Len(path) - 1) |-> node[path[i]].op],
     cost |-> IF Len(path) = 1 THEN 0 ELSE node[path[Len(path)]].g]

\* The operators, and the cost: the g-value of the last state, or 0 when the
\* plan has no operator.
PlanOf(path) ==
    [state |-> path,
     op |-> [i \in 1..(Len(path) - 1) |-> node[path[i + 1]].op],
     cost |-> IF Len(path) = 1 THEN 0 ELSE node[path[Len(path)]].g]

LoadPlan ==
    /\ pc = "backtrack"
    /\ node[Head(plan.state)].parent = NoState
    /\ plan' = PlanOf(plan.state)
    /\ pc' = "done"
    /\ UNCHANGED <<task, ret, node, open, cur, todo, hcur, goal, last_f>>

-----------------------------------------------------------------------------
InitStep == InitAvoided \/ InitPushed

Step ==
    \/ StepEmpty
    \/ \E k \in DOMAIN open :
          StepSkip(k) \/ StepAvoid(k) \/ StepGoal(k) \/ StepDeadEnd(k) \/ StepExpand(k)
    \/ \E o \in todo : ExpandSkip(o) \/ ExpandDeadEnd(o) \/ ExpandPush(o)
    \/ ExpandEnd

ExtractPlan == Extract \/ Backtrack \/ LoadPlan

Next == InitStep \/ Step \/ Abort \/ ExtractPlan

Spec == Init /\ [][Next]_vars

\* The driver calls Step as long as it returns CONT and extracts the plan.
FairSpec == Spec /\ WF_vars(InitStep \/ Step \/ ExtractPlan)
-----------------------------------------------------------------------------
(* Properties. *)

Node == [status : {"NEW", "OPEN", "CLOSED"}, g : Int,
         parent : State \cup {NoState}, op : Op \cup {NoOp}]

OpenTypeOK ==
    /\ DOMAIN open \subseteq Int \X (0..DeadEnd)
    /\ \A k \in DOMAIN open : open[k] \in Seq(State) /\ open[k] # << >>

\* Every variable has its type; the keys of the open list hold non-empty FIFOs,
\* cur_node is loaded when the loop over operators starts, and the extraction of
\* a plan starts from a state.
TypeOK ==
    /\ IsTask(task)
    /\ pc \in {"init", "loop", "expand", "extract", "backtrack", "done"}
    /\ ret \in {"CONT", "UNSOLVABLE", "FOUND", "ABORT"}
    /\ node \in [State -> Node]
    /\ OpenTypeOK
    /\ cur \in [id : State \cup {NoState}, g : Int]
    /\ pc = "expand" => cur.id \in State
    /\ todo \subseteq Op
    /\ hcur \in -1..DeadEnd
    /\ goal \in [id : State \cup {NoState}, g : Int]
    /\ pc = "extract" => goal.id \in State
    /\ last_f \in Int
    /\ plan \in [state : Seq(State), op : Seq(Op \cup {NoOp}), cost : Int]
    /\ pc = "backtrack" => plan.state # << >>

Reached(s) == node[s].status # "NEW"

IsRoot(s) == node[s].parent = NoState

\* Node s was last reached from its parent by its operator; the parent may
\* have got a smaller g-value since.
IsChild(s) ==
    LET p == node[s].parent IN
    /\ p \in State /\ Reached(p) /\ ~IsAvoid(p)
    /\ node[s].op \in Op /\ task.succ[node[s].op][p] = s
    /\ node[s].g >= node[p].g + task.cost[node[s].op]

\* The parent pointers written by bfsInsertNextState always form a tree of
\* real transitions rooted at the initial state, whatever was re-parented
\* or reopened in between (search_bfs.c:166-168, read by plan.c:59-79).
SearchTree ==
    \A s \in State : Reached(s) =>
        \/ s = task.init /\ IsRoot(s) /\ node[s].g = 0
        \/ s # task.init /\ IsChild(s)

Listed(o, k, s) == k \in DOMAIN o /\ \E i \in 1..Len(o[k]) : o[k][i] = s

\* No open node is lost: it is in the open list, in A* under the key of its
\* current g-value and estimate, although outdated entries of it may remain.
OpenListed ==
    \A s \in State : node[s].status = "OPEN" =>
        \E k \in DOMAIN open :
            Listed(open, k, s) /\ (Reopen => k = Key(node[s].g, task.h[s]))

\* No entry of the open list promises less than the node now has, so that
\* the least key bounds the f-value of every open node in A*.
EntriesNotTooGood ==
    Reopen => \A k \in DOMAIN open : \A s \in State :
                  Listed(open, k, s) => k[1] >= node[s].g + task.h[s]

\* cur_node is a copy: while its successors are inserted in the state space,
\* one of which may be the node itself, the copy stays what is stored there.
CurNotStale ==
    pc = "expand" => node[cur.id].status = "CLOSED" /\ node[cur.id].g = cur.g

\* A closed node was expanded to the end, unless it is a dead end, avoided,
\* or cur_node: the node being expanded, or at which a plan was found.
Expanded(s) ==
    /\ node[s].status = "CLOSED"
    /\ task.h[s] # DeadEnd
    /\ ~IsAvoid(s)
    /\ ~(cur.id = s /\ (pc = "expand" \/ ret = "FOUND"))

\* Every successor of an expanded node was reached, in A* with no worse a
\* g-value than through that node: what the completeness of the search and
\* the optimality of A* rest on.
SuccessorsReached ==
    \A s \in State : \A o \in Applicable(s) : Expanded(s) =>
        LET t == task.succ[o][s] IN
        Reached(t) /\ (Reopen => node[t].g <= node[s].g + task.cost[o])

\* A greedy search goes on only while no goal state was generated.
GreedyStops ==
    IsGreedy /\ pc = "loop" =>
        \A s \in task.goal \ task.avoid : ~Reached(s)

Planned == pc = "done" /\ ret = "FOUND"

\* The plan extracted leads from the initial state to a goal state by
\* applicable operators, meets no state twice and none to avoid.
PlanCorrect ==
    Planned =>
        LET path == plan.state
            n == Len(path)
        IN  /\ n > 0 /\ path[1] = task.init /\ IsGoal(path[n])
            /\ Len(plan.op) = n - 1
            /\ \A i \in 1..(n - 1) :
                  plan.op[i] \in Op /\ task.succ[plan.op[i]][path[i]] = path[i + 1]
            /\ \A i \in 1..n : ~IsAvoid(path[i])
            /\ \A i, j \in 1..n : path[i] = path[j] => i = j

\* Every search ends: with a plan read back, or with none.
Termination == <>(pc = "done")

\* The cost of the operators of the plan.
OpsCost(ops) ==
    LET upTo[n \in 0..Len(ops)] == IF n = 0 THEN 0 ELSE upTo[n - 1] + task.cost[ops[n]]
    IN upTo[Len(ops)]

\* The cost of a plan, read from the g-value of its last node, is the cost of
\* its operators.  In between the g-value of a node may be above the cost of its
\* path, when A* reopened a predecessor; but a goal state is never taken from
\* the open list before those g-values are corrected.
PlanCost == Planned => plan.cost = OpsCost(plan.op)
=============================================================================
