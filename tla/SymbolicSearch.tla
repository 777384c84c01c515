--------------------------- MODULE SymbolicSearch ---------------------------
(* Symbolic search of src/symbolic_task.c: uniform-cost search over sets of  *)
(* states, forward from the initial state, backward from the goal, or in     *)
(* both directions until the two meet.  A step of the backward direction of  *)
(* a bidirectional search has a time limit.                                  *)
(*                                                                           *)
(* Left out: heuristics (h is 0, so f is the cost), goal splitting, mutex    *)
(* constraints, statistics.  A BDD is the set of states it stands for, and   *)
(* the one of a node is made when the node is: a later moment gives the same *)
(* set once the closed states have been taken out.                           *)
EXTENDS Naturals, Sequences, FiniteSets, Functions, FiniteSetsExt

CONSTANTS Tasks,      \* states, init, goal, and trans: a sequence, by cost, of
                      \* the cost and the edges of the operators of one cost;
                      \* shortest is for reference: per direction the pairs of a
                      \* state and the cost of a cheapest walk to it
          Modes,      \* the searches: "fw", "bw", "fwbw"
          StepLimit,  \* whether a backward step may run into its time limit
          Unit,       \* what cost 1 weighs against operators of cost 0
          MaxCost     \* pddl_cost_max

Dirs == {"fw", "bw"}
Other(d) == IF d = "fw" THEN "bw" ELSE "fw"

(* pddl_cost_t compares costs first and counts operators of cost 0 next.     *)
OpCost(t) == IF t.cost = 0 THEN 1 ELSE t.cost * Unit

IsTask(t) ==
    /\ t.init \in t.states /\ t.goal \subseteq t.states
    /\ t.trans \in Seq([cost : Nat, edges : SUBSET (t.states \X t.states)])

(* Where walks begin, and their arcs with what they cost.                    *)
Sources(t, d) == IF d = "fw" THEN {t.init} ELSE t.goal

Arcs(t, d) ==
    UNION {{IF d = "fw" THEN <<e[1], e[2], OpCost(r)>> ELSE <<e[2], e[1], OpCost(r)>> :
               e \in r.edges} : r \in Range(t.trans)}

(* The pairs of P are the states that can be reached with their least costs: *)
(* no arc leads to a state more cheaply, and one leads to it for its cost.    *)
AreShortest(t, d, P) ==
    /\ P \subseteq t.states \X Nat
    /\ \A p, q \in P : p[1] = q[1] => p[2] = q[2]
    /\ Sources(t, d) \X {0} \subseteq P
    /\ \A p \in P : \A a \in Arcs(t, d) : a[1] = p[1] =>
          \E q \in P : q[1] = a[2] /\ q[2] <= p[2] + a[3]
    /\ \A p \in P : \/ p \in Sources(t, d) \X {0}
                     \/ \E a \in Arcs(t, d) : \E q \in P :
                           q[1] = a[1] /\ a[2] = p[1] /\ p[2] = q[2] + a[3]

(* The costs of two walks and of an operator together are below MaxCost.     *)
CostsFit(t) ==
    \A p \in t.shortest["fw"] : \A q \in t.shortest["bw"] :
        /\ p[2] + q[2] < MaxCost
        /\ \A r \in Range(t.trans) : p[2] + q[2] + OpCost(r) < MaxCost

ASSUME ParameterAssumption ==
    /\ Modes \subseteq {"fw", "bw", "fwbw"}
    /\ StepLimit \in BOOLEAN /\ Unit \in Nat \ {0} /\ MaxCost \in Nat

ASSUME TaskAssumption ==
    \A t \in Tasks : /\ IsTask(t)
                     /\ \A d \in Dirs : AreShortest(t, d, t.shortest[d])
                     /\ CostsFit(t)

VARIABLES
    task,
    mode,
    pool,     \* per direction: its nodes (pddl_symbolic_state_t)
    open,     \* per direction: the open nodes
    closed,   \* per direction: the closed nodes
    bound,    \* the cost of the best plan found by meeting
    goalId,   \* per direction: the node where that plan meets the other half
    cont,     \* per direction: what its last step returned
    pc,       \* what the search is doing
    dir,      \* the direction that steps, or that a plan is traced in
    cur,      \* the node it expands, or has traced the plan to
    tri,      \* the next transition relation to expand with
    at,       \* the state that the plan has been traced to
    cut,      \* the state where the halves of the plan meet
    plan      \* the plan, as edges with their transition relations

nodeVars == <<pool, open, closed>>
stepVars == <<dir, cur, tri>>
planVars == <<at, cut, plan>>
vars == <<task, mode, nodeVars, bound, goalId, cont, pc, stepVars, planVars>>

Both == mode = "fwbw"

Source(d) == Sources(task, d)
Target(d) == Source(Other(d))

Image(d, t, B) == IF d = "fw" THEN {e[2] : e \in {x \in t.edges : x[1] \in B}}
                              ELSE {e[1] : e \in {x \in t.edges : x[2] \in B}}

BackImage(d, t, B) == Image(Other(d), t, B)

NoNode == 0

Root(B) == [cost |-> 0, parent |-> NoNode, parents |-> {}, trans |-> 0, bdd |-> B]
Child(c, i, n, B) == [cost |-> c, parent |-> i, parents |-> {}, trans |-> n, bdd |-> B]
Merged(c, S, B) == [cost |-> c, parent |-> NoNode, parents |-> S, trans |-> 0, bdd |-> B]

Cost(d, i) == pool[d][i].cost
Bdd(d, i) == pool[d][i].bdd
AllClosed(d) == UNION {Bdd(d, i) : i \in closed[d]}
MinOpenCost(d) == Min({Cost(d, i) : i \in open[d]})

Init ==
    /\ task \in Tasks
    /\ mode \in Modes
    /\ pool = [d \in Dirs |-> IF mode \in {d, "fwbw"} THEN <<Root(Source(d))>> ELSE <<>>]
    /\ open = [d \in Dirs |-> DOMAIN pool[d]]
    /\ closed = [d \in Dirs |-> {}]
    /\ bound = MaxCost
    /\ goalId = [d \in Dirs |-> NoNode]
    /\ cont = [d \in Dirs |-> "cont"]
    /\ pc = "drive"
    /\ dir = "fw" /\ cur = NoNode /\ tri = 1
    /\ at = task.init /\ cut = task.init
    /\ plan = <<>>

---------------------------------------------------------------------------
(* Which direction steps next.  The estimates that decide it in a            *)
(* bidirectional search are left open; they are equal at first, which makes  *)
(* the first step a forward one.                                             *)
(* Mutant: the search ends at the first plan.                                *)
GoesOnUntilMet == open["fw"] # {} /\ open["bw"] # {} /\ bound = MaxCost

GoesOn ==
    /\ open["fw"] # {} /\ open["bw"] # {}
    /\ MinOpenCost("fw") + MinOpenCost("bw") < bound

MayStep(d) ==
    /\ pc = "drive"
    /\ cont[d] = "cont"
    /\ IF Both THEN GoesOn /\ (d = "bw" => closed["fw"] # {}) ELSE mode = d

(* Mutant: the node opened first.                                            *)
IsTopOldest(d, i) == i = Min(open[d])

IsTop(d, i) == i \in open[d] /\ \A j \in open[d] : Cost(d, i) <= Cost(d, j)

(* Mutant: the node is read and stays in the open list.                      *)
PoppedPeek(d, i) == i \in open[d] /\ UNCHANGED open

Popped(d, i) == open' = [open EXCEPT ![d] = @ \ {i}]

StepNone(d) ==
    /\ MayStep(d)
    /\ open[d] = {}
    /\ cont' = [cont EXCEPT ![d] = "notexist"]
    /\ UNCHANGED <<task, mode, nodeVars, bound, goalId, pc, stepVars, planVars>>

StepEmpty(d) ==
    /\ MayStep(d)
    /\ \E i \in open[d] : IsTop(d, i) /\ Bdd(d, i) = {} /\ Popped(d, i)
    /\ UNCHANGED <<task, mode, pool, closed, bound, goalId, cont, pc, stepVars, planVars>>

(* planNextState: a merged node stands for those it was merged from.         *)
(* Mutant: the first of them is taken.                                       *)
ResolvedFirst(d, i, s) ==
    IF pool[d][i].parents = {} THEN {i} ELSE {Min(pool[d][i].parents)}

Resolved(d, i, s) ==
    IF pool[d][i].parents = {} THEN {i}
    ELSE LET with == {p \in pool[d][i].parents : s \in Bdd(d, p)}
         IN  IF with = {} THEN {} ELSE {Min(with)}

(* planInit begins at a state of node i.                                     *)
Trace(d, i, s) ==
    /\ dir' = d
    /\ at' = s
    /\ IF Resolved(d, i, s) = {}
       THEN pc' = "panic" /\ UNCHANGED cur
       ELSE pc' = "trace" /\ cur' \in Resolved(d, i, s)

StepGoal(d) ==
    /\ MayStep(d)
    /\ \E i \in open[d] :
          /\ IsTop(d, i)
          /\ Cost(d, i) <= bound
          /\ Popped(d, i)
          /\ goalId' = [goalId EXCEPT ![d] = i]
          /\ \E s \in Bdd(d, i) \cap Target(d) : Trace(d, i, s)
    /\ cont' = [cont EXCEPT ![d] = "found"]
    /\ UNCHANGED <<task, mode, pool, closed, bound, tri, cut, plan>>

(* checkGoal2: the cheapest closed node of the other direction that shares a *)
(* state with node i, of cost c and states B, if that makes a better plan.   *)
Partners(d, c, B) ==
    {j \in closed[Other(d)] :
        c + Cost(Other(d), j) < bound /\ Bdd(Other(d), j) \cap B # {}}

(* Mutant: the other direction is not told.                                  *)
MeetOneSided(d, i, c, B) ==
    LET P == Partners(d, c, B)
    IN  IF ~Both \/ P = {}
        THEN UNCHANGED <<bound, goalId>>
        ELSE /\ bound' = c + Min({Cost(Other(d), j) : j \in P})
             /\ goalId' = [goalId EXCEPT ![d] = i]

Meet(d, i, c, B) ==
    LET P == Partners(d, c, B)
        cheapest == Min({Cost(Other(d), j) : j \in P})
        j == Min({k \in P : Cost(Other(d), k) = cheapest})
    IN  IF ~Both \/ P = {}
        THEN UNCHANGED <<bound, goalId>>
        ELSE /\ bound' = c + cheapest
             /\ goalId' = [goalId EXCEPT ![d] = i, ![Other(d)] = j]

LastTrans == Len(task.trans)

(* Node i is taken to be expanded, unless it costs too much.                 *)
StepOn(d) ==
    /\ MayStep(d)
    /\ \E i \in open[d] :
          LET worth == Cost(d, i) <= bound
          IN  /\ IsTop(d, i)
              /\ Bdd(d, i) # {}
              /\ worth => Bdd(d, i) \cap Target(d) = {}
              /\ Popped(d, i)
              /\ IF worth THEN Meet(d, i, Cost(d, i), Bdd(d, i))
                          ELSE UNCHANGED <<bound, goalId>>
              /\ tri' = IF worth /\ ~(Bdd(d, i) \subseteq AllClosed(d))
                        THEN 1 ELSE LastTrans + 1
              /\ cur' = i
    /\ dir' = d
    /\ pc' = "expand"
    /\ UNCHANGED <<task, mode, pool, closed, cont, planVars>>

---------------------------------------------------------------------------
(* The next transition relation.  A child that costs as much as the bound is *)
(* not made.                                                                 *)
ChildCost == Cost(dir, cur) + OpCost(task.trans[tri])

ChildBdd == Image(dir, task.trans[tri], Bdd(dir, cur)) \ AllClosed(dir)

(* Mutant: the node is numbered after the counter was incremented.           *)
AddChildLate(B) ==
    /\ pool' = [pool EXCEPT ![dir] = Append(@, Child(ChildCost, cur, tri, B))]
    /\ open' = [open EXCEPT ![dir] = @ \cup {Len(pool[dir]) + 2}]

AddChild(B) ==
    LET c == Child(ChildCost, cur, tri, B)
    IN  /\ pool' = [pool EXCEPT ![dir] = Append(@, c)]
        /\ open' = [open EXCEPT ![dir] = @ \cup {Len(pool[dir]) + 1}]

ExpandChild ==
    /\ pc = "expand"
    /\ tri <= LastTrans
    /\ ChildCost < bound
    /\ AddChild(ChildBdd)
    /\ Meet(dir, Len(pool[dir]) + 1, ChildCost, ChildBdd)
    /\ tri' = tri + 1
    /\ UNCHANGED <<task, mode, closed, cont, pc, dir, cur, planVars>>

ExpandSkip ==
    /\ pc = "expand"
    /\ tri <= LastTrans
    /\ ChildCost >= bound
    /\ tri' = tri + 1
    /\ UNCHANGED <<task, mode, nodeVars, bound, goalId, cont, pc, dir, cur, planVars>>

Limited == StepLimit /\ Both /\ dir = "bw"

(* The image is not ready in time: the child stays open without a BDD, and   *)
(* the node that is expanded is neither open nor closed any more.            *)
ExpandTimeOut ==
    /\ pc = "expand"
    /\ tri <= LastTrans
    /\ ChildCost < bound
    /\ Limited
    /\ AddChild({})
    /\ cont' = [cont EXCEPT ![dir] = "abort"]
    /\ pc' = "drive"
    /\ UNCHANGED <<task, mode, closed, bound, goalId, stepVars, planVars>>

(* searchPrepareNext: nodes without states that are still to be closed are   *)
(* dropped from the top of the open list, and the nodes of the lowest cost   *)
(* that are left there are merged into one.                                  *)
Alive(done) == {j \in open[dir] : ~(Bdd(dir, j) \subseteq done)}
Out(done) == {j \in open[dir] : \A k \in Alive(done) : Cost(dir, j) <= Cost(dir, k)}
Top(done) == Alive(done) \cap Out(done)

Stripped(done) ==
    [j \in DOMAIN pool[dir] |-> IF j \in Out(done) THEN [pool[dir][j] EXCEPT !.bdd = @ \ done]
                                                  ELSE pool[dir][j]]

MergedTop(done) == Merged(Min({Cost(dir, j) : j \in Top(done)}), Top(done),
                          (UNION {Bdd(dir, j) : j \in Top(done)}) \ done)

PrepareNext(done) ==
    IF \E j, k \in Top(done) : j # k
    THEN /\ pool' = [pool EXCEPT ![dir] = Append(Stripped(done), MergedTop(done))]
         /\ open' = [open EXCEPT ![dir] = (@ \ Out(done)) \cup {Len(pool[dir]) + 1}]
    ELSE /\ pool' = [pool EXCEPT ![dir] = Stripped(done)]
         /\ open' = [open EXCEPT ![dir] = (@ \ Out(done)) \cup Top(done)]

(* The node is closed.  A backward step may turn out to have taken too long; *)
(* one that found a plan may not, since the closed initial state would have  *)
(* been met before and had stopped the search.                               *)
ExpandEnd ==
    /\ pc = "expand"
    /\ tri > LastTrans
    /\ closed' = [closed EXCEPT ![dir] = @ \cup {cur}]
    /\ PrepareNext(AllClosed(dir) \cup Bdd(dir, cur))
    /\ \E r \in {"cont"} \cup (IF Limited THEN {"abort"} ELSE {}) :
          cont' = [cont EXCEPT ![dir] = r]
    /\ pc' = "drive"
    /\ UNCHANGED <<task, mode, bound, goalId, stepVars, planVars>>

---------------------------------------------------------------------------
(* The end.                                                                  *)
StepNotExist(d) ==
    /\ pc = "drive"
    /\ mode = d
    /\ cont[d] = "notexist"
    /\ pc' = "notexist"
    /\ UNCHANGED <<task, mode, nodeVars, bound, goalId, cont, stepVars, planVars>>

NoMeeting ==
    /\ pc = "drive"
    /\ Both /\ ~GoesOn
    /\ goalId["fw"] = NoNode
    /\ pc' = "notexist"
    /\ UNCHANGED <<task, mode, nodeVars, bound, goalId, cont, stepVars, planVars>>

(* fwbwExtractPlan: a state of both halves; without one the program panics.  *)
Meeting ==
    /\ pc = "drive"
    /\ Both /\ ~GoesOn
    /\ goalId["fw"] # NoNode
    /\ LET common == Bdd("fw", goalId["fw"]) \cap Bdd("bw", goalId["bw"])
       IN  IF common = {}
           THEN pc' = "panic" /\ UNCHANGED <<dir, cur, at, cut>>
           ELSE \E s \in common : cut' = s /\ Trace("fw", goalId["fw"], s)
    /\ UNCHANGED <<task, mode, nodeVars, bound, goalId, cont, tri, plan>>

Node == pool[dir][cur]

(* One step of the plan, from any state before that is in the parent node.   *)
TraceStep ==
    /\ pc = "trace"
    /\ Node.parent # NoNode
    /\ LET before == BackImage(dir, task.trans[Node.trans], {at}) \cap Bdd(dir, Node.parent)
       IN  IF before = {}
           THEN pc' = "panic" /\ UNCHANGED <<dir, cur, at, plan>>
           ELSE \E s \in before :
                   /\ Trace(dir, Node.parent, s)
                   /\ plan' = IF dir = "fw" THEN <<<<s, Node.trans, at>>>> \o plan
                                            ELSE Append(plan, <<at, Node.trans, s>>)
    /\ UNCHANGED <<task, mode, nodeVars, bound, goalId, cont, tri, cut>>

(* A direction that found the plan alone has traced it all; where the two    *)
(* met the backward half follows.                                            *)
TraceOther ==
    /\ pc = "trace"
    /\ Node.parent = NoNode
    /\ cont["fw"] # "found" /\ Both /\ dir = "fw"
    /\ Trace("bw", goalId["bw"], cut)
    /\ UNCHANGED <<task, mode, nodeVars, bound, goalId, cont, tri, cut, plan>>

TraceEnd ==
    /\ pc = "trace"
    /\ Node.parent = NoNode
    /\ cont["fw"] = "found" \/ ~Both \/ dir = "bw"
    /\ pc' = "found"
    /\ UNCHANGED <<task, mode, nodeVars, bound, goalId, cont, stepVars, planVars>>

Next ==
    \/ \E d \in Dirs : \/ StepNone(d) \/ StepEmpty(d) \/ StepGoal(d) \/ StepOn(d)
                        \/ StepNotExist(d)
    \/ ExpandChild \/ ExpandSkip \/ ExpandTimeOut \/ ExpandEnd
    \/ NoMeeting \/ Meeting
    \/ TraceStep \/ TraceOther \/ TraceEnd

Spec == Init /\ [][Next]_vars /\ WF_vars(Next)

---------------------------------------------------------------------------
GoalCosts == {p[2] : p \in {q \in task.shortest["fw"] : q[1] \in task.goal}}

(* What a plan costs, counted in units: pairs of a step and a number up to   *)
(* its cost.                                                                 *)
Units(w) == UNION {{i} \X (1..OpCost(task.trans[w[i][2]])) : i \in DOMAIN w}

PlanCost == Cardinality(Units(plan))

TypeOK ==
    /\ pool \in [Dirs -> Seq([cost : Nat, parent : Nat, parents : SUBSET Nat,
                              trans : Nat, bdd : SUBSET task.states])]
    /\ {open, closed} \subseteq [Dirs -> SUBSET Nat]
    /\ \A d \in Dirs : open[d] \cup closed[d] \subseteq DOMAIN pool[d]
    /\ bound \in 0..MaxCost
    /\ goalId \in [Dirs -> Nat]
    /\ cont \in [Dirs -> {"cont", "found", "notexist", "abort"}]
    /\ pc \in {"drive", "expand", "trace", "found", "notexist", "panic"}
    /\ dir \in Dirs /\ cur \in Nat /\ tri \in 1..LastTrans + 1
    /\ {at, cut} \subseteq task.states
    /\ plan \in Seq(task.states \X Nat \X task.states)

(* A closed node holds states of exactly its cost: no state is closed before *)
(* the cheapest way to it is known (symbolic_state.c:178).                    *)
ClosedExact ==
    \A d \in Dirs : \A i \in closed[d] :
        Bdd(d, i) \X {Cost(d, i)} \subseteq task.shortest[d]

(* The two nodes where the halves of the best plan meet share a state and    *)
(* cost the bound, until the end, though states that were closed in between  *)
(* are taken out of open nodes (symbolic_state.c:153); the extraction of the *)
(* plan panics otherwise.  A direction that then finds a plan alone notes    *)
(* its own node instead, and the plan is that direction's.                   *)
MeetingHolds ==
    Both /\ bound < MaxCost /\ "found" \notin Range(cont) =>
        /\ NoNode \notin Range(goalId)
        /\ Cost("fw", goalId["fw"]) + Cost("bw", goalId["bw"]) = bound
        /\ Bdd("fw", goalId["fw"]) \cap Bdd("bw", goalId["bw"]) # {}

(* The plan leads from the initial state to the goal, edge by edge, whatever *)
(* states the extraction picks on the way; it never gets stuck.              *)
PlanCorrect ==
    /\ pc # "panic"
    /\ pc = "found" =>
         LET state[i \in 0..Len(plan)] == IF i = 0 THEN task.init ELSE plan[i][3]
         IN  /\ state[Len(plan)] \in task.goal
             /\ \A i \in DOMAIN plan :
                   /\ plan[i][1] = state[i - 1]
                   /\ <<plan[i][1], plan[i][3]>> \in task.trans[plan[i][2]].edges

OptimalPlan == pc = "found" => PlanCost = Min(GoalCosts)

(* A plan is a cheapest one, found in one direction or in two that both go   *)
(* on; and "plan does not exist" is said only if none does, also after a     *)
(* backward step ran out of time.                                            *)
AnswerRight ==
    /\ cont["bw"] # "abort" => OptimalPlan
    /\ pc = "notexist" => GoalCosts = {}

(* A backward search that ran into its time limit is disabled and leaves the *)
(* rest to the forward one (bin/options.c:1182), so it does no harm.         *)
OptimalAfterLimit == OptimalPlan

(* The search ends.                                                          *)
Terminates == <>(pc \in {"found", "notexist"})
=============================================================================
