----------------------- MODULE SearchOptimalityProofs -----------------------
(***************************************************************************)
(* Proofs of what SearchOptimality promises, for every set of tasks: no    *)
(* path to a goal beats the plan of A*, the search is complete, and with   *)
(* consistent estimates the f-values never drop.                           *)
(***************************************************************************)
EXTENDS SearchOptimality, SearchAnswerProofs

-----------------------------------------------------------------------------
(* What the search leaves when it ends. *)

\* A* stops at a goal no open node promises to beat, and has expanded none.
FoundInv ==
    ret = "FOUND" /\ task.alg = "ASTAR" =>
        /\ \A s \in State : IsEnd(s) /\ node[s].status = "CLOSED" /\ s # goal.id
                                => task.h[s] = DeadEnd
        /\ \A u \in State : node[u].status = "OPEN"
                                => node[goal.id].g <= node[u].g + task.h[u]

\* A search that gives up has no open node left, unless it did not start.
GiveUpInv ==
    /\ pc # "init" => IsAvoid(task.init) \/ Reached(task.init)
    /\ ret = "UNSOLVABLE" =>
          \/ task.h[task.init] = DeadEnd /\ \A s \in State : node[s].status # "CLOSED"
          \/ \A s \in State : node[s].status # "OPEN"

LEMMA StepFound ==
    ASSUME SearchInv, OpenInv, CallInv, GoalInv, FoundInv, [Next]_vars
    PROVE  FoundInv'
<1>1. TypeOK /\ LoopOK /\ TreeInv /\ EntriesInv /\ IsTask(task) /\ task' = task
      /\ node \in [State -> Node]
  BY StepMovesNodes DEF SearchInv, OpenInv, TypeOK
<1>2. CASE ret = "FOUND"
  <2>1. UNCHANGED <<task, node, goal, ret>>
    BY <1>2, EndedStays
  <2> QED BY <1>2, <2>1 DEF FoundInv, IsEnd, IsGoal, IsAvoid
<1>3. CASE ret # "FOUND"
  <2> SUFFICES ASSUME ret' = "FOUND", task.alg = "ASTAR" PROVE FoundInv'
    BY <1>1 DEF FoundInv
  <2>0. ret = "CONT" /\ goal.id = NoState /\ ~IsGreedy
    <3>1. ret # "CONT" => ret' = ret
      BY EndedStays
    <3> QED BY <1>3, <3>1 DEF GoalInv, IsGreedy
  <2>1. CASE InitPushed
    <3>1. /\ task.init \in State /\ \A u \in State : node[u].status = "NEW"
      BY <1>1, <2>1 DEF InitPushed, TreeInv, Reached, IsTask
    <3>2. /\ node'[task.init].status = "OPEN" /\ node'[task.init].g = 0
          /\ \A u \in State \ {task.init} : node'[u].status = "NEW"
      BY <1>1, <2>1, <3>1 DEF InitPushed
    <3>3. goal'.id = task.init
      BY <2>0, <2>1 DEF InitPushed, GoalAt, Return, InitStatus
    <3>4. task.h[task.init] \in Nat
      BY <1>1, <3>1, SearchAssumption DEF IsTask
    <3> QED BY <1>1, <3>1, <3>2, <3>3, <3>4 DEF FoundInv, IsEnd
  <2>2. ASSUME NEW k \in DOMAIN open, StepGoal(k)
        PROVE  FoundInv'
    <3> DEFINE t == Head(open[k])
    <3>1. Pop(k) /\ t \in State /\ goal'.id = t /\ node' = Close(t)
      <4>1. Pop(k) /\ node' = Close(t) /\ goal' = GoalAt(t, node[t].g)
        BY <2>2 DEF StepGoal
      <4> QED BY <1>1, <2>0, <4>1, PopFacts DEF GoalAt
    <3>2. /\ node'[t].status = "CLOSED"
          /\ \A u \in State : node'[u].g = node[u].g
          /\ \A u \in State \ {t} : node'[u] = node[u]
      BY <1>1, <3>1 DEF Close, Node
    <3>3. ASSUME NEW s \in State, IsEnd(s), node'[s].status = "CLOSED", s # t
          PROVE  task.h[s] = DeadEnd
      BY <1>3, <3>2, <3>3 DEF GoalInv
    <3>4. ASSUME NEW u \in State, node'[u].status = "OPEN"
          PROVE  node'[t].g <= node'[u].g + task.h[u]
      <4>1. node[u].status = "OPEN"
        BY <3>2, <3>4
      <4>2. node[t].g <= k[1] /\ k[1] <= node[u].g + task.h[u]
        BY <1>1, <3>1, <4>1, LeastKey
      <4>3. node[t].g \in Int /\ k[1] \in Int /\ node[u].g + task.h[u] \in Int
        BY <1>1, <3>1, PopFacts DEF Node, IsTask
      <4> QED BY <3>1, <3>2, <4>2, <4>3
    <3> QED BY <1>1, <3>1, <3>3, <3>4 DEF FoundInv, IsEnd, IsGoal, IsAvoid
  <2>3. ASSUME NEW k \in DOMAIN open,
               StepSkip(k) \/ StepAvoid(k) \/ StepDeadEnd(k) \/ StepExpand(k)
        PROVE  FALSE
    BY <2>0, <2>3 DEF StepSkip, StepAvoid, StepDeadEnd, StepExpand
  <2>4. ASSUME NEW o \in todo, ExpandSkip(o) \/ ExpandDeadEnd(o) \/ ExpandPush(o)
        PROVE  FALSE
    <3>1. CheckGenerated(o, task.succ[o][cur.id])
      BY <2>4 DEF ExpandSkip, ExpandDeadEnd, ExpandPush
    <3> QED BY <2>0, <3>1 DEF CheckGenerated
  <2>5. CASE InitAvoided \/ StepEmpty \/ ExpandEnd \/ Abort
    BY <2>5 DEF InitAvoided, InitStatus, StepEmpty, ExpandEnd, Abort, Return
  <2>6. CASE ExtractPlan \/ UNCHANGED vars
    BY <2>0, <2>6 DEF ExtractPlan, Extract, Backtrack, LoadPlan, vars
  <2> QED BY <2>1, <2>2, <2>3, <2>4, <2>5, <2>6 DEF Next, InitStep, Step
<1> QED BY <1>2, <1>3

LEMMA StepGiveUp ==
    ASSUME SearchInv, OpenInv, CallInv, GiveUpInv, [Next]_vars
    PROVE  GiveUpInv'
<1>1. TypeOK /\ LoopOK /\ TreeInv /\ OpenListed /\ IsTask(task) /\ task' = task
      /\ node \in [State -> Node] /\ task.init \in State
  BY StepMovesNodes DEF SearchInv, OpenInv, EntriesInv, TypeOK, IsTask
<1>2. pc' # "init" => IsAvoid(task.init) \/ node'[task.init].status # "NEW"
  <2>1. CASE pc # "init"
    BY <1>1, <2>1, NodesImprove DEF GiveUpInv
  <2>2. CASE pc = "init" /\ (InitAvoided \/ InitPushed)
    BY <1>1, <2>2 DEF InitAvoided, InitPushed
  <2>3. CASE pc = "init" /\ ~(InitAvoided \/ InitPushed)
    <3>1. ~Abort /\ ~ExtractPlan
      BY <2>3 DEF Abort, ExtractPlan, Extract, Backtrack, LoadPlan
    <3>2. ~Step
      BY <2>3 DEF Step, StepEmpty, StepSkip, StepAvoid, StepGoal, StepDeadEnd, StepExpand, Pop,
         ExpandSkip, ExpandDeadEnd, ExpandPush, ExpandEnd, NextOp
    <3>3. UNCHANGED vars
      BY <2>3, <3>1, <3>2 DEF Next, InitStep
    <3> QED BY <2>3, <3>3 DEF vars
  <2> QED BY <2>1, <2>2, <2>3
<1>3. ASSUME ret' = "UNSOLVABLE"
      PROVE  \/ task.h[task.init] = DeadEnd /\ \A s \in State : node'[s].status # "CLOSED"
             \/ \A s \in State : node'[s].status # "OPEN"
  <2>1. CASE ret # "CONT"
    BY <1>3, <2>1, EndedStays DEF GiveUpInv
  <2>2. CASE ret = "CONT"
    <3>1. CASE InitAvoided \/ InitPushed
      <4>1. task.h[task.init] = DeadEnd
        BY <1>3, <3>1 DEF InitAvoided, InitPushed, InitStatus, Return
      <4>2. \A s \in State : node[s].status = "NEW"
        BY <1>1, <3>1 DEF InitAvoided, InitPushed, TreeInv, Reached
      <4>3. \A s \in State : node'[s].status # "CLOSED"
        BY <1>1, <3>1, <4>2 DEF InitAvoided, InitPushed
      <4> QED BY <4>1, <4>3
    <3>2. CASE StepEmpty
      BY <1>1, <3>2 DEF StepEmpty, OpenListed
    <3>3. ASSUME NEW k \in DOMAIN open,
                 StepSkip(k) \/ StepAvoid(k) \/ StepGoal(k) \/ StepDeadEnd(k) \/ StepExpand(k)
          PROVE  FALSE
      BY <1>3, <2>2, <3>3 DEF StepSkip, StepAvoid, StepGoal, StepDeadEnd, StepExpand, Return
    <3>4. ASSUME NEW o \in todo, ExpandSkip(o) \/ ExpandDeadEnd(o) \/ ExpandPush(o)
          PROVE  FALSE
      <4>1. CheckGenerated(o, task.succ[o][cur.id])
        BY <3>4 DEF ExpandSkip, ExpandDeadEnd, ExpandPush
      <4> QED BY <1>3, <2>2, <4>1 DEF CheckGenerated, Return
    <3>5. CASE ExpandEnd \/ Abort \/ ExtractPlan \/ UNCHANGED vars
      BY <1>3, <2>2, <3>5 DEF ExpandEnd, Abort, Return, ExtractPlan, Extract, Backtrack,
         LoadPlan, vars
    <3> QED BY <3>1, <3>2, <3>3, <3>4, <3>5 DEF Next, InitStep, Step
  <2> QED BY <2>1, <2>2
<1> QED BY <1>1, <1>2, <1>3 DEF GiveUpInv, IsAvoid, Reached

\* All that is invariant of the search.
AnswerInv ==
    /\ SearchInv /\ OpenInv /\ CallInv /\ ExpandInv /\ GoalInv
    /\ Acyclic /\ PathInv /\ FoundInv /\ GiveUpInv

LEMMA InitAnswer == Init => FoundInv /\ GiveUpInv
BY DEF Init, FoundInv, GiveUpInv

LEMMA AnswerInvariant == Spec => []AnswerInv
<1> DEFINE Before == (SearchInv /\ OpenInv /\ CallInv /\ ExpandInv)
           Goals == SearchInv /\ CallInv /\ GoalInv
           Rest == Acyclic /\ PathInv /\ FoundInv /\ GiveUpInv
<1>1. Init => Rest
  BY InitAnswer, InitPlans
<1>2. Before /\ Goals /\ Rest /\ [Next]_vars => Rest'
  BY StepAcyclic, StepPath, StepFound, StepGiveUp
<1>3. Before /\ Goals /\ Rest => AnswerInv
  BY DEF AnswerInv
<1> QED BY <1>1, <1>2, <1>3, ExpansionInvariant, GoalInvariant, PTL DEF Spec

\* A state that was reached is expanded, or no way through it can beat the goal
\* of A*; a search that gives up has expanded it.
LEMMA ReachedIsSettled ==
    ASSUME AnswerInv, Safe, NEW u \in State, Reached(u), ~IsAvoid(u),
           task.bound[u] # Infinity, pc = "done", ~Expanded(u)
    PROVE  /\ ret = "FOUND" /\ task.alg = "ASTAR" /\ Admissible /\ IsBound(task)
                  => node[goal.id].g <= node[u].g + task.bound[u]
           /\ ret = "UNSOLVABLE" => /\ task.h[task.init] = DeadEnd
                                    /\ \A s \in State : ~Expanded(s)
<1>1. TypeOK /\ IsTask(task) /\ node[u] \in Node /\ task.h[u] # DeadEnd
  BY DEF AnswerInv, SearchInv, TypeOK, Safe
<1>2. node[u].status \in {"OPEN", "CLOSED"}
  BY <1>1 DEF Node, Reached
<1>3. ASSUME ret = "FOUND", task.alg = "ASTAR", Admissible, IsBound(task)
      PROVE  node[goal.id].g <= node[u].g + task.bound[u]
  <2>1. /\ node[u].g \in Int /\ task.h[u] \in Nat /\ task.bound[u] \in Nat
        /\ task.h[u] <= task.bound[u]
    BY <1>1, <1>3, SearchAssumption, OptimalityAssumption DEF Node, IsTask, IsBound, Admissible
  <2>2. IsEnd(goal.id) /\ cur.id = goal.id
    BY <1>3 DEF AnswerInv, GoalInv, IsGreedy
  <2>3. node[goal.id].g \in Int
    BY <1>1, <2>2 DEF TypeOK, Node, IsEnd
  <2>4. CASE node[u].status = "OPEN"
    <3>1. node[goal.id].g <= node[u].g + task.h[u]
      BY <1>3, <2>4 DEF AnswerInv, FoundInv
    <3> QED BY <2>1, <2>3, <3>1
  <2>5. CASE node[u].status = "CLOSED"
    <3>1. u = goal.id
      BY <1>1, <2>2, <2>5 DEF Expanded
    <3> QED BY <2>1, <3>1
  <2> QED BY <1>2, <2>4, <2>5
<1>4. ASSUME ret = "UNSOLVABLE"
      PROVE  task.h[task.init] = DeadEnd /\ \A s \in State : ~Expanded(s)
  <2>1. node[u].status = "CLOSED" => FALSE
    BY <1>1, <1>4 DEF Expanded
  <2>2. ~(\A s \in State : node[s].status # "OPEN")
    BY <1>2, <2>1
  <2> QED BY <1>4, <2>2 DEF AnswerInv, GiveUpInv, Expanded
<1> QED BY <1>3, <1>4

\* No search that ended has expanded a goal state, a greedy one that found a
\* plan excepted.
LEMMA EndsNotExpanded ==
    ASSUME AnswerInv, pc = "done", ret # "FOUND" \/ task.alg = "ASTAR",
           NEW s \in State, IsEnd(s)
    PROVE  ~Expanded(s)
<1>1. CASE ret # "FOUND"
  BY <1>1 DEF AnswerInv, GoalInv, Expanded
<1>2. CASE ret = "FOUND" /\ task.alg = "ASTAR"
  BY <1>2 DEF AnswerInv, GoalInv, FoundInv, Expanded, IsGreedy
<1> QED BY <1>1, <1>2

-----------------------------------------------------------------------------
(* The rival. *)

\* Where the rival is after a path of some cost: it can reach no goal, or only
\* one that costs too much, or it is at a node the search has expanded.
Beaten ==
    IF ret = "FOUND"
    THEN task.alg = "ASTAR" /\ Admissible =>
            \/ task.bound[at] = Infinity
            \/ node[goal.id].g <= dist + task.bound[at]
            \/ Expanded(at) /\ node[at].g <= dist
    ELSE ret = "UNSOLVABLE" /\ Safe => task.bound[at] = Infinity \/ Expanded(at)

RivalInv ==
    /\ IsBound(task)
    /\ at \in State /\ dist \in Nat
    /\ pc # "done" => at = task.init /\ dist = 0
    /\ pc = "done" => IsAvoid(at) \/ Beaten

LEMMA RivalStarts ==
    ASSUME AnswerInv, IsBound(task), pc = "done", at = task.init, dist = 0
    PROVE  IsAvoid(at) \/ Beaten
<1>1. TypeOK /\ SearchTree /\ TreeInv /\ IsTask(task) /\ at \in State /\ task.h[at] \in Int
  BY SMTT(30), SearchAssumption DEF AnswerInv, SearchInv, TreeInv, TypeOK, IsTask
<1> SUFFICES ASSUME ~IsAvoid(at), ~Beaten
             PROVE  FALSE
  OBVIOUS
<1>2. Reached(at) /\ node[at].g = 0
  <2>1. Reached(at)
    BY DEF AnswerInv, GiveUpInv
  <2> QED BY <1>1, <2>1 DEF SearchTree
<1>3. /\ task.bound[at] # Infinity /\ ~Expanded(at) /\ Safe
      /\ \/ /\ ret = "FOUND" /\ task.alg = "ASTAR" /\ Admissible
            /\ ~(node[goal.id].g <= dist + task.bound[at])
         \/ ret = "UNSOLVABLE"
  BY <1>2 DEF Beaten, Admissible
<1>4. task.h[at] # DeadEnd
  BY <1>1, <1>3 DEF Safe
<1> QED BY <1>1, <1>2, <1>3, <1>4, ReachedIsSettled

LEMMA RivalMoves ==
    ASSUME AnswerInv, RivalInv, pc = "done", RivalMove
    PROVE  RivalInv'
<1> PICK o \in Applicable(at) : /\ ~IsAvoid(task.succ[o][at])
                                /\ at' = task.succ[o][at]
                                /\ dist' = dist + task.cost[o]
  BY DEF RivalMove
<1> DEFINE t == task.succ[o][at]
<1>1. /\ TypeOK /\ IsTask(task) /\ IsBound(task) /\ at \in State /\ dist \in Nat
      /\ ~IsAvoid(at) /\ UNCHANGED vars
  BY DEF AnswerInv, SearchInv, TypeOK, RivalInv, RivalMove
<1>2. o \in Op /\ t \in State /\ task.cost[o] \in Nat
  BY <1>1 DEF Applicable, IsTask
<1>3. task.bound[t] \in Nat /\ task.bound[at] \in Nat
  BY <1>1, <1>2, OptimalityAssumption DEF IsBound
<1>4. CASE task.bound[t] = Infinity
  <2>1. Beaten'
    BY <1>1, <1>4 DEF Beaten, Admissible, Safe, vars
  <2> QED BY <1>1, <1>2, <2>1 DEF RivalInv, vars, IsBound
<1>5. CASE task.bound[t] # Infinity
  <2>1. task.bound[at] # Infinity /\ task.bound[at] <= task.cost[o] + task.bound[t]
    <3>1. t # NoState /\ at \notin task.avoid /\ t \notin task.avoid
      BY <1>1, <1>2, SearchAssumption DEF IsAvoid
    <3> QED BY <1>1, <1>2, <1>5, <3>1 DEF IsBound
  <2>2. Expanded(at) => Reached(t)
    BY <1>1 DEF AnswerInv, ExpandInv, Applied, SuccessorReached
  <2>3. Expanded(at) /\ task.alg = "ASTAR" => node[t].g <= node[at].g + task.cost[o]
    BY <1>1 DEF AnswerInv, ExpandInv, Applied, SuccessorReached, Reopen
  <2>4. node[at].g \in Int /\ node[t].g \in Int
    BY <1>1, <1>2 DEF TypeOK, Node
  <2>5. ASSUME ret = "FOUND", task.alg = "ASTAR", Admissible
        PROVE  \/ node[goal.id].g <= dist + task.cost[o] + task.bound[t]
               \/ Expanded(t) /\ node[t].g <= dist + task.cost[o]
    <3>1. node[goal.id].g \in Int
      BY <1>1, <2>5 DEF AnswerInv, GoalInv, IsEnd, TypeOK, Node
    <3>2. CASE node[goal.id].g <= dist + task.bound[at]
      BY <1>1, <1>2, <1>3, <2>1, <3>1, <3>2
    <3>3. CASE Expanded(at) /\ node[at].g <= dist
      <4>1. Reached(t) /\ node[t].g <= dist + task.cost[o]
        BY <1>1, <1>2, <2>2, <2>3, <2>4, <2>5, <3>3
      <4>2. Expanded(t) \/ node[goal.id].g <= node[t].g + task.bound[t]
        BY <1>1, <1>2, <1>5, <2>5, <4>1, ReachedIsSettled DEF Admissible
      <4> QED BY <1>1, <1>2, <1>3, <2>4, <3>1, <4>1, <4>2
    <3> QED BY <1>1, <2>1, <2>5, <3>2, <3>3 DEF RivalInv, Beaten
  <2>6. ASSUME ret = "UNSOLVABLE", Safe
        PROVE  Expanded(t)
    <3>1. Expanded(at)
      BY <1>1, <2>1, <2>6 DEF RivalInv, Beaten
    <3> QED BY <1>1, <1>2, <1>5, <2>2, <2>6, <3>1, ReachedIsSettled
  <2>7. Beaten'
    BY <1>1, <2>5, <2>6 DEF Beaten, Admissible, Safe, vars, Expanded, IsAvoid
  <2> QED BY <1>1, <1>2, <2>7 DEF RivalInv, vars, IsBound
<1> QED BY <1>4, <1>5

\* The rival has not moved yet.
Fresh ==
    /\ IsBound(task)
    /\ at \in State /\ at = task.init /\ dist = 0

LEMMA FreshIsRival == AnswerInv /\ Fresh => RivalInv
<1> SUFFICES ASSUME AnswerInv, Fresh PROVE RivalInv
  OBVIOUS
<1>1. pc = "done" => IsAvoid(at) \/ Beaten
  BY RivalStarts DEF Fresh
<1> QED BY <1>1 DEF Fresh, RivalInv

LEMMA InitRival == RivalInit => Fresh
<1> SUFFICES ASSUME RivalInit PROVE Fresh
  OBVIOUS
<1>1. task \in Tasks
  BY DEF RivalInit, Init
<1>2. IsTask(task) /\ IsBound(task)
  BY <1>1, SearchAssumption, OptimalityAssumption
<1> QED BY <1>2 DEF RivalInit, Fresh, IsTask

LEMMA StepRival ==
    ASSUME AnswerInv, RivalInv, [RivalNext]_rivalVars
    PROVE  RivalInv' \/ Fresh'
<1>1. CASE pc = "done" /\ RivalMove
  BY <1>1, RivalMoves
<1>2. CASE [Next]_vars /\ UNCHANGED <<at, dist>>
  <2>1. task' = task
    BY <1>2, StepMovesNodes DEF AnswerInv, SearchInv
  <2>2. CASE pc # "done"
    BY <1>2, <2>1, <2>2 DEF RivalInv, Fresh, IsBound
  <2>3. CASE pc = "done"
    <3>1. UNCHANGED <<node, goal, ret, cur>>
      BY <1>2, <2>3, EndedStays DEF AnswerInv, GoalInv
    <3>2. pc' = "done"
      <4>1. ~InitStep /\ ~Abort /\ ~ExtractPlan
        BY <2>3 DEF InitStep, InitAvoided, InitPushed, Abort, ExtractPlan, Extract, Backtrack,
           LoadPlan
      <4>2. ~Step
        BY <2>3 DEF Step, StepEmpty, StepSkip, StepAvoid, StepGoal, StepDeadEnd, StepExpand,
           Pop, ExpandSkip, ExpandDeadEnd, ExpandPush, ExpandEnd, NextOp
      <4> QED BY <1>2, <2>3, <4>1, <4>2 DEF Next, vars
    <3>3. Beaten' = Beaten
      BY <1>2, <2>1, <2>3, <3>1, <3>2 DEF Beaten, Admissible, Safe, Expanded, IsAvoid
    <3> QED BY <1>2, <2>1, <2>3, <3>2, <3>3 DEF RivalInv, IsBound, IsAvoid
  <2> QED BY <2>2, <2>3
<1> QED BY <1>1, <1>2 DEF RivalNext, rivalVars, vars

\* The search does not notice the rival.
LEMMA RivalSearches == RivalSpec => Spec
<1>1. RivalInit => Init
  BY DEF RivalInit
<1>2. [RivalNext]_rivalVars => [Next]_vars
  BY DEF RivalNext, rivalVars, vars, RivalMove
<1> QED BY <1>1, <1>2, PTL DEF RivalSpec, Spec

LEMMA RivalInvariant == RivalSpec => [](AnswerInv /\ RivalInv)
<1>1. RivalInit => Fresh
  BY InitRival
<1>2. AnswerInv /\ Fresh => RivalInv
  BY FreshIsRival
<1>3. AnswerInv /\ RivalInv /\ [RivalNext]_rivalVars => RivalInv' \/ Fresh'
  BY StepRival
<1> QED BY <1>1, <1>2, <1>3, RivalSearches, AnswerInvariant, PTL DEF RivalSpec

\* No path to a goal beats the plan of A*, whatever was reopened on the way.
THEOREM AStarCorrect == RivalSpec => []AStarBeatsRival
<1>1. AnswerInv /\ RivalInv => AStarBeatsRival
  <2> SUFFICES ASSUME AnswerInv, RivalInv, ret = "FOUND", task.alg = "ASTAR", Admissible,
                      RivalAtGoal
               PROVE  node[goal.id].g <= dist
    BY DEF AStarBeatsRival
  <2>1. /\ at \in State /\ dist \in Nat /\ IsEnd(at) /\ ~IsAvoid(at) /\ TypeOK /\ TreeInv
        /\ task.init \in State /\ IsEnd(goal.id) /\ Reached(goal.id)
    BY DEF RivalInv, RivalAtGoal, IsEnd, AnswerInv, SearchInv, GoalInv, TypeOK, IsTask
  <2>2. task.bound[at] = 0 /\ Infinity # 0 /\ node[goal.id].g \in Int
    BY <2>1, OptimalityAssumption DEF RivalInv, IsBound, IsEnd, IsGoal, IsAvoid, TypeOK, Node
  <2>3. CASE pc = "done"
    <3>1. ~Expanded(at)
      BY <2>1, <2>3, EndsNotExpanded
    <3>2. node[goal.id].g <= dist + task.bound[at]
      BY <2>1, <2>2, <2>3, <3>1 DEF RivalInv, Beaten
    <3> QED BY <2>1, <2>2, <3>2
  <2>4. CASE pc # "done"
    <3>1. at = task.init /\ dist = 0
      BY <2>4 DEF RivalInv
    <3>2. Reached(at) /\ node[at].g = 0
      BY <2>1, <3>1 DEF TreeInv, SearchTree, IsEnd
    <3>3. CASE node[at].status = "OPEN"
      <4>1. node[goal.id].g <= node[at].g + task.h[at]
        BY <2>1, <3>3 DEF AnswerInv, FoundInv
      <4>2. task.h[at] <= 0 /\ task.h[at] \in Int
        BY <2>1, <2>2, SearchAssumption DEF Admissible, TypeOK, IsTask
      <4> QED BY <2>2, <3>1, <3>2, <4>1, <4>2
    <3>4. CASE node[at].status = "CLOSED"
      <4>1. at = goal.id
        BY <2>1, <2>2, <3>4 DEF AnswerInv, FoundInv, Admissible, Safe
      <4> QED BY <3>1, <3>2, <4>1
    <3> QED BY <2>1, <3>2, <3>3, <3>4 DEF TypeOK, Node, Reached
  <2> QED BY <2>3, <2>4
<1> QED BY <1>1, RivalInvariant, PTL

\* A search that gives up without being aborted: no path leads to a goal, as far
\* as the estimates of dead ends are right.
UnsolvableMeansNoPath ==
    ret = "UNSOLVABLE" /\ pc = "done" /\ Safe => ~RivalAtGoal

THEOREM UnsolvableCorrect == RivalSpec => []UnsolvableMeansNoPath
<1>1. AnswerInv /\ RivalInv => UnsolvableMeansNoPath
  <2> SUFFICES ASSUME AnswerInv, RivalInv, ret = "UNSOLVABLE", pc = "done", Safe, RivalAtGoal
               PROVE  FALSE
    BY DEF UnsolvableMeansNoPath
  <2>1. IsEnd(at) /\ ~IsAvoid(at) /\ task.bound[at] = 0 /\ Infinity # 0
    BY OptimalityAssumption DEF RivalInv, RivalAtGoal, IsEnd, IsBound, IsGoal, IsAvoid
  <2>2. Expanded(at)
    BY <2>1 DEF RivalInv, Beaten
  <2> QED BY <2>1, <2>2, EndsNotExpanded DEF IsEnd
<1> QED BY <1>1, RivalInvariant, PTL

-----------------------------------------------------------------------------
(* Exact bounds. *)

LEMMA ExactInvariant == RivalSpec => []IsExact(task)
<1>1. RivalInit => IsExact(task)
  BY ExactAssumption DEF RivalInit, Init
<1>2. (AnswerInv /\ RivalInv) /\ IsExact(task) /\ [RivalNext]_rivalVars => IsExact(task)'
  <2> SUFFICES ASSUME AnswerInv, IsExact(task), [RivalNext]_rivalVars PROVE IsExact(task)'
    OBVIOUS
  <2>1. [Next]_vars
    BY DEF RivalNext, rivalVars, vars, RivalMove
  <2>2. task' = task
    BY <2>1, StepMovesNodes DEF AnswerInv, SearchInv
  <2> QED BY <2>2 DEF IsExact
<1> QED BY <1>1, <1>2, RivalInvariant, PTL DEF RivalSpec

LEMMA AnswerTypes ==
    ASSUME AnswerInv, IsBound(task)
    PROVE  /\ TypeOK /\ IsTask(task) /\ TreeInv /\ SearchTree /\ task.init \in State
           /\ \A u \in State : node[u].g \in Int /\ task.bound[u] \in Nat
<1>1. TypeOK /\ IsTask(task) /\ TreeInv /\ SearchTree
  BY DEF AnswerInv, SearchInv, TreeInv, TypeOK
<1>2. ASSUME NEW u \in State PROVE node[u].g \in Int /\ task.bound[u] \in Nat
  <2>1. node[u] \in Node
    BY <1>1 DEF TypeOK
  <2>2. task.bound[u] \in 0..Infinity /\ Infinity \in Nat
    BY OptimalityAssumption DEF IsBound
  <2> QED BY <2>1, <2>2 DEF Node
<1> QED BY <1>1, <1>2 DEF IsTask

\* Following the parents from a goal, the bound grows by no more than the
\* g-value drops: it is finite at the initial state, and no more than the
\* g-value of the goal.
LEMMA RootBound ==
    ASSUME AnswerInv, IsBound(task), ret = "FOUND"
    PROVE  /\ ~IsAvoid(task.init)
           /\ task.bound[task.init] # Infinity
           /\ task.bound[task.init] <= node[goal.id].g
<1> DEFINE S == {u \in State : /\ Reached(u) /\ ~IsAvoid(u) /\ task.bound[u] # Infinity
                               /\ node[u].g + task.bound[u] <= node[goal.id].g}
<1>1. /\ TypeOK /\ IsTask(task) /\ SearchTree /\ IsEnd(goal.id) /\ Reached(goal.id)
      /\ task.init \in State
      /\ \A u \in State : node[u].g \in Int /\ task.bound[u] \in Nat
  BY AnswerTypes DEF AnswerInv, GoalInv
<1>2. goal.id \in S
  <2>1. task.bound[goal.id] = 0 /\ Infinity # 0
    BY <1>1, OptimalityAssumption DEF IsEnd, IsGoal, IsAvoid, IsBound
  <2>2. node[goal.id].g + task.bound[goal.id] <= node[goal.id].g
    BY <1>1, <2>1 DEF IsEnd
  <2> QED BY <1>1, <2>1, <2>2 DEF IsEnd
<1>3. PICK e \in S : node[e].parent \notin S
  <2>1. S \in SUBSET State /\ S # {} /\ \A e \in S : Reached(e)
    BY <1>2
  <2> HIDE DEF S
  <2> QED BY <2>1 DEF AnswerInv, Acyclic
<1>4. ~IsChild(e)
  <2> SUFFICES ASSUME IsChild(e) PROVE FALSE
    OBVIOUS
  <2> DEFINE p == node[e].parent
             c == task.cost[node[e].op]
  <2>1. /\ p \in State /\ Reached(p) /\ ~IsAvoid(p) /\ node[e].op \in Op
        /\ task.succ[node[e].op][p] = e /\ node[e].g >= node[p].g + c /\ c \in Nat
    BY <1>1 DEF IsChild, IsTask
  <2>2. task.bound[p] # Infinity /\ task.bound[p] <= c + task.bound[e]
    <3>1. e # NoState /\ p \notin task.avoid /\ e \notin task.avoid /\ task.bound[e] # Infinity
      BY <2>1, SearchAssumption DEF IsAvoid
    <3> QED BY <2>1, <3>1 DEF IsBound
  <2>3. node[p].g + task.bound[p] <= node[goal.id].g
    <3>1. node[e].g + task.bound[e] <= node[goal.id].g
      OBVIOUS
    <3>2. node[goal.id].g \in Int /\ node[p].g \in Int /\ node[e].g \in Int
          /\ task.bound[p] \in Nat /\ task.bound[e] \in Nat
      BY <1>1, <2>1 DEF IsEnd
    <3> QED BY <2>1, <2>2, <3>1, <3>2
  <2> QED BY <1>3, <2>1, <2>2, <2>3
<1>5. e = task.init /\ node[e].g = 0
  BY <1>1, <1>4 DEF SearchTree
<1>6. 0 + task.bound[task.init] <= node[goal.id].g
  BY <1>5
<1> QED BY <1>1, <1>5, <1>6 DEF IsEnd

\* A path of least cost is followed until it meets a node that is not expanded.
\* Where it ends is no matter of induction: a set of expanded nodes that holds
\* the initial state is left by an operator of such a path.
LEMMA PathLeavesExpanded ==
    ASSUME AnswerInv, IsBound(task), IsExact(task), Safe,
           pc = "done", ret # "FOUND" \/ task.alg = "ASTAR",
           ~IsAvoid(task.init), task.bound[task.init] # Infinity, Reached(task.init)
    PROVE  \E u \in State :
               /\ Reached(u) /\ ~IsAvoid(u) /\ task.bound[u] # Infinity /\ ~Expanded(u)
               /\ task.alg = "ASTAR" => node[u].g + task.bound[u] <= task.bound[task.init]
<1> DEFINE S == {u \in State : /\ Expanded(u) /\ task.bound[u] # Infinity
                               /\ task.alg = "ASTAR" =>
                                     node[u].g + task.bound[u] <= task.bound[task.init]}
<1>1. /\ TypeOK /\ IsTask(task) /\ SearchTree /\ task.init \in State
      /\ \A u \in State : node[u].g \in Int /\ task.bound[u] \in Nat
  BY AnswerTypes
<1>2. node[task.init].g + task.bound[task.init] <= task.bound[task.init]
  <2>1. node[task.init].g = 0
    BY <1>1 DEF SearchTree
  <2> QED BY <1>1, <2>1
<1>3. CASE ~Expanded(task.init)
  BY <1>1, <1>2, <1>3
<1>4. CASE Expanded(task.init)
  <2>1. task.init \in S
    BY <1>1, <1>2, <1>4
  <2>2. S \in SUBSET {s \in State : s \notin task.avoid \cup task.goal /\ task.bound[s] # Infinity}
    <3>1. ASSUME NEW s \in S PROVE s \notin task.avoid /\ s \notin task.goal
      <4>1. s \notin task.avoid
        BY DEF Expanded, IsAvoid
      <4>2. ~IsEnd(s)
        BY EndsNotExpanded
      <4> QED BY <4>1, <4>2 DEF IsEnd, IsGoal, IsAvoid
    <3> QED BY <3>1
  <2>3. PICK s \in S, o \in Op :
            /\ task.succ[o][s] # NoState
            /\ task.succ[o][s] \notin task.avoid \cup S
            /\ task.bound[task.succ[o][s]] # Infinity
            /\ task.bound[s] = task.cost[o] + task.bound[task.succ[o][s]]
    <3> HIDE DEF S
    <3> QED BY <2>1, <2>2 DEF IsExact
  <2> DEFINE u == task.succ[o][s]
  <2>4. /\ s \in State /\ u \in State /\ o \in Applicable(s) /\ task.cost[o] \in Nat
        /\ Expanded(s) /\ ~IsAvoid(u)
    BY <1>1, <2>3 DEF Applicable, IsTask, IsAvoid
  <2>5. Reached(u) /\ (task.alg = "ASTAR" => node[u].g <= node[s].g + task.cost[o])
    BY <2>4 DEF AnswerInv, ExpandInv, Applied, SuccessorReached, Reopen
  <2>6. ASSUME task.alg = "ASTAR"
        PROVE  node[u].g + task.bound[u] <= task.bound[task.init]
    <3>1. node[s].g + task.bound[s] <= task.bound[task.init]
      BY <2>6
    <3>2. /\ node[u].g \in Int /\ node[s].g \in Int /\ task.bound[u] \in Nat
          /\ task.bound[s] \in Nat /\ task.bound[task.init] \in Nat
      BY <1>1, <2>4
    <3> QED BY <2>3, <2>4, <2>5, <2>6, <3>1, <3>2
  <2>7. ~Expanded(u)
    BY <2>3, <2>4, <2>6
  <2> QED BY <2>3, <2>4, <2>5, <2>6, <2>7
<1> QED BY <1>3, <1>4

\* The plan A* reads back has the least cost of all plans.
THEOREM AStarOptimality == RivalSpec => []AStarOptimal
<1>1. AnswerInv /\ RivalInv /\ IsExact(task) => AStarOptimal
  <2> SUFFICES ASSUME AnswerInv, RivalInv, IsExact(task), Planned, task.alg = "ASTAR", Admissible
               PROVE  plan.cost = task.bound[task.init]
    BY DEF AStarOptimal
  <2>1. /\ pc = "done" /\ ret = "FOUND" /\ Safe /\ IsBound(task) /\ IsExact(task)
        /\ TypeOK /\ SearchTree /\ TreeInv /\ task.init \in State
        /\ IsEnd(goal.id) /\ Reached(goal.id)
    BY DEF Planned, Admissible, RivalInv, AnswerInv, SearchInv, TreeInv, TypeOK, IsTask, GoalInv
  <2>2. /\ ~IsAvoid(task.init) /\ task.bound[task.init] # Infinity
        /\ task.bound[task.init] <= node[goal.id].g
    BY <2>1, RootBound
  <2>3. Reached(task.init)
    BY <2>1 DEF TreeInv, IsEnd
  <2>4. PICK u \in State :
            /\ Reached(u) /\ ~IsAvoid(u) /\ task.bound[u] # Infinity /\ ~Expanded(u)
            /\ node[u].g + task.bound[u] <= task.bound[task.init]
    BY <2>1, <2>2, <2>3, PathLeavesExpanded
  <2>5. node[goal.id].g <= node[u].g + task.bound[u]
    BY <2>1, <2>4, ReachedIsSettled
  <2>6. node[goal.id].g = task.bound[task.init]
    <3>1. /\ node[goal.id].g \in Int /\ node[u].g \in Int
          /\ task.bound[u] \in Nat /\ task.bound[task.init] \in Nat
      BY <2>1, OptimalityAssumption DEF IsBound, TypeOK, Node, IsEnd
    <3> QED BY <2>2, <2>4, <2>5, <3>1
  <2>7. plan.cost = node[goal.id].g
    <3> DEFINE path == plan.state
    <3>1. ParentPath(path) /\ IsRoot(path[1]) /\ plan = PlanOf(path)
      BY DEF AnswerInv, PathInv
    <3>2. path[Len(path)] = goal.id /\ goal.id \in State
      BY <2>1, <3>1 DEF ParentPath, IsEnd
    <3>3. plan.cost = IF Len(path) = 1 THEN 0 ELSE node[path[Len(path)]].g
      BY <3>1 DEF PlanOf
    <3>4. CASE Len(path) = 1
      <4>1. IsRoot(goal.id)
        BY <3>1, <3>2, <3>4
      <4>2. node[goal.id].g = 0
        BY <2>1, <3>2, <4>1, SearchAssumption DEF SearchTree, IsRoot, IsChild
      <4> QED BY <3>3, <3>4, <4>2
    <3> QED BY <3>2, <3>3, <3>4
  <2> QED BY <2>6, <2>7
<1> QED BY <1>1, RivalInvariant, ExactInvariant, PTL

\* A search that is not aborted finds a plan if and only if there is one.
THEOREM Completeness == RivalSpec => []Complete
<1>1. AnswerInv /\ RivalInv /\ IsExact(task) => Complete
  <2> SUFFICES ASSUME AnswerInv, RivalInv, IsExact(task), pc = "done", ret # "ABORT", Safe
               PROVE  ret = "FOUND"
                          <=> ~IsAvoid(task.init) /\ task.bound[task.init] # Infinity
    BY DEF Complete
  <2>1. ret \in {"FOUND", "UNSOLVABLE"} /\ IsBound(task) /\ IsExact(task)
        /\ task.init \in State /\ task.h[task.init] \in Int
    BY SearchAssumption DEF AnswerInv, SearchInv, TypeOK, IsTask, GoalInv, RivalInv
  <2>2. CASE ret = "FOUND"
    BY <2>1, <2>2, RootBound
  <2>3. CASE ret = "UNSOLVABLE"
    <3> SUFFICES ASSUME ~IsAvoid(task.init), task.bound[task.init] # Infinity
                 PROVE  FALSE
      BY <2>3
    <3>1. Reached(task.init)
      BY DEF AnswerInv, GiveUpInv
    <3>2. PICK u \in State : /\ Reached(u) /\ ~IsAvoid(u) /\ task.bound[u] # Infinity
                             /\ ~Expanded(u)
      BY <2>1, <2>3, <3>1, PathLeavesExpanded
    <3>3. task.h[task.init] = DeadEnd
      BY <2>3, <3>2, ReachedIsSettled
    <3> QED BY <2>1, <3>3 DEF Safe
  <2> QED BY <2>1, <2>2, <2>3
<1> QED BY <1>1, RivalInvariant, ExactInvariant, PTL

-----------------------------------------------------------------------------
(* The f-values with consistent estimates. *)

\* No key of A*, and not the f-value of the node it expands, is below the
\* f-value of the node it took last.
LayerInv ==
    /\ last_f \in Int
    /\ pc = "init" => last_f = 0 /\ DOMAIN open = {}
    /\ task.alg = "ASTAR" /\ Consistent =>
          /\ \A k \in DOMAIN open : k[1] >= last_f
          /\ pc = "expand" => cur.g + task.h[cur.id] >= last_f

LayerMoves == task.alg = "ASTAR" /\ Consistent => last_f' >= last_f

LEMMA PopLayer ==
    ASSUME SearchInv, OpenInv, LayerInv, [Next]_vars, NEW k \in DOMAIN open,
           StepSkip(k) \/ StepAvoid(k) \/ StepGoal(k) \/ StepDeadEnd(k) \/ StepExpand(k)
    PROVE  LayerInv' /\ LayerMoves
<1> DEFINE t == Head(open[k])
<1>1. /\ TypeOK /\ EntriesInv /\ Pop(k) /\ IsTask(task) /\ task' = task
      /\ pc' # "init" /\ last_f' \in {last_f, k[1]} /\ k[1] \in Int
      /\ StepSkip(k) \/ node[t].status = "OPEN"
  <2>1. Pop(k) /\ task' = task /\ pc = "loop"
    BY DEF StepSkip, StepAvoid, StepGoal, StepDeadEnd, StepExpand, Pop
  <2>2. TypeOK /\ EntriesInv /\ IsTask(task)
    BY DEF SearchInv, OpenInv, TypeOK
  <2>3. pc' # "init" /\ (StepSkip(k) \/ node[t].status = "OPEN")
    BY <2>1 DEF StepSkip, StepAvoid, StepGoal, StepDeadEnd, StepExpand, Return, Expandable
  <2>4. last_f' \in {last_f, k[1]}
    BY <2>2 DEF StepSkip, StepAvoid, StepGoal, StepDeadEnd, StepExpand
  <2> QED BY <2>1, <2>2, <2>3, <2>4, PopFacts
<1>2. last_f \in Int /\ last_f' \in Int
  BY <1>1 DEF LayerInv
<1>3. ASSUME task.alg = "ASTAR", Consistent
      PROVE  /\ last_f' >= last_f
             /\ \A l \in DOMAIN open' : l[1] >= last_f'
             /\ pc' = "expand" => cur'.g + task.h[cur'.id] >= last_f'
  <2>1. k[1] >= last_f
    BY <1>3 DEF LayerInv
  <2>2. ASSUME NEW l \in DOMAIN open' PROVE l[1] >= last_f'
    <3>1. l \in DOMAIN open /\ KeyLeq(k, l) /\ l[1] \in Int
      <4>1. l \in DOMAIN open
        BY <1>1 DEF Pop, OpenPop
      <4> QED BY <1>1, <4>1 DEF Pop, IsMinKey, TypeOK, OpenTypeOK
    <3> QED BY <1>1, <1>2, <1>3, <2>1, <3>1 DEF KeyLeq, LayerInv
  <2>3. ASSUME pc' = "expand" PROVE cur'.g + task.h[cur'.id] >= last_f'
    <3>1. StepExpand(k) /\ node[t].status = "OPEN" /\ t \in State
      BY <1>1, <2>3, PopFacts DEF StepSkip, StepAvoid, StepGoal, StepDeadEnd, StepExpand, Return,
         Pop, Expandable
    <3>2. k[1] <= node[t].g + task.h[t]
      BY <1>1, <1>3, <3>1, LeastKey
    <3>3. cur'.id = t /\ cur'.g = node[t].g
      BY <1>1, PopFacts
    <3>4. node[t].g \in Int /\ task.h[t] \in Int
      BY <1>1, <3>1, SearchAssumption DEF TypeOK, Node, IsTask
    <3> QED BY <1>1, <1>2, <2>1, <3>2, <3>3, <3>4
  <2> QED BY <1>1, <1>2, <2>1, <2>2, <2>3
<1> QED BY <1>1, <1>2, <1>3 DEF LayerInv, LayerMoves, Consistent

LEMMA LoopLayer ==
    ASSUME SearchInv, OpenInv, LayerInv, [Next]_vars, NEW o \in todo,
           ExpandSkip(o) \/ ExpandDeadEnd(o) \/ ExpandPush(o)
    PROVE  LayerInv' /\ LayerMoves
<1> DEFINE t == task.succ[o][cur.id]
           g == cur.g + task.cost[o]
<1>1. /\ TypeOK /\ LoopOK /\ IsTask(task) /\ UNCHANGED <<task, cur>> /\ NextOp(o)
      /\ CheckGenerated(o, t)
  BY DEF SearchInv, TypeOK, ExpandSkip, ExpandDeadEnd, ExpandPush
<1>2. pc = "expand" /\ pc' # "init" /\ last_f' = last_f
  <2>1. pc = "expand" /\ pc' # "init"
    BY <1>1 DEF NextOp, CheckGenerated, Return
  <2>2. last_f' = last_f
    BY <1>1 DEF ExpandSkip, ExpandDeadEnd, ExpandPush
  <2> QED BY <2>1, <2>2
<1>3. ASSUME task.alg = "ASTAR", Consistent, NEW k \in DOMAIN open'
      PROVE  k[1] >= last_f
  <2>1. CASE k \in DOMAIN open
    BY <1>3, <2>1 DEF LayerInv
  <2>2. CASE k \notin DOMAIN open
    <3>1. ExpandPush(o) /\ k = Key(g, SuccessorH(t))
      <4>1. ExpandPush(o)
        BY <2>2 DEF ExpandSkip, ExpandDeadEnd
      <4>2. open' = OpenPush(Key(g, SuccessorH(t)), t)
        BY <4>1 DEF ExpandPush
      <4>3. DOMAIN open' = DOMAIN open \cup {Key(g, SuccessorH(t))}
        BY <4>2 DEF OpenPush
      <4> QED BY <2>2, <4>1, <4>3
    <3>2. SuccessorH(t) = task.h[t] /\ task.h[t] # DeadEnd
      <4>1. hcur = -1
        BY <1>3 DEF OpenInv, IsLazy
      <4>2. SuccessorH(t) = task.h[t]
        BY <4>1 DEF SuccessorH
      <4>3. SuccessorH(t) # DeadEnd
        BY <3>1 DEF ExpandPush
      <4> QED BY <4>2, <4>3
    <3>3. /\ o \in Op /\ cur.id \in State /\ t \in State /\ task.cost[o] \in Nat /\ g \in Int
          /\ t # NoState
      BY <1>1, <1>2, SuccessorFacts, SearchAssumption DEF LoopOK
    <3>4. task.h[t] \in 0..DeadEnd /\ task.h[cur.id] \in 0..DeadEnd /\ DeadEnd \in Nat
      BY <1>1, <3>3, SearchAssumption DEF IsTask
    <3>5. k[1] = g + task.h[t]
      BY <1>1, <1>3, <3>1, <3>2, <3>3, <3>4, KeyType DEF Reopen
    <3>6. task.h[cur.id] <= task.cost[o] + task.h[t]
      BY <1>3, <3>2, <3>3 DEF Consistent
    <3>7. cur.g + task.h[cur.id] >= last_f /\ last_f \in Int /\ cur.g \in Int
      BY <1>1, <1>2, <1>3 DEF LayerInv, TypeOK
    <3> QED BY <3>3, <3>4, <3>5, <3>6, <3>7
  <2> QED BY <2>1, <2>2
<1>4. last_f \in Int
  BY DEF LayerInv
<1> QED BY <1>1, <1>2, <1>3, <1>4 DEF LayerInv, LayerMoves, Consistent

LEMMA InitLayer == Init => LayerInv
BY DEF Init, LayerInv

LEMMA StepLayer ==
    ASSUME SearchInv, OpenInv, LayerInv, [Next]_vars
    PROVE  LayerInv' /\ LayerMoves
<1>1. TypeOK /\ IsTask(task) /\ task' = task /\ last_f \in Int
      /\ task.init \in State
  BY StepMovesNodes DEF SearchInv, TypeOK, LayerInv, IsTask
<1>2. CASE InitAvoided
  <2>1. pc = "init" /\ pc' \in {"loop", "done"} /\ UNCHANGED open /\ last_f' = last_f
    BY <1>1, <1>2 DEF InitAvoided, InitStatus, Return
  <2> QED BY <1>1, <2>1 DEF LayerInv, LayerMoves, Consistent
<1>3. CASE InitPushed
  <2>1. pc = "init" /\ pc' \in {"loop", "extract", "done"} /\ last_f' = last_f
    BY <1>1, <1>3 DEF InitPushed, InitStatus, Return
  <2>2. DOMAIN open' = {Key(0, task.h[task.init])}
    BY <1>3, <2>1 DEF InitPushed, OpenPush, LayerInv
  <2>3. task.alg = "ASTAR" => Key(0, task.h[task.init])[1] >= 0
    <3>1. task.h[task.init] \in 0..DeadEnd /\ DeadEnd \in Nat /\ 0 \in Int
      BY <1>1, SearchAssumption DEF IsTask
    <3>2. ASSUME task.alg = "ASTAR"
          PROVE  Key(0, task.h[task.init])[1] = 0 + task.h[task.init]
      BY <1>1, <3>1, <3>2, KeyType DEF Reopen
    <3> QED BY <3>1, <3>2
  <2> QED BY <1>1, <2>1, <2>2, <2>3 DEF LayerInv, LayerMoves, Consistent
<1>4. CASE StepEmpty \/ Abort \/ ExpandEnd
  <2>1. UNCHANGED <<open, cur>> /\ pc' \in {"loop", "done"} /\ last_f' = last_f
    BY <1>1, <1>4 DEF StepEmpty, Abort, ExpandEnd, Return
  <2> QED BY <1>1, <2>1 DEF LayerInv, LayerMoves, Consistent
<1>5. CASE ExtractPlan
  <2>1. UNCHANGED <<open, cur, last_f>> /\ pc' \in {"backtrack", "done"}
    BY <1>5 DEF ExtractPlan, Extract, Backtrack, LoadPlan
  <2> QED BY <1>1, <2>1 DEF LayerInv, LayerMoves, Consistent
<1>6. CASE UNCHANGED vars
  BY <1>1, <1>6 DEF vars, LayerInv, LayerMoves, Consistent
<1> QED BY <1>2, <1>3, <1>4, <1>5, <1>6, PopLayer, LoopLayer DEF Next, InitStep, Step

\* With consistent estimates the f-values of the nodes A* takes never drop.
THEOREM LayersCorrect == RivalSpec => ConsistentLayers
<1>1. Init => LayerInv
  BY InitLayer
<1>2. (SearchInv /\ OpenInv) /\ LayerInv /\ [Next]_vars => LayerInv' /\ LayerMoves
  BY StepLayer
<1>3. [RivalNext]_rivalVars => [Next]_vars
  BY DEF RivalNext, rivalVars, vars, RivalMove
<1>4. Spec => []LayerInv
  BY <1>1, <1>2, OpenInvariant, PTL DEF Spec
<1> QED BY <1>2, <1>3, <1>4, RivalSearches, OpenInvariant, PTL
        DEF RivalSpec, ConsistentLayers, LayerMoves
=============================================================================
