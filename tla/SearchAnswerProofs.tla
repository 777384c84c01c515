------------------------- MODULE SearchAnswerProofs -------------------------
(***************************************************************************)
(* Proofs about what BestFirstSearch answers, for every set of tasks: the  *)
(* expansions are complete, a greedy search stops in time, and the plan    *)
(* read back along the parents is a plan.                                  *)
(***************************************************************************)
EXTENDS BestFirstSearchProofs, NaturalsInduction, WellFoundedInduction

-----------------------------------------------------------------------------
(* Expansions. *)

\* The status of the last call, and the estimate used for successors: a lazy
\* search does not expand what it finds to be a dead end.
CallInv ==
    /\ pc \in {"init", "loop", "expand"} => ret = "CONT"
    /\ hcur # DeadEnd

\* A heuristic call is answered before the search goes on.
LEMMA StepCall ==
    ASSUME TypeOK, LoopOK, CallInv, [Next]_vars
    PROVE  CallInv'
<1> USE SearchAssumption DEF CallInv
<1>1. CASE InitAvoided \/ InitPushed
  BY <1>1 DEF InitAvoided, InitPushed, Return, InitStatus
<1>2. ASSUME NEW k \in DOMAIN open,
             StepSkip(k) \/ StepAvoid(k) \/ StepGoal(k) \/ StepDeadEnd(k) \/ StepExpand(k)
      PROVE  CallInv'
  <2>1. CASE StepExpand(k)
    BY <2>1 DEF StepExpand, Pop
  <2>2. CASE StepGoal(k)
    BY <2>2 DEF StepGoal, Pop, Return
  <2> QED BY <1>2, <2>1, <2>2 DEF StepSkip, StepAvoid, StepDeadEnd, Pop
<1>3. ASSUME NEW o \in todo, ExpandSkip(o) \/ ExpandDeadEnd(o) \/ ExpandPush(o)
      PROVE  CallInv'
  <2>1. NextOp(o) /\ CheckGenerated(o, task.succ[o][cur.id]) /\ UNCHANGED hcur
    BY <1>3 DEF ExpandSkip, ExpandDeadEnd, ExpandPush
  <2> QED BY <2>1 DEF CheckGenerated, Return, NextOp
<1>4. CASE StepEmpty \/ ExpandEnd \/ Abort
  BY <1>4 DEF StepEmpty, ExpandEnd, Abort, Return
<1>5. CASE ExtractPlan \/ UNCHANGED vars
  BY <1>5 DEF ExtractPlan, Extract, Backtrack, LoadPlan, vars
<1> QED BY <1>1, <1>2, <1>3, <1>4, <1>5 DEF Next, InitStep, Step

\* A node that was reached stays so, and its g-value never grows.
LEMMA NodesImprove ==
    ASSUME SearchInv, [Next]_vars, NEW u \in State, Reached(u)
    PROVE  node'[u].status # "NEW" /\ node'[u].g <= node[u].g
<1>1. TypeOK /\ LoopOK /\ TreeInv /\ NodeMoves
  BY StepMovesNodes DEF SearchInv
<1>2. node \in [State -> Node] /\ node[u] \in Node /\ node[u].g \in Int
  BY <1>1 DEF TypeOK, Node
<1>3. CASE KeepsNodes
  BY <1>2, <1>3 DEF KeepsNodes, Reached
<1>4. CASE AddsRoot
  BY <1>1, <1>4 DEF AddsRoot, TreeInv
<1>5. ASSUME NEW s \in State, Closes(s)
      PROVE  node'[u].status # "NEW" /\ node'[u].g <= node[u].g
  BY <1>2, <1>5 DEF Closes, Close, Node, Reached
<1>6. ASSUME NEW o \in todo, NEW status \in {"OPEN", "CLOSED"}, Rewrites(o, status)
      PROVE  node'[u].status # "NEW" /\ node'[u].g <= node[u].g
  <2> DEFINE t == task.succ[o][cur.id]
             g == cur.g + task.cost[o]
  <2>1. t \in State /\ g \in Int /\ ~SkipsSuccessor(t, g)
    BY <1>1, <1>6, SuccessorFacts DEF LoopOK, Rewrites, NextOp
  <2>2. node'[u] = IF u = t THEN ReachedFrom(o, status) ELSE node[u]
    BY <1>2, <1>6 DEF Rewrites
  <2>3. u = t => g <= node[u].g
    BY <1>2, <2>1 DEF SkipsSuccessor, HasBetter, Reached
  <2> QED BY <1>2, <2>2, <2>3 DEF ReachedFrom, Reached
<1> QED BY <1>1, <1>3, <1>4, <1>5, <1>6 DEF NodeMoves

SuccessorReached(s, o) ==
    LET t == task.succ[o][s] IN
    Reached(t) /\ (Reopen => node[t].g <= node[s].g + task.cost[o])

\* The operators that a node was expanded with.
Applied(s, o) == Expanded(s) \/ (pc = "expand" /\ cur.id = s /\ o \notin todo)

ExpandInv ==
    \A s \in State : \A o \in Applicable(s) : Applied(s, o) => SuccessorReached(s, o)

\* What one operator of the loop leaves.
LEMMA OneApplied ==
    ASSUME SearchInv, CallInv, [Next]_vars, NEW p \in todo, NextOp(p),
           CheckGenerated(p, task.succ[p][cur.id]), UNCHANGED <<task, cur>>,
           NEW t, t = task.succ[p][cur.id],
           node' \in [State -> Node], t \in State, node'[t].status # "NEW",
           Reopen => node'[t].g <= cur.g + task.cost[p],
           \A u \in State \ {t} : node'[u] = node[u],
           \/ node'[t] = node[t]
           \/ t # cur.id /\ (node'[t].status = "CLOSED" => task.h[t] = DeadEnd),
           NEW s \in State, NEW o \in Applicable(s), Applied(s, o)'
    PROVE  \/ Applied(s, o) /\ node'[s].g = node[s].g
           \/ SuccessorReached(s, o)'
<1>1. TypeOK /\ CurNotStale /\ pc = "expand" /\ cur.id \in State
  BY DEF SearchInv, TreeInv, NextOp, TypeOK
<1>2. CASE Expanded(s)'
  <2>1. s # cur.id
    BY <1>1, <1>2 DEF CheckGenerated, Return, Expanded
  <2>2. s = t => node'[t] = node[t]
    BY <1>2 DEF Expanded
  <2>3. node'[s] = node[s]
    BY <2>2
  <2>4. Expanded(s)
    BY <1>2, <2>1, <2>3 DEF Expanded, IsAvoid
  <2> QED BY <2>3, <2>4 DEF Applied
<1>3. CASE pc' = "expand" /\ cur.id = s /\ o \notin todo'
  <2>1. todo' = todo \ {p}
    BY <1>3 DEF CheckGenerated, Return
  <2>2. node'[cur.id] = node[cur.id] /\ node[cur.id].g = cur.g
    BY <1>1 DEF CurNotStale
  <2>3. CASE o = p
    BY <1>3, <2>2, <2>3 DEF SuccessorReached, Reached, Reopen
  <2>4. CASE o # p
    BY <1>1, <1>3, <2>1, <2>2, <2>4 DEF Applied
  <2> QED BY <2>3, <2>4
<1> QED BY <1>2, <1>3 DEF Applied

\* The operators already applied in an expansion stay applied.
LEMMA StepApplied ==
    ASSUME SearchInv, CallInv, [Next]_vars,
           NEW s \in State, NEW o \in Applicable(s), Applied(s, o)'
    PROVE  \/ Applied(s, o) /\ node'[s].g = node[s].g
           \/ SuccessorReached(s, o)'
<1> USE SearchAssumption
<1>1. TypeOK /\ LoopOK /\ TreeInv /\ IsTask(task) /\ node \in [State -> Node]
  BY DEF SearchInv, TypeOK
<1>2. CASE InitAvoided \/ InitPushed
  <2>1. pc' # "expand" /\ \A u \in State : node[u].status = "NEW"
    BY <1>1, <1>2 DEF InitAvoided, InitPushed, Return, TreeInv, Reached
  <2>2. node'[s].status # "CLOSED"
    BY <1>1, <1>2, <2>1 DEF InitAvoided, InitPushed
  <2> QED BY <2>1, <2>2 DEF Applied, Expanded
<1>3. ASSUME NEW k \in DOMAIN open,
             StepSkip(k) \/ StepAvoid(k) \/ StepGoal(k) \/ StepDeadEnd(k) \/ StepExpand(k)
      PROVE  Applied(s, o) /\ node'[s].g = node[s].g
  <2> DEFINE t == Head(open[k])
  <2>1. /\ Pop(k) /\ UNCHANGED task
        /\ UNCHANGED node \/ node' = Close(t)
    BY <1>3 DEF StepSkip, StepAvoid, StepGoal, StepDeadEnd, StepExpand
  <2>2. t \in State /\ pc = "loop" /\ ret = "CONT" /\ cur'.id = t
    BY <1>1, <2>1, PopFacts DEF CallInv
  <2>3. node'[s].g = node[s].g /\ (s # t => node'[s] = node[s])
    BY <1>1, <2>1, <2>2 DEF Close, Node
  <2>4. CASE StepExpand(k) /\ s = t
    BY <2>2, <2>4 DEF StepExpand, Applied, Expanded
  <2>5. CASE ~StepExpand(k) /\ ~StepSkip(k) /\ s = t
    <3>1. IsAvoid(t) \/ task.h[t] = DeadEnd \/ ret' = "FOUND"
      BY <1>3, <2>5 DEF StepAvoid, StepGoal, StepDeadEnd, Return
    <3>2. pc' # "expand"
      BY <1>3, <2>2, <2>5 DEF StepAvoid, StepGoal, StepDeadEnd, Return
    <3> QED BY <2>1, <2>2, <2>5, <3>1, <3>2 DEF Applied, Expanded, IsAvoid
  <2>6. CASE s # t \/ StepSkip(k)
    <3>1. Expanded(s)'
      BY <1>3, <2>2, <2>6 DEF Applied, StepSkip, StepAvoid, StepGoal, StepDeadEnd, StepExpand,
         Return, Expandable, Close
    <3>2. node'[s] = node[s]
      BY <2>3, <2>6 DEF StepSkip
    <3>3. Expanded(s)
      BY <2>1, <2>2, <3>1, <3>2 DEF Expanded, IsAvoid
    <3> QED BY <2>3, <3>3 DEF Applied
  <2> QED BY <2>1, <2>4, <2>5, <2>6
<1>4. ASSUME NEW p \in todo, ExpandSkip(p) \/ ExpandDeadEnd(p) \/ ExpandPush(p)
      PROVE  \/ Applied(s, o) /\ node'[s].g = node[s].g
             \/ SuccessorReached(s, o)'
  <2> DEFINE t == task.succ[p][cur.id]
             g == cur.g + task.cost[p]
  <2>1. NextOp(p) /\ CheckGenerated(p, t) /\ UNCHANGED <<task, cur>>
    BY <1>4 DEF ExpandSkip, ExpandDeadEnd, ExpandPush
  <2>2. t \in State /\ g \in Int /\ cur.id \in State
    BY <1>1, <2>1, SuccessorFacts DEF LoopOK, NextOp
  <2>3. CASE ExpandSkip(p)
    <3>1. node' = node /\ SkipsSuccessor(t, g)
      BY <2>3 DEF ExpandSkip
    <3>2. node'[t].status # "NEW" /\ (Reopen => node'[t].g <= g)
      BY <3>1 DEF SkipsSuccessor, HasBetter, MayNotReopen
    <3> QED BY <1>1, <2>1, <2>2, <3>1, <3>2, OneApplied
  <2>4. ASSUME NEW status \in {"OPEN", "CLOSED"},
               node' = [node EXCEPT ![t] = ReachedFrom(p, status)],
               ~SkipsSuccessor(t, g),
               status = "CLOSED" => SuccessorH(t) = DeadEnd
        PROVE  \/ Applied(s, o) /\ node'[s].g = node[s].g
               \/ SuccessorReached(s, o)'
    <3>1. Rewrites(p, status)
      BY <2>1, <2>4 DEF Rewrites
    <3>2. node' \in [State -> Node]
      BY <1>1, <2>1, <2>4, ReachedFromType
    <3>3. /\ node'[t].status = status /\ node'[t].g = g
          /\ \A u \in State \ {t} : node'[u] = node[u]
      BY <1>1, <2>2, <2>4 DEF ReachedFrom
    <3>4. t # cur.id
      <4>1. node[cur.id].status = "CLOSED" /\ node[cur.id].g = cur.g
        BY <1>1, <2>1 DEF TreeInv, CurNotStale, NextOp
      <4>2. task.cost[p] \in Nat /\ cur.g \in Int
        BY <1>1, <2>1, SuccessorFacts DEF LoopOK, NextOp, TypeOK
      <4> QED BY <2>4, <4>1, <4>2 DEF SkipsSuccessor, HasBetter
    <3>5. status = "CLOSED" => task.h[t] = DeadEnd
      BY <2>4 DEF SuccessorH, CallInv
    <3>6. g <= g
      BY <2>2
    <3> QED BY <1>1, <2>1, <2>2, <3>2, <3>3, <3>4, <3>5, <3>6, OneApplied
  <2>5. CASE ExpandDeadEnd(p)
    BY <2>4, <2>5 DEF ExpandDeadEnd
  <2>6. CASE ExpandPush(p)
    BY <2>4, <2>6 DEF ExpandPush
  <2> QED BY <1>4, <2>3, <2>5, <2>6
<1>5. CASE StepEmpty \/ Abort \/ ExtractPlan
  <2>1. /\ UNCHANGED <<task, node, cur>> /\ pc # "expand" /\ pc' # "expand"
        /\ ret = "FOUND" => ret' = "FOUND"
    BY <1>5 DEF StepEmpty, Abort, Return, ExtractPlan, Extract, Backtrack, LoadPlan, CallInv
  <2> QED BY <2>1 DEF Applied, Expanded, IsAvoid
<1>6. CASE ExpandEnd
  BY <1>6 DEF ExpandEnd, Return, Applied, Expanded, IsAvoid, CallInv
<1>7. CASE UNCHANGED vars
  BY <1>7 DEF vars, Applied, Expanded, IsAvoid
<1> QED BY <1>2, <1>3, <1>4, <1>5, <1>6, <1>7 DEF Next, InitStep, Step

\* A step keeps the successors of every expanded state reached.
LEMMA StepExpansions ==
    ASSUME SearchInv, CallInv, ExpandInv, [Next]_vars
    PROVE  ExpandInv'
<1>1. TypeOK /\ IsTask(task) /\ task' = task
  BY StepMovesNodes DEF SearchInv, TypeOK
<1> SUFFICES ASSUME NEW s \in State, NEW o \in Applicable(s), Applied(s, o)'
             PROVE  SuccessorReached(s, o)'
  BY <1>1 DEF ExpandInv, Applicable
<1>2. SUFFICES ASSUME Applied(s, o), node'[s].g = node[s].g
               PROVE  SuccessorReached(s, o)'
  BY StepApplied
<1> DEFINE t == task.succ[o][s]
<1>3. t \in State /\ task.cost[o] \in Nat
  BY <1>1 DEF IsTask, Applicable
<1>4. Reached(t) /\ (Reopen => node[t].g <= node[s].g + task.cost[o])
  BY <1>2 DEF ExpandInv, SuccessorReached
<1>5. node'[t].status # "NEW" /\ node'[t].g <= node[t].g
  BY <1>3, <1>4, NodesImprove
<1>6. node' \in [State -> Node]
  BY StepTypes DEF SearchInv, TypeOK
<1>7. node[t].g \in Int /\ node'[t].g \in Int /\ node[s].g \in Int
  BY <1>1, <1>3, <1>6 DEF TypeOK, Node
<1> QED BY <1>1, <1>2, <1>3, <1>4, <1>5, <1>7 DEF SuccessorReached, Reached, Reopen

\* Nothing is expanded in an initial state.
LEMMA InitExpansions == Init => CallInv /\ ExpandInv
BY SearchAssumption DEF Init, CallInv, ExpandInv, Applied, Expanded, NewNode

\* The invariants of expansions hold in every state of every behaviour.
LEMMA ExpansionInvariant == Spec => [](SearchInv /\ OpenInv /\ CallInv /\ ExpandInv)
<1>1. Init => CallInv /\ ExpandInv
  BY InitExpansions
<1>2. (SearchInv /\ OpenInv) /\ (CallInv /\ ExpandInv) /\ [Next]_vars => (CallInv /\ ExpandInv)'
  BY StepCall, StepExpansions DEF SearchInv
<1> QED BY <1>1, <1>2, OpenInvariant, PTL DEF Spec

\* Every successor of an expanded node was reached, in A* with a g-value no
\* worse than through that node, whatever was reopened since.
THEOREM ExpansionsComplete == Spec => []SuccessorsReached
<1>1. ExpandInv => SuccessorsReached
  BY DEF ExpandInv, SuccessorsReached, SuccessorReached, Applied
<1> QED BY <1>1, ExpansionInvariant, PTL
-----------------------------------------------------------------------------
(* The goal. *)

IsEnd(s) == s \in State /\ IsGoal(s) /\ ~IsAvoid(s)

\* While the search goes on a greedy one has not reached a goal state, and A*
\* has not expanded one; after it, the goal was reached.
GoalInv ==
    /\ ret # "FOUND" =>
          /\ goal.id = NoState
          /\ IsGreedy => \A s \in State : IsEnd(s) => ~Reached(s)
          /\ \A s \in State : IsEnd(s) /\ node[s].status = "CLOSED" => task.h[s] = DeadEnd
    /\ ret = "FOUND" =>
          /\ IsEnd(goal.id) /\ Reached(goal.id)
          /\ ~IsGreedy => cur.id = goal.id
    /\ pc = "done" => ret # "CONT"
    /\ pc \in {"extract", "backtrack"} => ret = "FOUND"

\* The goal check of the loop, when the successor was reached.
LEMMA GeneratedGoal ==
    ASSUME SearchInv, CallInv, GoalInv, NEW p \in todo, NextOp(p), UNCHANGED <<task, cur>>,
           NEW t \in State, CheckGenerated(p, t), node'[t].status # "NEW",
           \A u \in State \ {t} : node'[u] = node[u],
           \/ node'[t] = node[t]
           \/ node'[t].status = "CLOSED" => task.h[t] = DeadEnd
    PROVE  GoalInv'
<1>1. ret = "CONT" /\ pc = "expand" /\ goal.id = NoState
  BY DEF CallInv, NextOp, GoalInv
<1>2. CASE IsGreedy /\ ~IsAvoid(t) /\ IsGoal(t)
  <2>1. goal'.id = t /\ ret' = "FOUND" /\ pc' = "extract"
    BY <1>1, <1>2 DEF CheckGenerated, GoalAt, Return
  <2> QED BY <1>2, <2>1 DEF GoalInv, IsEnd, IsGoal, IsAvoid, Reached, IsGreedy
<1>3. CASE ~(IsGreedy /\ ~IsAvoid(t) /\ IsGoal(t))
  <2>1. UNCHANGED <<goal, ret, pc>>
    BY <1>3 DEF CheckGenerated
  <2>2. ASSUME IsGreedy, NEW s \in State, IsEnd(s)
        PROVE  node'[s].status = "NEW"
    BY <1>1, <1>3, <2>2 DEF GoalInv, IsEnd, Reached
  <2>3. ASSUME NEW s \in State, IsEnd(s), node'[s].status = "CLOSED"
        PROVE  task.h[s] = DeadEnd
    BY <1>1, <2>3 DEF GoalInv
  <2> QED BY <1>1, <2>1, <2>2, <2>3 DEF GoalInv, IsEnd, IsGoal, IsAvoid, Reached, IsGreedy
<1> QED BY <1>2, <1>3

\* A step keeps what is known of the goal and of the current node.
LEMMA StepGoals ==
    ASSUME SearchInv, CallInv, GoalInv, [Next]_vars
    PROVE  GoalInv'
<1> USE SearchAssumption
<1>1. TypeOK /\ LoopOK /\ TreeInv /\ IsTask(task) /\ node \in [State -> Node] /\ task' = task
  BY StepMovesNodes DEF SearchInv, TypeOK
<1>2. CASE InitAvoided
  <2>1. UNCHANGED <<task, node, goal>> /\ ret' \in {"CONT", "UNSOLVABLE"} /\ ret = "CONT"
        /\ pc' \in {"loop", "done"} /\ (pc' = "done" => ret' # "CONT")
    BY <1>2 DEF InitAvoided, Return, InitStatus, CallInv
  <2> QED BY <2>1 DEF GoalInv, IsEnd, IsGoal, IsAvoid, Reached, IsGreedy
<1>3. CASE InitPushed
  <2>1. /\ task.init \in State /\ ~IsAvoid(task.init) /\ ret = "CONT" /\ goal.id = NoState
        /\ \A u \in State : node[u].status = "NEW"
    BY <1>1, <1>3 DEF InitPushed, TreeInv, Reached, IsTask, CallInv, GoalInv
  <2>2. /\ node'[task.init].status = "OPEN"
        /\ \A u \in State \ {task.init} : node'[u].status = "NEW"
        /\ cur'.id = task.init
    BY <1>1, <1>3, <2>1 DEF InitPushed
  <2>3. CASE IsGoal(task.init)
    <3>1. goal'.id = task.init /\ ret' = "FOUND" /\ pc' = "extract"
      BY <1>3, <2>1, <2>3 DEF InitPushed, GoalAt, Return
    <3> QED BY <1>1, <2>1, <2>2, <2>3, <3>1 DEF GoalInv, IsEnd, IsGoal, IsAvoid, Reached
  <2>4. CASE ~IsGoal(task.init)
    <3>1. goal' = goal /\ ret' \in {"CONT", "UNSOLVABLE"} /\ pc' \in {"loop", "done"}
          /\ (pc' = "done" => ret' # "CONT")
      BY <1>3, <2>4 DEF InitPushed, Return, InitStatus
    <3> QED BY <1>1, <2>1, <2>2, <2>4, <3>1 DEF GoalInv, IsEnd, IsGoal, IsAvoid, Reached
  <2> QED BY <2>3, <2>4
<1>4. ASSUME NEW k \in DOMAIN open,
             StepSkip(k) \/ StepAvoid(k) \/ StepGoal(k) \/ StepDeadEnd(k) \/ StepExpand(k)
      PROVE  GoalInv'
  <2> DEFINE t == Head(open[k])
  <2>1. /\ Pop(k) /\ UNCHANGED task
        /\ UNCHANGED node \/ (node' = Close(t) /\ node[t].status = "OPEN")
    BY <1>4 DEF StepSkip, StepAvoid, StepGoal, StepDeadEnd, StepExpand, Expandable
  <2>2. t \in State /\ pc = "loop" /\ ret = "CONT" /\ cur'.id = t /\ goal.id = NoState
    BY <1>1, <2>1, PopFacts DEF CallInv, GoalInv
  <2>3. /\ \A u \in State : (node'[u].status = "NEW") <=> (node[u].status = "NEW")
        /\ \A u \in State \ {t} : node'[u] = node[u]
    BY <1>1, <2>1, <2>2 DEF Close, Node
  <2>4. CASE StepGoal(k)
    <3>1. goal'.id = t /\ ret' = "FOUND" /\ pc' = "extract" /\ node[t].status = "OPEN"
          /\ ~IsAvoid(t) /\ IsGoal(t)
      BY <2>2, <2>4 DEF StepGoal, GoalAt, Return
    <3> QED BY <1>1, <2>2, <2>3, <3>1 DEF GoalInv, IsEnd, IsGoal, IsAvoid, Reached
  <2>5. CASE ~StepGoal(k)
    <3>1. UNCHANGED <<ret, goal>> /\ pc' \in {"loop", "expand"}
      BY <1>4, <2>2, <2>5 DEF StepSkip, StepAvoid, StepDeadEnd, StepExpand
    <3>2. node' = node \/ ~IsEnd(t) \/ task.h[t] = DeadEnd \/ IsGreedy
      BY <1>4, <2>5 DEF StepSkip, StepAvoid, StepDeadEnd, StepExpand, Expandable, IsEnd
    <3>3. ASSUME NEW s \in State, IsEnd(s), node'[s].status = "CLOSED"
          PROVE  task.h[s] = DeadEnd
      <4>1. CASE s # t \/ node' = node
        BY <2>2, <2>3, <3>3, <4>1 DEF GoalInv
      <4>2. CASE s = t /\ IsGreedy
        BY <2>2, <2>3, <3>3, <4>2 DEF GoalInv, Reached
      <4> QED BY <3>2, <3>3, <4>1, <4>2
    <3> QED BY <1>1, <2>2, <2>3, <3>1, <3>3 DEF GoalInv, IsEnd, IsGoal, IsAvoid, Reached, IsGreedy
  <2> QED BY <2>4, <2>5
<1>5. ASSUME NEW p \in todo, ExpandSkip(p) \/ ExpandDeadEnd(p) \/ ExpandPush(p)
      PROVE  GoalInv'
  <2> DEFINE t == task.succ[p][cur.id]
             g == cur.g + task.cost[p]
  <2>1. NextOp(p) /\ CheckGenerated(p, t) /\ UNCHANGED <<task, cur>>
    BY <1>5 DEF ExpandSkip, ExpandDeadEnd, ExpandPush
  <2>2. t \in State
    BY <1>1, <2>1, SuccessorFacts DEF LoopOK, NextOp
  <2>3. CASE ExpandSkip(p)
    <3>1. node' = node /\ node'[t].status # "NEW"
      BY <2>3 DEF ExpandSkip, SkipsSuccessor, HasBetter, MayNotReopen
    <3> QED BY <2>1, <2>2, <3>1, GeneratedGoal
  <2>4. CASE ExpandDeadEnd(p)
    <3>1. /\ node'[t].status = "CLOSED" /\ task.h[t] = DeadEnd
          /\ \A u \in State \ {t} : node'[u] = node[u]
      BY <1>1, <2>2, <2>4 DEF ExpandDeadEnd, ReachedFrom, SuccessorH, CallInv
    <3> QED BY <2>1, <2>2, <3>1, GeneratedGoal
  <2>5. CASE ExpandPush(p)
    <3>1. /\ node'[t].status = "OPEN"
          /\ \A u \in State \ {t} : node'[u] = node[u]
      BY <1>1, <2>2, <2>5 DEF ExpandPush, ReachedFrom
    <3> QED BY <2>1, <2>2, <3>1, GeneratedGoal
  <2> QED BY <1>5, <2>3, <2>4, <2>5
<1>6. CASE StepEmpty \/ Abort \/ ExpandEnd
  <2>1. /\ UNCHANGED <<task, node, goal>> /\ ret = "CONT" /\ ret' # "FOUND"
        /\ pc' \in {"loop", "done"} /\ (pc' = "done" => ret' # "CONT")
    BY <1>6 DEF StepEmpty, Abort, ExpandEnd, Return, CallInv
  <2> QED BY <2>1 DEF GoalInv, IsEnd, IsGoal, IsAvoid, Reached, IsGreedy
<1>7. CASE ExtractPlan \/ UNCHANGED vars
  <2>1. /\ UNCHANGED <<task, node, goal, ret, cur>>
        /\ pc' = pc \/ (pc \in {"extract", "backtrack"} /\ pc' \in {"backtrack", "done"})
    BY <1>7 DEF ExtractPlan, Extract, Backtrack, LoadPlan, vars
  <2> QED BY <2>1 DEF GoalInv, IsEnd, IsGoal, IsAvoid, Reached, IsGreedy
<1> QED BY <1>2, <1>3, <1>4, <1>5, <1>6, <1>7 DEF Next, InitStep, Step

\* No goal has been found in an initial state.
LEMMA InitGoals == Init => GoalInv
BY SearchAssumption DEF Init, GoalInv, IsEnd, Reached, NewNode

\* The invariant of goals holds in every state of every behaviour.
LEMMA GoalInvariant == Spec => [](SearchInv /\ CallInv /\ GoalInv)
<1>1. Init => GoalInv
  BY InitGoals
<1>2. (SearchInv /\ CallInv) /\ GoalInv /\ [Next]_vars => GoalInv'
  BY StepGoals
<1>3. (SearchInv /\ OpenInv /\ CallInv /\ ExpandInv) => SearchInv /\ CallInv
  OBVIOUS
<1> QED BY <1>1, <1>2, <1>3, ExpansionInvariant, PTL DEF Spec

\* A greedy search goes on only while it has not reached a goal state.
THEOREM GreedyCorrect == Spec => []GreedyStops
<1>1. SearchInv /\ CallInv /\ GoalInv => GreedyStops
  <2>1. SUFFICES ASSUME SearchInv, CallInv, GoalInv, IsGreedy, pc = "loop",
                        NEW s \in task.goal \ task.avoid
                 PROVE  ~Reached(s)
    BY DEF GreedyStops
  <2>2. s \in State /\ IsEnd(s) /\ ret = "CONT"
    BY <2>1 DEF SearchInv, TypeOK, IsTask, IsEnd, IsGoal, IsAvoid, CallInv
  <2> QED BY <2>1, <2>2 DEF GoalInv
<1> QED BY <1>1, GoalInvariant, PTL

-----------------------------------------------------------------------------
(* The plan. *)

\* The parents lead nowhere but to the root: no set of nodes holds the parents
\* of all its nodes.
Acyclic ==
    \A S \in SUBSET State :
        S # {} /\ (\A e \in S : Reached(e)) => \E e \in S : node[e].parent \notin S

\* A new parent closes no cycle when it is not below its successor.
LEMMA RewritesKeepsAcyclic ==
    ASSUME SearchInv, Acyclic, NEW o \in todo, NEW status \in {"OPEN", "CLOSED"},
           Rewrites(o, status)
    PROVE  Acyclic'
<1> DEFINE s == task.succ[o][cur.id]
           g == cur.g + task.cost[o]
<1>1. /\ TypeOK /\ LoopOK /\ SearchTree /\ CurNotStale /\ pc = "expand"
      /\ node \in [State -> Node]
  BY DEF SearchInv, TreeInv, Rewrites, NextOp, TypeOK
<1>2. /\ s \in State /\ cur.id \in State /\ task.cost[o] \in Nat /\ cur.g \in Int
  BY <1>1, SuccessorFacts DEF LoopOK, Rewrites, TypeOK
<1>3. node[cur.id].g = cur.g /\ Reached(cur.id)
  BY <1>1 DEF CurNotStale, Reached
<1>4. /\ node'[s].parent = cur.id
      /\ \A u \in State \ {s} : node'[u] = node[u]
  BY <1>1, <1>2 DEF Rewrites, ReachedFrom
<1>5. Reached(s) => node[s].g > cur.g
  <2>1. Reached(s) => ~(node[s].g <= g)
    BY DEF Rewrites, SkipsSuccessor, HasBetter, Reached
  <2> QED BY <1>1, <1>2, <2>1 DEF Node
<1> SUFFICES ASSUME NEW S \in SUBSET State, S # {}, \A e \in S : node'[e].status # "NEW",
                    \A e \in S : node'[e].parent \in S
             PROVE  FALSE
  BY DEF Acyclic, Reached
<1>6. CASE s \notin S
  <2>1. \A e \in S : Reached(e) /\ node[e].parent \in S
    BY <1>4, <1>6 DEF Reached
  <2> QED BY <2>1 DEF Acyclic
<1>7. CASE s \in S
  <2> DEFINE T == {e \in S : Reached(e) /\ node[e].g <= cur.g}
  <2>1. cur.id \in T
    BY <1>2, <1>3, <1>4, <1>7
  <2>2. ASSUME NEW e \in T PROVE node[e].parent \in T
    <3>1. e # s /\ e \in State /\ Reached(e) /\ node[e].g <= cur.g
      BY <1>1, <1>2, <1>5 DEF Node
    <3>2. node[e].parent \in S /\ node[e].parent \in State
      BY <1>4, <3>1
    <3>3. ~IsRoot(e)
      BY <3>2, SearchAssumption DEF IsRoot
    <3>4. IsChild(e)
      BY <1>1, <3>1, <3>3 DEF SearchTree
    <3>5. Reached(node[e].parent) /\ node[e].g >= node[node[e].parent].g + task.cost[node[e].op]
          /\ task.cost[node[e].op] \in Nat
      BY <1>1, <3>4 DEF IsChild, TypeOK, IsTask
    <3>6. node[node[e].parent].g \in Int /\ node[e].g \in Int
      BY <1>1, <3>1, <3>2 DEF Node
    <3> QED BY <1>2, <3>1, <3>2, <3>5, <3>6
  <2> HIDE DEF T
  <2>3. T \in SUBSET State /\ \A e \in T : Reached(e)
    BY DEF T
  <2> QED BY <2>1, <2>2, <2>3 DEF Acyclic
<1> QED BY <1>6, <1>7

\* A step keeps the parents free of cycles.
LEMMA StepAcyclic ==
    ASSUME SearchInv, Acyclic, [Next]_vars
    PROVE  Acyclic'
<1>1. TypeOK /\ NodeMoves /\ TreeInv /\ node \in [State -> Node]
  BY StepMovesNodes DEF SearchInv, TypeOK
<1>2. CASE KeepsNodes
  BY <1>2 DEF KeepsNodes, Acyclic, Reached
<1>3. CASE AddsRoot
  <2>1. /\ task.init \in State /\ node'[task.init].parent = NoState
        /\ \A u \in State \ {task.init} : node'[u].status = "NEW"
    BY <1>1, <1>3 DEF AddsRoot, RootNode, TreeInv, Reached, TypeOK, IsTask
  <2>2. NoState \notin State
    BY SearchAssumption
  <2> QED BY <2>1, <2>2 DEF Acyclic, Reached
<1>4. ASSUME NEW s \in State, Closes(s)
      PROVE  Acyclic'
  <2>1. /\ \A u \in State : /\ node'[u].parent = node[u].parent
                            /\ node'[u].status # "NEW" => node[u].status # "NEW"
    BY <1>1, <1>4 DEF Closes, Close, Node
  <2> QED BY <2>1 DEF Acyclic, Reached
<1> QED BY <1>1, <1>2, <1>3, <1>4, RewritesKeepsAcyclic DEF NodeMoves

\* The states read so far: each the parent of the next, down to the goal.
ParentPath(path) ==
    /\ path \in Seq(State) /\ path # << >>
    /\ path[Len(path)] = goal.id
    /\ \A i \in 1..Len(path) : Reached(path[i])
    /\ \A i \in 1..(Len(path) - 1) : node[path[i + 1]].parent = path[i]

PathInv ==
    /\ pc = "backtrack" => ParentPath(plan.state)
    /\ Planned => /\ ParentPath(plan.state)
                  /\ IsRoot(plan.state[1])
                  /\ plan = PlanOf(plan.state)

\* Following one more parent lengthens a path of parents by one state.
LEMMA ParentPrepends ==
    ASSUME SearchInv, NEW path, ParentPath(path), node[Head(path)].parent # NoState
    PROVE  ParentPath(<<node[Head(path)].parent>> \o path)
<1> DEFINE p == node[Head(path)].parent
           longer == <<p>> \o path
<1>1. path \in Seq(State) /\ Len(path) \in Nat \ {0} /\ Head(path) = path[1] /\ path[1] \in State
  BY EmptySeq DEF ParentPath
<1>2. Reached(path[1]) /\ ~IsRoot(path[1])
  BY <1>1 DEF ParentPath, IsRoot
<1>3. p \in State /\ Reached(p)
  BY <1>1, <1>2 DEF SearchInv, TreeInv, SearchTree, IsChild
<1>4. /\ longer \in Seq(State) /\ longer # << >>
      /\ Len(longer) = 1 + Len(path)
      /\ longer[1] = p
      /\ \A i \in 2..Len(longer) : longer[i] = path[i - 1]
  <2>1. <<p>> \in Seq(State) /\ Len(<<p>>) = 1 /\ <<p>>[1] = p
    BY <1>3
  <2>2. longer \in Seq(State) /\ longer # << >>
    BY <1>1, <1>3, PrependType
  <2> QED BY <1>1, <2>1, <2>2, ConcatProperties
<1> HIDE DEF longer
<1>5. longer[Len(longer)] = goal.id
  <2>1. Len(longer) \in 2..Len(longer) /\ Len(longer) - 1 = Len(path)
    BY <1>1, <1>4
  <2> QED BY <1>4, <2>1 DEF ParentPath
<1>6. ASSUME NEW i \in 1..Len(longer) PROVE Reached(longer[i])
  <2>1. CASE i = 1
    BY <1>3, <1>4, <2>1
  <2>2. CASE i # 1
    <3>1. i \in 2..Len(longer) /\ i - 1 \in 1..Len(path)
      BY <1>1, <1>4, <2>2
    <3> QED BY <1>4, <3>1 DEF ParentPath
  <2> QED BY <2>1, <2>2
<1>7. ASSUME NEW i \in 1..(Len(longer) - 1) PROVE node[longer[i + 1]].parent = longer[i]
  <2>1. longer[i + 1] = path[i]
    <3>1. i + 1 \in 2..Len(longer) /\ (i + 1) - 1 = i
      BY <1>1, <1>4
    <3> QED BY <1>4, <3>1
  <2>2. CASE i = 1
    BY <1>1, <1>4, <2>1, <2>2
  <2>3. CASE i # 1
    <3>1. /\ i \in 2..Len(longer) /\ i - 1 \in 1..(Len(path) - 1) /\ (i - 1) + 1 = i
      BY <1>1, <1>4, <2>3
    <3>2. node[path[(i - 1) + 1]].parent = path[i - 1]
      BY <3>1 DEF ParentPath
    <3> QED BY <1>4, <2>1, <3>1, <3>2
  <2> QED BY <2>2, <2>3
<1>8. ParentPath(longer)
  BY <1>4, <1>5, <1>6, <1>7 DEF ParentPath
<1> QED BY <1>8 DEF longer

\* A step keeps the plan on a path of parents.
LEMMA StepPath ==
    ASSUME SearchInv, GoalInv, PathInv, [Next]_vars
    PROVE  PathInv'
<1>1. CASE Extract
  <2>1. /\ plan'.state = <<goal.id>> /\ pc' = "backtrack" /\ UNCHANGED <<node, goal>>
        /\ goal.id \in State /\ Reached(goal.id)
    BY <1>1 DEF Extract, GoalInv, IsEnd
  <2>2. ParentPath(plan'.state)
    BY <2>1 DEF ParentPath
  <2> QED BY <2>1, <2>2 DEF PathInv, ParentPath, Reached, Planned
<1>2. CASE Backtrack
  <2>1. /\ plan'.state = <<node[Head(plan.state)].parent>> \o plan.state
        /\ pc = "backtrack" /\ pc' = "backtrack" /\ UNCHANGED <<node, goal>>
        /\ node[Head(plan.state)].parent # NoState
    BY <1>2 DEF Backtrack, SearchInv, TypeOK
  <2>2. ParentPath(plan'.state)
    BY <2>1, ParentPrepends DEF PathInv
  <2> QED BY <2>1, <2>2 DEF PathInv, ParentPath, Reached, Planned
<1>3. CASE LoadPlan
  <2>1. /\ plan' = PlanOf(plan.state) /\ plan'.state = plan.state
        /\ pc = "backtrack" /\ pc' = "done" /\ UNCHANGED <<node, goal>>
        /\ node[Head(plan.state)].parent = NoState
        /\ ParentPath(plan.state)
    BY <1>3 DEF LoadPlan, PathInv, PlanOf
  <2>2. Head(plan.state) = plan.state[1]
    BY <2>1 DEF ParentPath
  <2> QED BY <2>1, <2>2 DEF PathInv, ParentPath, Reached, IsRoot, PlanOf
<1>4. CASE pc' # "backtrack" /\ ~Planned'
  BY <1>4 DEF PathInv
<1>5. CASE UNCHANGED vars
  BY <1>5 DEF vars, PathInv, ParentPath, Reached, IsRoot, PlanOf, Planned
<1>6. CASE InitStep
  BY <1>4, <1>6 DEF InitStep, InitAvoided, InitPushed, Return, InitStatus, Planned
<1>7. CASE Step
  <2>1. CASE StepEmpty \/ ExpandEnd
    BY <1>4, <2>1 DEF StepEmpty, ExpandEnd, Return, Planned
  <2>2. ASSUME NEW k \in DOMAIN open,
               StepSkip(k) \/ StepAvoid(k) \/ StepGoal(k) \/ StepDeadEnd(k) \/ StepExpand(k)
        PROVE  PathInv'
    BY <1>4, <2>2 DEF StepSkip, StepAvoid, StepGoal, StepDeadEnd, StepExpand, Pop, Return, Planned
  <2>3. ASSUME NEW o \in todo, ExpandSkip(o) \/ ExpandDeadEnd(o) \/ ExpandPush(o)
        PROVE  PathInv'
    <3>1. NextOp(o) /\ CheckGenerated(o, task.succ[o][cur.id])
      BY <2>3 DEF ExpandSkip, ExpandDeadEnd, ExpandPush
    <3> QED BY <1>4, <3>1 DEF CheckGenerated, NextOp, Return, Planned
  <2> QED BY <1>7, <2>1, <2>2, <2>3 DEF Step
<1>8. CASE Abort
  BY <1>4, <1>8 DEF Abort, Return, Planned
<1> QED BY <1>1, <1>2, <1>3, <1>5, <1>6, <1>7, <1>8 DEF Next, ExtractPlan

\* There are neither parents nor a plan in an initial state.
LEMMA InitPlans == Init => Acyclic /\ PathInv
BY DEF Init, Acyclic, Reached, NewNode, PathInv, Planned

\* Along the parents no state is met twice.
LEMMA PathDistinct ==
    ASSUME Acyclic, NEW path, ParentPath(path), NEW i \in 1..Len(path), NEW j \in 1..Len(path),
           i < j
    PROVE  path[i] # path[j]
<1> SUFFICES ASSUME path[i] = path[j] PROVE FALSE
  OBVIOUS
<1> DEFINE S == {path[m] : m \in (i + 1)..j}
<1>1. path \in Seq(State) /\ Len(path) \in Nat
  BY DEF ParentPath
<1>2. j \in (i + 1)..j /\ path[j] \in S
  BY <1>1
<1>3. ASSUME NEW m \in (i + 1)..j
      PROVE  path[m] \in State /\ Reached(path[m]) /\ node[path[m]].parent \in S
  <2>1. m \in 1..Len(path) /\ m - 1 \in 1..(Len(path) - 1) /\ (m - 1) + 1 = m
    BY <1>1
  <2>2. node[path[m]].parent = path[m - 1]
    BY <2>1 DEF ParentPath
  <2>3. m - 1 = i \/ m - 1 \in (i + 1)..j
    BY <1>1
  <2> QED BY <1>1, <1>2, <2>1, <2>2, <2>3 DEF ParentPath
<1>4. S \in SUBSET State /\ S # {} /\ \A e \in S : Reached(e) /\ node[e].parent \in S
  BY <1>2, <1>3
<1> QED BY <1>4 DEF Acyclic

\* A path of parents from the root to a goal is a plan.
LEMMA PathIsPlan ==
    ASSUME SearchInv, GoalInv, Acyclic, PathInv
    PROVE  PlanCorrect
<1> SUFFICES ASSUME Planned PROVE PlanCorrect
  BY DEF PlanCorrect
<1> DEFINE path == plan.state
           n == Len(path)
<1>1. /\ ParentPath(path) /\ IsRoot(path[1]) /\ plan = PlanOf(path)
      /\ IsEnd(goal.id) /\ SearchTree /\ TypeOK
  BY DEF PathInv, GoalInv, Planned, SearchInv, TreeInv
<1>2. path \in Seq(State) /\ n \in Nat \ {0} /\ \A i \in 1..n : path[i] \in State /\ Reached(path[i])
  BY <1>1, EmptySeq DEF ParentPath
<1>3. path[1] = task.init
  BY <1>1, <1>2, SearchAssumption DEF SearchTree, IsRoot, IsChild
<1>4. IsGoal(path[n]) /\ ~IsAvoid(path[n])
  BY <1>1 DEF ParentPath, IsEnd
<1>5. plan.op = [i \in 1..(n - 1) |-> node[path[i + 1]].op] /\ Len(plan.op) = n - 1
  <2>1. plan.op = [i \in 1..(n - 1) |-> node[path[i + 1]].op]
    BY <1>1 DEF PlanOf
  <2>2. plan.op \in Seq(Op \cup {NoOp})
    BY <1>1 DEF TypeOK
  <2>3. DOMAIN plan.op = 1..Len(plan.op) /\ Len(plan.op) \in Nat
    BY <2>2
  <2> QED BY <1>2, <2>1, <2>3
<1>6. ASSUME NEW i \in 1..(n - 1)
      PROVE  /\ plan.op[i] \in Op /\ task.succ[plan.op[i]][path[i]] = path[i + 1]
             /\ ~IsAvoid(path[i])
  <2>1. i + 1 \in 1..n /\ i \in 1..n
    BY <1>2
  <2>2. node[path[i + 1]].parent = path[i] /\ path[i] \in State
    BY <1>1, <1>2, <2>1 DEF ParentPath
  <2>3. IsChild(path[i + 1])
    BY <1>1, <1>2, <2>1, <2>2, SearchAssumption DEF SearchTree, IsRoot
  <2> QED BY <1>5, <2>2, <2>3 DEF IsChild
<1>7. \A i \in 1..n : ~IsAvoid(path[i])
  <2>1. \A i \in 1..n : i = n \/ i \in 1..(n - 1)
    BY <1>2
  <2> QED BY <1>4, <1>6, <2>1
<1>8. \A i, j \in 1..n : path[i] = path[j] => i = j
  <2>1. \A i, j \in 1..n : i < j \/ j < i \/ i = j
    BY <1>2
  <2> QED BY <1>1, <2>1, PathDistinct
<1>9. n > 0 /\ IsGoal(path[n]) /\ Len(plan.op) = n - 1
  BY <1>2, <1>4, <1>5
<1> QED BY ONLY <1>3, <1>6, <1>7, <1>8, <1>9, Zenon DEF PlanCorrect

\* The plan read back along the parents, which the search may have redirected
\* in between, is a plan: applicable operators from the initial state to a goal
\* state, without a cycle and without a state to avoid.
THEOREM PlanCorrectness == Spec => []PlanCorrect
<1>1. Init => Acyclic /\ PathInv
  BY InitPlans
<1>2. (SearchInv /\ CallInv /\ GoalInv) /\ (Acyclic /\ PathInv) /\ [Next]_vars
          => (Acyclic /\ PathInv)'
  BY StepAcyclic, StepPath
<1>3. (SearchInv /\ CallInv /\ GoalInv) /\ (Acyclic /\ PathInv) => PlanCorrect
  BY PathIsPlan
<1> QED BY <1>1, <1>2, <1>3, GoalInvariant, PTL DEF Spec
-----------------------------------------------------------------------------
(* The cost of the plan. *)

\* Once the search has ended, nothing but the plan changes.
LEMMA EndedStays ==
    ASSUME CallInv, ret # "CONT", [Next]_vars
    PROVE  UNCHANGED <<task, node, goal, ret, cur, open>> /\ (pc # "init" /\ pc' # "init")
<1>1. pc \notin {"init", "loop", "expand"}
  BY DEF CallInv
<1>2. ~InitStep /\ ~Abort
  BY <1>1 DEF InitStep, InitAvoided, InitPushed, Abort
<1>3. ~Step
  BY <1>1 DEF Step, StepEmpty, StepSkip, StepAvoid, StepGoal, StepDeadEnd, StepExpand, Pop,
     ExpandSkip, ExpandDeadEnd, ExpandPush, ExpandEnd, NextOp
<1>4. ExtractPlan \/ UNCHANGED vars
  BY <1>2, <1>3 DEF Next
<1> QED BY <1>1, <1>4 DEF ExtractPlan, Extract, Backtrack, LoadPlan, vars

\* The least key bounds the f-value of every open node, and the node under it
\* has no larger one.
LEMMA LeastKey ==
    ASSUME TypeOK, EntriesInv, task.alg = "ASTAR", NEW k \in DOMAIN open, Pop(k)
    PROVE  /\ node[Head(open[k])].g <= k[1]
           /\ node[Head(open[k])].g + task.h[Head(open[k])] <= k[1]
           /\ \A u \in State : node[u].status = "OPEN" => k[1] <= node[u].g + task.h[u]
<1> DEFINE t == Head(open[k])
<1>1. t \in State /\ k[1] \in Int /\ Reopen /\ IsTask(task)
  BY PopFacts DEF Reopen, TypeOK
<1>2. node[t].g \in Int /\ task.h[t] \in Nat
  BY <1>1, SearchAssumption DEF TypeOK, Node, IsTask
<1>3. Listed(open, k, t)
  <2>1. open[k] \in Seq(State) /\ open[k] # << >>
    BY DEF TypeOK, OpenTypeOK
  <2>2. 1 \in 1..Len(open[k]) /\ open[k][1] = t
    BY <2>1, EmptySeq
  <2> QED BY <2>2 DEF Listed
<1>4. node[t].g <= k[1] /\ node[t].g + task.h[t] <= k[1]
  <2>1. k[1] >= node[t].g + task.h[t]
    BY <1>1, <1>3 DEF EntriesInv, EntriesNotTooGood
  <2> QED BY <1>1, <1>2, <2>1
<1>5. ASSUME NEW u \in State, node[u].status = "OPEN"
      PROVE  k[1] <= node[u].g + task.h[u]
  <2>1. PICK l \in DOMAIN open : l = Key(node[u].g, task.h[u])
    BY <1>1, <1>5 DEF EntriesInv, OpenListed
  <2>2. k[1] <= l[1]
    <3>1. KeyLeq(k, l)
      BY DEF Pop, IsMinKey
    <3>2. k[1] \in Int /\ l[1] \in Int
      BY DEF TypeOK, OpenTypeOK
    <3> QED BY <3>1, <3>2 DEF KeyLeq
  <2>3. l[1] = node[u].g + task.h[u]
    <3>1. node[u].g \in Int /\ task.h[u] \in 0..DeadEnd
      BY <1>1 DEF TypeOK, Node, IsTask
    <3> QED BY <1>1, <2>1, <3>1, KeyType, SearchAssumption
  <2> QED BY <2>2, <2>3
<1> QED BY <1>4, <1>5

\* The states that the parents in nd lead back to y from.  It needs no
\* recursion: they are in every set with y that holds the children of all it
\* holds.
Kept(nd, S) == \A s \in State : nd[s].status # "NEW" /\ nd[s].parent \in S => s \in S
Below(nd, y) == {x \in State : \A S \in SUBSET State : y \in S /\ Kept(nd, S) => x \in S}

\* Below is the least set with the state itself and the children of its states.
LEMMA BelowIs ==
    ASSUME NEW nd, NEW y \in State
    PROVE  /\ y \in Below(nd, y) /\ Below(nd, y) \in SUBSET State /\ Kept(nd, Below(nd, y))
           /\ \A S \in SUBSET State : y \in S /\ Kept(nd, S) => Below(nd, y) \subseteq S
<1>1. y \in Below(nd, y) /\ Below(nd, y) \in SUBSET State
  BY DEF Below
<1>2. \A S \in SUBSET State : y \in S /\ Kept(nd, S) => Below(nd, y) \subseteq S
  BY DEF Below
<1>3. ASSUME NEW s \in State, nd[s].status # "NEW", nd[s].parent \in Below(nd, y)
      PROVE  s \in Below(nd, y)
  <2>1. ASSUME NEW S \in SUBSET State, y \in S, Kept(nd, S) PROVE s \in S
    BY <1>2, <1>3, <2>1 DEF Kept
  <2> QED BY <2>1 DEF Below
<1> QED BY <1>1, <1>2, <1>3 DEF Kept

\* The states below a node have no smaller g-value, and a node that was not
\* reached has none below it.
LEMMA BelowDearer ==
    ASSUME SearchInv, NEW y \in State
    PROVE  /\ \A x \in Below(node, y) : node[y].g <= node[x].g
           /\ ~Reached(y) => Below(node, y) = {y}
<1>1. SearchTree /\ node \in [State -> Node] /\ IsTask(task)
  BY DEF SearchInv, TreeInv, TypeOK
<1>2. \A s \in State : node[s].g \in Int
  BY <1>1 DEF Node
<1>3. ASSUME NEW s \in State, Reached(s), node[s].parent \in State
      PROVE  Reached(node[s].parent) /\ node[node[s].parent].g <= node[s].g
  <2>1. IsChild(s)
    BY <1>1, <1>3, SearchAssumption DEF SearchTree, IsRoot
  <2>2. task.cost[node[s].op] \in Nat
    BY <1>1, <2>1 DEF IsChild, IsTask
  <2> QED BY <1>2, <1>3, <2>1, <2>2 DEF IsChild
<1>4. \A x \in Below(node, y) : node[y].g <= node[x].g
  <2> DEFINE S == {s \in State : node[y].g <= node[s].g}
  <2>1. y \in S
    BY <1>2
  <2>2. Kept(node, S)
    BY <1>2, <1>3 DEF Kept, Reached
  <2> QED BY <2>1, <2>2, BelowIs
<1>5. ASSUME ~Reached(y) PROVE Below(node, y) = {y}
  <2>1. Kept(node, {y})
    BY <1>3, <1>5 DEF Kept, Reached
  <2> QED BY <2>1, BelowIs
<1> QED BY <1>4, <1>5

\* What is below a node when cur_node becomes the parent of its successor.
LEMMA BelowMoves ==
    ASSUME SearchInv, NEW o \in todo, NEW status \in {"OPEN", "CLOSED"}, Rewrites(o, status),
           NEW t, t = task.succ[o][cur.id]
    PROVE  /\ t \in State /\ cur.id \in State /\ t # cur.id
           /\ node[cur.id].status = "CLOSED" /\ node[cur.id].g = cur.g
           /\ \A u \in State \ {t} : node'[u] = node[u]
           /\ node'[t] = ReachedFrom(o, status)
           /\ Reached(t) => cur.g + task.cost[o] < node[t].g
           /\ cur.id \notin Below(node, t)
           /\ \A y \in State :
                 IF cur.id \in Below(node, y)
                 THEN /\ Below(node, y) \subseteq Below(node', y)
                      /\ cur.id \in Below(node', y) /\ t \in Below(node', y)
                 ELSE /\ Below(node', y) \subseteq Below(node, y)
                      /\ cur.id \notin Below(node', y)
                      /\ y # t => t \notin Below(node', y)
<1> DEFINE g == cur.g + task.cost[o]
<1>1. /\ TypeOK /\ LoopOK /\ CurNotStale /\ node \in [State -> Node] /\ pc = "expand"
      /\ \A s \in State : node[s].g \in Int
  BY DEF SearchInv, TreeInv, TypeOK, Node, Rewrites, NextOp
<1>2. t \in State /\ cur.id \in State /\ g \in Int /\ task.cost[o] \in Nat /\ cur.g \in Int
  BY <1>1, SuccessorFacts DEF LoopOK, Rewrites, TypeOK
<1>3. node[cur.id].status = "CLOSED" /\ node[cur.id].g = cur.g
  BY <1>1 DEF CurNotStale
<1>4. /\ \A u \in State \ {t} : node'[u] = node[u]
      /\ node'[t] = ReachedFrom(o, status)
      /\ node'[t].parent = cur.id /\ node'[t].status # "NEW"
  BY <1>1, <1>2 DEF Rewrites, ReachedFrom
<1>5. Reached(t) => g < node[t].g
  BY <1>1, <1>2 DEF Rewrites, SkipsSuccessor, HasBetter, Reached
<1>6. cur.id \notin Below(node, t) /\ t # cur.id
  <2>1. CASE Reached(t)
    <3>1. ~(node[t].g <= node[cur.id].g)
      BY <1>1, <1>2, <1>3, <1>5, <2>1
    <3> QED BY <1>1, <1>2, <3>1, BelowDearer
  <2>2. CASE ~Reached(t)
    BY <1>2, <1>3, <2>2, BelowDearer DEF Reached
  <2> QED BY <2>1, <2>2
<1>7. ASSUME NEW y \in State, cur.id \notin Below(node, y)
      PROVE  /\ Below(node', y) \subseteq Below(node, y)
             /\ cur.id \notin Below(node', y)
             /\ y # t => t \notin Below(node', y)
  <2> DEFINE B == Below(node, y)
  <2>0. y \in B /\ B \in SUBSET State /\ Kept(node, B)
    BY BelowIs
  <2>1. Kept(node', B) /\ Kept(node', B \ {t})
    BY <1>4, <1>7, <2>0 DEF Kept
  <2>2. Below(node', y) \subseteq B
    BY <2>0, <2>1, BelowIs
  <2>3. y # t => Below(node', y) \subseteq B \ {t}
    BY <2>0, <2>1, BelowIs
  <2> QED BY <1>7, <2>2, <2>3
<1>8. ASSUME NEW y \in State, cur.id \in Below(node, y)
      PROVE  /\ Below(node, y) \subseteq Below(node', y)
             /\ cur.id \in Below(node', y) /\ t \in Below(node', y)
  <2> DEFINE B == Below(node', y)
             T == B \cup Below(node, t)
  <2>0. /\ y \in B /\ B \in SUBSET State /\ Kept(node', B)
        /\ t \in Below(node, t) /\ Below(node, t) \in SUBSET State /\ Kept(node, Below(node, t))
    BY <1>2, BelowIs
  <2>1. Kept(node, T)
    BY <1>4, <2>0 DEF Kept
  <2>2. Below(node, y) \subseteq T
    BY <2>0, <2>1, BelowIs
  <2>3. cur.id \in B
    BY <1>6, <1>8, <2>2
  <2>4. t \in B
    BY <1>2, <1>4, <2>0, <2>3 DEF Kept
  <2>5. Kept(node, B)
    BY <1>4, <2>0, <2>4 DEF Kept
  <2>6. Below(node, y) \subseteq B
    BY <2>0, <2>5, BelowIs
  <2> QED BY <2>3, <2>4, <2>6
<1> QED BY <1>2, <1>3, <1>4, <1>5, <1>6, <1>7, <1>8

FValue(s) == node[s].g + task.h[s]
IsOpen(s) == node[s].status = "OPEN"

\* Of a node that was expanded, the open nodes below it, or else all the
\* others, promise no less than it did.  Why: when it was taken from the open
\* list all of them did.  Afterwards either only nodes below it were expanded,
\* which leaves the others alone, or one of the others had its turn, and then
\* those below promised no less either.
Late(y) == \A x \in Below(node, y) : IsOpen(x) => FValue(y) <= FValue(x)
Early(y) == \A x \in State \ Below(node, y) : IsOpen(x) => FValue(y) <= FValue(x)

\* So a node that A* reopens, for a smaller g-value, promises less than all open
\* nodes below it, and is taken from the open list before them.
OrderInv == Reopen => \A y \in State :
    /\ IsOpen(y) => /\ \A x \in Below(node, y) \ {y} : IsOpen(x) => FValue(y) < FValue(x)
                    /\ pc = "expand" => cur.id \notin Below(node, y)
    /\ node[y].status = "CLOSED" =>
          IF pc = "expand" THEN IF cur.id \in Below(node, y) THEN Early(y) ELSE Late(y)
                           ELSE Late(y) \/ Early(y)

\* In A* a dead end is neither open nor a parent.
LiveInv == Reopen =>
    /\ pc \in {"loop", "expand"} => \A s \in State : IsOpen(s) => task.h[s] # DeadEnd
    /\ pc = "expand" => task.h[cur.id] # DeadEnd
    /\ \A s \in State : Reached(s) /\ ~IsRoot(s) => task.h[node[s].parent] # DeadEnd

\* When A* has found a goal no node above it is open.
ClearInv == Reopen /\ ret = "FOUND" =>
    \A y \in State : IsOpen(y) /\ goal.id \in Below(node, y) => y = goal.id

\* A search that does not reopen never changes the g-value of a parent.
ChildExact(s) == node[s].g = node[node[s].parent].g + task.cost[node[s].op]

GreedyInv == ~Reopen => \A s \in State : Reached(s) /\ ~IsRoot(s) =>
    node[node[s].parent].status = "CLOSED" /\ ChildExact(s)

CostInv == OrderInv /\ LiveInv /\ ClearInv /\ GreedyInv

\* The values nodes promise are integers.
LEMMA ValueType ==
    ASSUME TypeOK
    PROVE  \A s \in State : FValue(s) \in Int /\ node[s].g \in Int /\ task.h[s] \in Nat
<1>1. \A s \in State : node[s].g \in Int
  BY DEF TypeOK, Node
<1>2. \A s \in State : task.h[s] \in Nat
  BY SearchAssumption DEF TypeOK, IsTask
<1> QED BY <1>1, <1>2 DEF FValue

\* The open node that is closed promises no more than any other.
LEMMA ClosesLeast ==
    ASSUME SearchInv, OpenInv, Reopen, NEW s \in State, Closes(s), [Next]_vars
    PROVE  \A u \in State : IsOpen(u) => FValue(s) <= FValue(u)
<1>1. TypeOK /\ EntriesInv /\ node \in [State -> Node] /\ task.alg = "ASTAR"
  BY DEF SearchInv, OpenInv, TypeOK, Reopen
<1>2. pc = "loop" /\ node'[s].status # node[s].status /\ cur'.id = s
  BY <1>1 DEF Closes, Close
<1>3. \E k \in DOMAIN open : Pop(k)
  <2>1. ~InitStep /\ ~Abort /\ ~ExtractPlan /\ ~(UNCHANGED vars)
    BY <1>2 DEF InitStep, InitAvoided, InitPushed, Abort, ExtractPlan, Extract, Backtrack,
       LoadPlan, vars
  <2>2. Step
    BY <2>1 DEF Next
  <2>3. ~StepEmpty /\ ~ExpandEnd /\ \A o \in todo : ~ExpandSkip(o) /\ ~ExpandDeadEnd(o) /\ ~ExpandPush(o)
    BY <1>2 DEF StepEmpty, ExpandEnd, ExpandSkip, ExpandDeadEnd, ExpandPush, NextOp
  <2> QED BY <2>2, <2>3 DEF Step, StepSkip, StepAvoid, StepGoal, StepDeadEnd, StepExpand
<1>4. PICK k \in DOMAIN open : Pop(k)
  BY <1>3
<1>5. Head(open[k]) = s /\ k[1] \in Int
  BY <1>1, <1>2, <1>4, PopFacts
<1>6. FValue(s) <= k[1] /\ \A u \in State : IsOpen(u) => k[1] <= FValue(u)
  BY <1>1, <1>4, <1>5, LeastKey DEF FValue, IsOpen
<1> QED BY <1>1, <1>5, <1>6, ValueType

\* Closing the open node that promises least keeps the order.
LEMMA ClosesOrder ==
    ASSUME SearchInv, OrderInv, Reopen, task' = task, NEW s \in State, Closes(s),
           \A u \in State : IsOpen(u) => FValue(s) <= FValue(u)
    PROVE  OrderInv'
<1>1. TypeOK /\ node \in [State -> Node] /\ pc = "loop" /\ cur'.id = s /\ IsOpen(s)
  BY DEF SearchInv, TypeOK, Closes, IsOpen
<1>2. /\ \A u \in State : /\ node'[u].g = node[u].g /\ node'[u].parent = node[u].parent
                          /\ u # s => node'[u].status = node[u].status
      /\ node'[s].status = "CLOSED" /\ node[s].status = "OPEN"
  BY <1>1 DEF Closes, Close, Node
<1>3. \A y \in State : Below(node', y) = Below(node, y)
  <2>1. \A S \in SUBSET State : Kept(node', S) <=> Kept(node, S)
    BY <1>2 DEF Kept
  <2> QED BY <2>1 DEF Below
<1>4. /\ \A u \in State : FValue(u)' = FValue(u) /\ FValue(u) \in Int
      /\ \A u \in State : IsOpen(u)' => IsOpen(u) /\ u # s
  BY <1>1, <1>2, ValueType DEF FValue, IsOpen
<1>5. \A y \in State : Below(node, y) \subseteq State /\ y \in Below(node, y)
  BY BelowIs
<1>6. ASSUME NEW y \in State, IsOpen(y)'
      PROVE  /\ \A x \in Below(node', y) \ {y} : IsOpen(x)' => FValue(y)' < FValue(x)'
             /\ cur'.id \notin Below(node', y)
  <2>1. \A x \in Below(node, y) \ {y} : IsOpen(x) => FValue(y) < FValue(x)
    BY <1>4, <1>6 DEF OrderInv
  <2>2. s \notin Below(node, y)
    <3>1. FValue(s) <= FValue(y)
      BY <1>4, <1>6
    <3> QED BY <1>1, <1>4, <1>6, <2>1, <3>1
  <2> QED BY <1>1, <1>3, <1>4, <1>5, <2>1, <2>2
<1>7. ASSUME NEW y \in State, node'[y].status = "CLOSED"
      PROVE  IF cur'.id \in Below(node', y) THEN Early(y)' ELSE Late(y)'
  <2>1. CASE y = s
    BY <1>1, <1>3, <1>4, <1>5, <2>1 DEF Early
  <2>2. CASE y # s
    <3>1. Late(y) \/ Early(y)
      BY <1>1, <1>2, <1>7, <2>2 DEF OrderInv
    <3>2. CASE s \in Below(node, y)
      <4>1. Early(y) \/ FValue(y) <= FValue(s)
        BY <1>1, <3>1, <3>2 DEF Late
      <4>2. Early(y)
        BY <1>4, <4>1 DEF Early
      <4> QED BY <1>1, <1>3, <1>4, <3>2, <4>2 DEF Early
    <3>3. CASE s \notin Below(node, y)
      <4>1. Late(y) \/ FValue(y) <= FValue(s)
        BY <1>1, <3>1, <3>3 DEF Early
      <4>2. Late(y)
        BY <1>4, <1>5, <4>1 DEF Late
      <4> QED BY <1>1, <1>3, <1>4, <1>5, <3>3, <4>2 DEF Late
    <3> QED BY <3>2, <3>3
  <2> QED BY <2>1, <2>2
<1> QED BY <1>6, <1>7 DEF OrderInv

\* Rewriting a node from the node that is expanded keeps the order.
LEMMA RewritesOrder ==
    ASSUME SearchInv, OrderInv, Reopen, task' = task, SearchInv',
           NEW o \in todo, NEW status \in {"OPEN", "CLOSED"}, Rewrites(o, status)
    PROVE  OrderInv'
<1>0. PICK t : t = task.succ[o][cur.id]
  OBVIOUS
<1>1. /\ t \in State /\ cur.id \in State /\ t # cur.id
      /\ \A u \in State \ {t} : node'[u] = node[u]
      /\ node'[t] = ReachedFrom(o, status)
      /\ Reached(t) => cur.g + task.cost[o] < node[t].g
      /\ cur.id \notin Below(node, t)
      /\ \A y \in State :
             IF cur.id \in Below(node, y)
             THEN /\ Below(node, y) \subseteq Below(node', y)
                  /\ cur.id \in Below(node', y) /\ t \in Below(node', y)
             ELSE /\ Below(node', y) \subseteq Below(node, y)
                  /\ cur.id \notin Below(node', y)
                  /\ y # t => t \notin Below(node', y)
  BY <1>0, BelowMoves
<1>2. pc = "expand" /\ cur' = cur /\ TypeOK /\ TypeOK'
  BY DEF Rewrites, NextOp, SearchInv
<1>3. \A u \in State : FValue(u) \in Int /\ FValue(u)' \in Int
  <2>1. \A u \in State : FValue(u) \in Int
    BY <1>2, ValueType
  <2>2. \A u \in State : node'[u].g \in Int
    BY <1>2 DEF TypeOK, Node
  <2>3. \A u \in State : task.h[u] \in Nat
    BY <1>2, ValueType
  <2> QED BY <2>1, <2>2, <2>3 DEF FValue
<1>4. \A u \in State \ {t} : /\ FValue(u)' = FValue(u) /\ (IsOpen(u)' <=> IsOpen(u))
                             /\ node'[u].status = node[u].status
  BY <1>1 DEF FValue, IsOpen
<1>5. \A y \in State : Below(node, y) \subseteq State /\ y \in Below(node, y)
  BY BelowIs
<1>5a. \A y \in State : Below(node', y) \subseteq State
  BY BelowIs
<1>6. Reached(t) => FValue(t)' < FValue(t)
  <2>1. node'[t].g = cur.g + task.cost[o]
    BY <1>1 DEF ReachedFrom
  <2>2. node[t].g \in Int /\ node'[t].g \in Int /\ task.h[t] \in Nat
    <3>1. node[t].g \in Int /\ task.h[t] \in Nat
      BY <1>1, <1>2, ValueType
    <3>2. node'[t].g \in Int
      BY <1>1, <1>2 DEF TypeOK, Node
    <3> QED BY <3>1, <3>2
  <2>3. ASSUME NEW a \in Int, NEW b \in Int, NEW h \in Nat, a < b PROVE a + h < b + h
    BY <2>3
  <2> QED BY <1>1, <2>1, <2>2, <2>3 DEF FValue
<1>7. \A x \in Below(node', t) \ {t} : IsOpen(x)' => FValue(t)' < FValue(x)'
  <2> SUFFICES ASSUME NEW x \in Below(node', t) \ {t}, IsOpen(x)'
               PROVE  FValue(t)' < FValue(x)'
    OBVIOUS
  <2>1. x \in Below(node, t) /\ x \in State /\ IsOpen(x) /\ FValue(x)' = FValue(x)
    BY <1>1, <1>4, <1>5
  <2>2. Reached(t)
    BY <1>1, <2>1, BelowDearer
  <2>3. FValue(t) <= FValue(x)
    <3>1. node[t].status \in {"OPEN", "CLOSED"}
      BY <1>1, <1>2, <2>2 DEF TypeOK, Node, Reached
    <3>2. CASE node[t].status = "OPEN"
      BY <1>1, <1>3, <2>1, <3>2 DEF OrderInv, IsOpen
    <3>3. CASE node[t].status = "CLOSED"
      BY <1>1, <1>2, <2>1, <3>3 DEF OrderInv, Late
    <3> QED BY <3>1, <3>2, <3>3
  <2> QED BY <1>1, <1>3, <1>6, <2>1, <2>2, <2>3
<1>8. ASSUME NEW y \in State
      PROVE  /\ IsOpen(y)' =>
                   /\ \A x \in Below(node', y) \ {y} : IsOpen(x)' => FValue(y)' < FValue(x)'
                   /\ cur'.id \notin Below(node', y)
             /\ node'[y].status = "CLOSED" =>
                   IF cur'.id \in Below(node', y) THEN Early(y)' ELSE Late(y)'
  <2>1. CASE y = t
    <3>1. cur'.id \notin Below(node', y)
      BY <1>1, <1>2, <2>1
    <3>2. ASSUME node'[y].status = "CLOSED" PROVE Late(y)'
      <4>1. \A x \in Below(node', y) : IsOpen(x)' => x # t
        BY <2>1, <3>2 DEF IsOpen
      <4> QED BY <1>1, <1>3, <1>5a, <1>7, <2>1, <4>1 DEF Late
    <3> QED BY <1>7, <2>1, <3>1, <3>2
  <2>2. CASE y # t
    <3>1. CASE cur.id \in Below(node, y)
      <4>1. ~IsOpen(y)
        BY <1>2, <3>1 DEF OrderInv
      <4>2. ASSUME node'[y].status = "CLOSED" PROVE Early(y)'
        <5>1. Early(y)
          BY <1>2, <1>4, <2>2, <3>1, <4>2 DEF OrderInv
        <5>2. \A x \in State \ Below(node', y) : x # t /\ x \notin Below(node, y)
          BY <1>1, <3>1
        <5> QED BY <1>4, <2>2, <5>1, <5>2 DEF Early
      <4> QED BY <1>1, <1>2, <1>4, <2>2, <3>1, <4>1, <4>2
    <3>2. CASE cur.id \notin Below(node, y)
      <4>1. /\ cur'.id \notin Below(node', y)
            /\ \A x \in Below(node', y) : x # t /\ x \in Below(node, y) /\ x \in State
        BY <1>1, <1>2, <1>5a, <2>2, <3>2
      <4>2. ASSUME IsOpen(y)', NEW x \in Below(node', y) \ {y}, IsOpen(x)'
            PROVE  FValue(y)' < FValue(x)'
        BY <1>4, <2>2, <4>1, <4>2 DEF OrderInv
      <4>3. ASSUME node'[y].status = "CLOSED" PROVE Late(y)'
        <5>1. Late(y)
          BY <1>2, <1>4, <2>2, <3>2, <4>3 DEF OrderInv
        <5> QED BY <1>4, <2>2, <4>1, <5>1 DEF Late
      <4> QED BY <4>1, <4>2, <4>3
    <3> QED BY <3>1, <3>2
  <2> QED BY <2>1, <2>2
<1> QED BY <1>8 DEF OrderInv

\* A step keeps the order of open nodes and of those below them.
LEMMA StepOrder ==
    ASSUME SearchInv, OpenInv, OrderInv, [Next]_vars
    PROVE  OrderInv'
<1>1. TypeOK /\ TreeInv /\ NodeMoves /\ task' = task /\ node \in [State -> Node]
  BY StepMovesNodes DEF SearchInv, TypeOK
<1> SUFFICES ASSUME Reopen PROVE OrderInv'
  BY <1>1 DEF OrderInv, Reopen
<1>2. CASE KeepsNodes
  BY <1>1, <1>2 DEF KeepsNodes, OrderInv, IsOpen, FValue, Late, Early
<1>3. CASE AddsRoot
  <2>1. /\ task.init \in State /\ pc' # "expand"
        /\ \A u \in State \ {task.init} : node'[u].status = "NEW"
        /\ node'[task.init].status = "OPEN"
    BY <1>1, <1>3 DEF AddsRoot, RootNode, TreeInv, Reached, TypeOK, IsTask
  <2>2. \A y \in State : Below(node', y) \subseteq State
    BY BelowIs
  <2> QED BY <2>1, <2>2 DEF OrderInv, IsOpen
<1>4. ASSUME NEW s \in State, Closes(s) PROVE OrderInv'
  BY <1>1, <1>4, ClosesLeast, ClosesOrder
<1>5. ASSUME NEW o \in todo, NEW status \in {"OPEN", "CLOSED"}, Rewrites(o, status)
      PROVE  OrderInv'
  <2>1. SearchInv'
    BY StepTypes, StepTree DEF SearchInv
  <2> QED BY <1>1, <1>5, <2>1, RewritesOrder
<1> QED BY <1>1, <1>2, <1>3, <1>4, <1>5 DEF NodeMoves

\* A step keeps dead ends without children.
LEMMA StepLive ==
    ASSUME SearchInv, OpenInv, CallInv, LiveInv, [Next]_vars
    PROVE  LiveInv'
<1> USE SearchAssumption
<1>1. /\ TypeOK /\ LoopOK /\ TreeInv /\ task' = task /\ node \in [State -> Node] /\ IsTask(task)
  BY StepMovesNodes DEF SearchInv, TypeOK
<1> SUFFICES ASSUME Reopen PROVE LiveInv'
  BY <1>1 DEF LiveInv, Reopen
<1>2. CASE InitAvoided
  <2>1. pc' \in {"loop", "done"} /\ node' = node /\ \A s \in State : node[s].status = "NEW"
    BY <1>1, <1>2 DEF InitAvoided, Return, InitStatus, TreeInv, Reached
  <2> QED BY <1>1, <2>1 DEF LiveInv, IsOpen, Reached
<1>3. CASE InitPushed
  <2>1. /\ task.init \in State
        /\ \A u \in State \ {task.init} : node'[u].status = "NEW"
        /\ node'[task.init].parent = NoState
        /\ pc' \in {"loop", "done", "extract"}
        /\ pc' = "loop" => task.h[task.init] # DeadEnd
    BY <1>1, <1>3 DEF InitPushed, Return, InitStatus, TreeInv, Reached, IsTask
  <2> QED BY <1>1, <2>1 DEF LiveInv, IsOpen, Reached, IsRoot
<1>4. ASSUME NEW k \in DOMAIN open,
             StepSkip(k) \/ StepAvoid(k) \/ StepGoal(k) \/ StepDeadEnd(k) \/ StepExpand(k)
      PROVE  LiveInv'
  <2> DEFINE s == Head(open[k])
  <2>1. /\ Pop(k) /\ (UNCHANGED node \/ node' = Close(s))
        /\ pc' = "expand" => node[s].status = "OPEN"
    BY <1>4, PopFacts, <1>1 DEF StepSkip, StepAvoid, StepGoal, StepDeadEnd, StepExpand, Return,
       Expandable, Pop
  <2>2. s \in State /\ pc = "loop" /\ cur'.id = s
    BY <1>1, <2>1, PopFacts
  <2>3. \A u \in State : /\ node'[u].parent = node[u].parent
                         /\ node'[u].status = "OPEN" => node[u].status = "OPEN"
                         /\ node'[u].status # "NEW" => node[u].status # "NEW" \/ u = s
    BY <1>1, <2>1, <2>2 DEF Close, Node
  <2>4. node'[s].status # "NEW" => node[s].status # "NEW"
    BY <1>1, <1>4, <2>2 DEF StepSkip, StepAvoid, StepGoal, StepDeadEnd, StepExpand, Expandable
  <2> QED BY <1>1, <2>1, <2>2, <2>3, <2>4 DEF LiveInv, IsOpen, Reached, IsRoot
<1>5. ASSUME NEW o \in todo, ExpandSkip(o) \/ ExpandDeadEnd(o) \/ ExpandPush(o)
      PROVE  LiveInv'
  <2>0. PICK t : t = task.succ[o][cur.id]
    OBVIOUS
  <2>1. NextOp(o) /\ CheckGenerated(o, t) /\ UNCHANGED <<task, cur>>
    BY <1>5, <2>0 DEF ExpandSkip, ExpandDeadEnd, ExpandPush
  <2>2. pc = "expand" /\ pc' = "expand" /\ t \in State /\ cur.id \in State
        /\ SuccessorH(t) = task.h[t]
    <3>1. pc = "expand" /\ pc' = "expand"
      BY <2>1 DEF CheckGenerated, NextOp, IsGreedy, Reopen
    <3>2. t \in State /\ cur.id \in State
      BY <1>1, <2>0, <2>1, <3>1, SuccessorFacts DEF LoopOK
    <3>3. hcur = -1
      BY DEF OpenInv, IsLazy, Reopen
    <3> QED BY <3>1, <3>2, <3>3 DEF SuccessorH
  <2>3. /\ \A u \in State : u # t => node'[u] = node[u]
        /\ \/ node'[t] = node[t]
           \/ /\ node'[t].parent = cur.id
              /\ node'[t].status = "OPEN" => task.h[t] # DeadEnd
    <3>1. CASE ExpandSkip(o)
      BY <3>1 DEF ExpandSkip
    <3>2. CASE ExpandDeadEnd(o)
      BY <1>1, <2>0, <2>2, <3>2 DEF ExpandDeadEnd, ReachedFrom
    <3>3. CASE ExpandPush(o)
      BY <1>1, <2>0, <2>2, <3>3 DEF ExpandPush, ReachedFrom
    <3> QED BY <1>5, <3>1, <3>2, <3>3
  <2> QED BY <1>1, <2>1, <2>2, <2>3 DEF LiveInv, IsOpen, Reached, IsRoot
<1>6. CASE StepEmpty \/ ExpandEnd \/ Abort
  <2>1. UNCHANGED node /\ pc' # "expand" /\ pc \in {"loop", "expand"}
    BY <1>6 DEF StepEmpty, ExpandEnd, Abort, Return
  <2> QED BY <1>1, <2>1 DEF LiveInv, IsOpen, Reached, IsRoot
<1>7. CASE ExtractPlan
  <2>1. UNCHANGED node /\ pc' \notin {"loop", "expand"}
    BY <1>7 DEF ExtractPlan, Extract, Backtrack, LoadPlan
  <2> QED BY <1>1, <2>1 DEF LiveInv, IsOpen, Reached, IsRoot
<1>8. CASE UNCHANGED vars
  BY <1>8 DEF vars, LiveInv, IsOpen, Reached, IsRoot
<1> QED BY <1>2, <1>3, <1>4, <1>5, <1>6, <1>7, <1>8 DEF Next, InitStep, Step

\* No open node is above the goal that has been found.
LEMMA StepClear ==
    ASSUME SearchInv, OpenInv, CallInv, GoalInv, OrderInv, ClearInv, [Next]_vars
    PROVE  ClearInv'
<1>1. /\ TypeOK /\ TreeInv /\ task' = task /\ node \in [State -> Node] /\ IsTask(task)
  BY StepMovesNodes DEF SearchInv, TypeOK
<1> SUFFICES ASSUME Reopen, ret' = "FOUND" PROVE ClearInv'
  BY <1>1 DEF ClearInv, Reopen
<1>2. CASE ret # "CONT"
  BY <1>2, EndedStays DEF ClearInv, Reopen, IsOpen
<1>3. CASE ret = "CONT"
  <2>0. goal.id = NoState
    BY <1>3 DEF GoalInv
  <2>1. CASE InitPushed
    <3>1. /\ task.init \in State /\ goal' = GoalAt(task.init, 0)
          /\ \A u \in State \ {task.init} : node'[u].status = "NEW"
      BY <1>1, <2>1 DEF InitPushed, Return, InitStatus, TreeInv, Reached, IsTask
    <3>2. goal'.id = task.init
      BY <2>0, <3>1 DEF GoalAt
    <3> QED BY <3>1, <3>2 DEF ClearInv, IsOpen
  <2>2. ASSUME NEW k \in DOMAIN open, StepGoal(k) PROVE ClearInv'
    <3>0. PICK s : s = Head(open[k])
      OBVIOUS
    <3>1. /\ Pop(k) /\ node' = Close(s) /\ node[s].status = "OPEN" /\ goal'.id = s
          /\ pc' = "extract"
      BY <2>0, <2>2, <3>0 DEF StepGoal, GoalAt, Return
    <3>2. s \in State /\ Closes(s)
      BY <1>1, <3>0, <3>1, PopFacts DEF Closes
    <3>3. \A u \in State : IsOpen(u) => FValue(s) <= FValue(u)
      BY <3>2, ClosesLeast
    <3>4. /\ \A u \in State : /\ node'[u].parent = node[u].parent
                              /\ u # s => node'[u].status = node[u].status
          /\ node'[s].status = "CLOSED"
      BY <1>1, <3>1, <3>2 DEF Close, Node
    <3>5. \A y \in State : Below(node', y) = Below(node, y)
      <4>1. \A S \in SUBSET State : Kept(node', S) <=> Kept(node, S)
        BY <3>1, <3>4 DEF Kept
      <4> QED BY <4>1 DEF Below
    <3>6. ASSUME NEW y \in State, IsOpen(y)', s \in Below(node', y) PROVE FALSE
      <4>1. y # s /\ IsOpen(y) /\ s \in Below(node, y)
        BY <3>4, <3>5, <3>6 DEF IsOpen
      <4>2. FValue(y) < FValue(s)
        BY <3>1, <4>1 DEF OrderInv, IsOpen
      <4> QED BY <1>1, <3>2, <3>3, <4>1, <4>2, ValueType
    <3> QED BY <3>1, <3>6 DEF ClearInv
  <2>3. ASSUME NEW o \in todo, ExpandSkip(o) \/ ExpandDeadEnd(o) \/ ExpandPush(o)
        PROVE  FALSE
    <3>1. CheckGenerated(o, task.succ[o][cur.id])
      BY <2>3 DEF ExpandSkip, ExpandDeadEnd, ExpandPush
    <3> QED BY <1>3, <3>1 DEF CheckGenerated, IsGreedy, Reopen
  <2>4. ~InitAvoided /\ ~StepEmpty /\ ~ExpandEnd /\ ~Abort
    BY DEF InitAvoided, InitStatus, StepEmpty, ExpandEnd, Abort, Return
  <2>5. ~ExtractPlan /\ ~(UNCHANGED vars)
    BY <1>3 DEF ExtractPlan, Extract, Backtrack, LoadPlan, vars
  <2>6. \A k \in DOMAIN open : ~StepSkip(k) /\ ~StepAvoid(k) /\ ~StepDeadEnd(k) /\ ~StepExpand(k)
    BY <1>3 DEF StepSkip, StepAvoid, StepDeadEnd, StepExpand
  <2> QED BY <2>1, <2>2, <2>3, <2>4, <2>5, <2>6 DEF Next, InitStep, Step
<1> QED BY <1>2, <1>3

\* Without reopening, a step keeps the g-values of all children exact.
LEMMA StepGreedy ==
    ASSUME SearchInv, GreedyInv, [Next]_vars
    PROVE  GreedyInv'
<1>1. /\ TypeOK /\ TreeInv /\ NodeMoves /\ task' = task /\ node \in [State -> Node]
      /\ IsTask(task)
  BY StepMovesNodes DEF SearchInv, TypeOK
<1> SUFFICES ASSUME ~Reopen PROVE GreedyInv'
  BY <1>1 DEF GreedyInv, Reopen
<1>2. \A s \in State : Reached(s) /\ ~IsRoot(s) => node[s].parent \in State
  BY <1>1 DEF TreeInv, SearchTree, IsChild
<1>3. CASE KeepsNodes
  BY <1>1, <1>3 DEF KeepsNodes, GreedyInv, Reached, IsRoot, ChildExact
<1>4. CASE AddsRoot
  <2>1. /\ task.init \in State
        /\ \A u \in State \ {task.init} : node'[u].status = "NEW"
        /\ node'[task.init].parent = NoState
    BY <1>1, <1>4 DEF AddsRoot, RootNode, TreeInv, Reached, IsTask
  <2> QED BY <2>1 DEF GreedyInv, Reached, IsRoot
<1>5. ASSUME NEW t \in State, Closes(t) PROVE GreedyInv'
  <2>1. \A u \in State : /\ node'[u].g = node[u].g /\ node'[u].parent = node[u].parent
                         /\ node'[u].op = node[u].op
                         /\ node[u].status = "CLOSED" => node'[u].status = "CLOSED"
                         /\ node'[u].status # "NEW" => node[u].status # "NEW"
    BY <1>1, <1>5 DEF Closes, Close, Node
  <2> QED BY <1>1, <1>2, <2>1 DEF GreedyInv, Reached, IsRoot, ChildExact
<1>6. ASSUME NEW o \in todo, NEW status \in {"OPEN", "CLOSED"}, Rewrites(o, status)
      PROVE  GreedyInv'
  <2>0. PICK t : t = task.succ[o][cur.id]
    OBVIOUS
  <2>1. /\ t \in State /\ cur.id \in State /\ t # cur.id
        /\ node[cur.id].status = "CLOSED" /\ node[cur.id].g = cur.g
        /\ \A u \in State \ {t} : node'[u] = node[u]
        /\ node'[t] = ReachedFrom(o, status)
    BY <1>6, <2>0, BelowMoves
  <2>2. node[t].status # "CLOSED"
    BY <1>6, <2>0 DEF Rewrites, SkipsSuccessor, MayNotReopen
  <2>3. ASSUME NEW s \in State, Reached(s)', ~IsRoot(s)'
        PROVE  node'[node'[s].parent].status = "CLOSED" /\ ChildExact(s)'
    <3>1. CASE s = t
      BY <1>1, <2>1, <3>1 DEF ReachedFrom, ChildExact
    <3>2. CASE s # t
      <4>1. /\ node'[s] = node[s] /\ node[s].parent \in State
            /\ node[node[s].parent].status = "CLOSED" /\ ChildExact(s)
        BY <1>2, <2>1, <2>3, <3>2 DEF GreedyInv, Reached, IsRoot
      <4>2. node'[node[s].parent] = node[node[s].parent]
        BY <2>1, <2>2, <4>1
      <4> QED BY <1>1, <4>1, <4>2 DEF ChildExact
    <3> QED BY <3>1, <3>2
  <2> QED BY <2>3 DEF GreedyInv
<1> QED BY <1>1, <1>3, <1>4, <1>5, <1>6 DEF NodeMoves

\* The initial states have no node that could break the order.
LEMMA InitCost == Init => CostInv
BY SearchAssumption DEF Init, CostInv, OrderInv, LiveInv, ClearInv, GreedyInv, IsOpen, Reached, NewNode

\* A set of naturals has a least element.
LEMMA LeastNat ==
    ASSUME NEW S \in SUBSET Nat, S # {}
    PROVE  \E m \in S : \A j \in S : m <= j
<1>1. IsWellFoundedOn(OpToRel(<, Nat), Nat)
  BY NatLessThanWellFounded
<1>2. PICK m \in S : \A j \in S : ~(<<j, m>> \in OpToRel(<, Nat))
  BY <1>1, WFMin
<1>3. ASSUME NEW j \in S PROVE m <= j
  <2>1. ~(j < m)
    BY <1>2 DEF OpToRel
  <2> QED BY <2>1
<1> QED BY <1>3

\* sum[i] is the cost of the first i operators.
Grows(sum, ops) ==
    \A i \in 0..Len(ops) : sum[i] = IF i = 0 THEN 0 ELSE sum[i - 1] + task.cost[ops[i]]

\* Sums that grow by the cost of one operator after the other are the cost of
\* the operators: two functions that do so agree, as there is no first place
\* where they differ.
LEMMA OpsCostIs ==
    ASSUME NEW ops, Len(ops) \in Nat, NEW sum, Grows(sum, ops)
    PROVE  OpsCost(ops) = sum[Len(ops)]
<1> PICK n \in Nat : n = Len(ops)
  OBVIOUS
<1> SUFFICES OpsCost(ops) = sum[n]
  OBVIOUS
<1>1. \A i \in 0..n : sum[i] = IF i = 0 THEN 0 ELSE sum[i - 1] + task.cost[ops[i]]
  BY DEF Grows
<1> DEFINE Sums(u) == u = [i \in 0..n |-> IF i = 0 THEN 0 ELSE u[i - 1] + task.cost[ops[i]]]
           upTo == CHOOSE u : Sums(u)
<1>2. Sums(upTo)
  <2>1. PICK u : u = [i \in 0..n |-> sum[i]]
    OBVIOUS
  <2>2. ASSUME NEW i \in 0..n
        PROVE  u[i] = IF i = 0 THEN 0 ELSE u[i - 1] + task.cost[ops[i]]
    <3>1. i # 0 => i - 1 \in 0..n
      OBVIOUS
    <3> QED BY <1>1, <2>1, <3>1
  <2>3. Sums(u)
    BY <2>1, <2>2
  <2> HIDE DEF Sums
  <2> QED BY <2>3
<1>3. OpsCost(ops) = upTo[n]
  BY DEF OpsCost
<1> HIDE DEF upTo
<1>4. \A i \in 0..n : upTo[i] = IF i = 0 THEN 0 ELSE upTo[i - 1] + task.cost[ops[i]]
  <2>1. upTo = [i \in 0..n |-> IF i = 0 THEN 0 ELSE upTo[i - 1] + task.cost[ops[i]]]
    BY <1>2
  <2> QED BY <2>1
<1> HIDE DEF Sums
<1> DEFINE D == {i \in 0..n : upTo[i] # sum[i]}
<1>5. D = {}
  <2> SUFFICES ASSUME D # {} PROVE FALSE
    OBVIOUS
  <2>1. PICK m \in D : \A j \in D : m <= j
    <3>1. D \in SUBSET Nat
      OBVIOUS
    <3> HIDE DEF D
    <3> QED BY <3>1, LeastNat
  <2>2. m # 0
    BY <1>4, <1>1
  <2>3. m \in 0..n /\ m - 1 \in 0..n /\ m - 1 \notin D
    BY <2>1, <2>2
  <2>4. upTo[m - 1] = sum[m - 1]
    BY <2>3
  <2>5. upTo[m] = sum[m]
    BY <1>4, <1>1, <2>2, <2>3, <2>4
  <2> QED BY <2>5
<1>6. upTo[n] = sum[n]
  BY <1>5
<1> HIDE DEF D
<1> QED BY <1>3, <1>6

\* The goal is below every state of the plan.
LEMMA PathAbove ==
    ASSUME NEW path, ParentPath(path), NEW i \in 1..Len(path)
    PROVE  goal.id \in Below(node, path[i])
<1>1. path \in Seq(State) /\ Len(path) \in Nat \ {0} /\ path[Len(path)] = goal.id
      /\ path[Len(path)] \in State
  BY EmptySeq DEF ParentPath
<1> SUFFICES ASSUME NEW S \in SUBSET State, path[i] \in S, Kept(node, S)
             PROVE  path[Len(path)] \in S
  BY <1>1 DEF Below
<1> DEFINE D == {j \in i..Len(path) : path[j] \notin S}
<1> SUFFICES ASSUME D # {} PROVE FALSE
  BY <1>1
<1>2. PICK m \in D : \A j \in D : m <= j
  <2>1. D \in SUBSET Nat
    OBVIOUS
  <2> HIDE DEF D
  <2> QED BY <2>1, LeastNat
<1>3. m # i /\ m \in (i + 1)..Len(path)
  BY <1>1, <1>2
<1>4. /\ m - 1 \in i..Len(path) /\ m - 1 \notin D
      /\ m - 1 \in 1..(Len(path) - 1) /\ (m - 1) + 1 = m /\ m \in 1..Len(path)
  BY <1>1, <1>2, <1>3
<1>5. path[m - 1] \in S /\ node[path[m]].parent = path[m - 1]
  BY <1>4 DEF ParentPath
<1>6. path[m] \in State /\ Reached(path[m])
  BY <1>1, <1>4 DEF ParentPath
<1>7. path[m] \in S
  BY <1>5, <1>6 DEF Kept, Reached
<1> QED BY <1>2, <1>7

\* When a goal is found, the g-values along the plan are exact.
LEMMA PathExact ==
    ASSUME SearchInv, ExpandInv, GoalInv, Acyclic, CostInv, ret = "FOUND",
           NEW path, ParentPath(path), NEW i \in 1..(Len(path) - 1)
    PROVE  ChildExact(path[i + 1]) /\ ~IsRoot(path[i + 1])
<1> DEFINE p == path[i]
           s == path[i + 1]
<1>1. /\ SearchTree /\ TypeOK /\ node \in [State -> Node] /\ IsTask(task)
      /\ NoState \notin State
  BY SearchAssumption DEF SearchInv, TreeInv, TypeOK
<1>2. /\ path \in Seq(State) /\ Len(path) \in Nat \ {0} /\ i \in 1..Len(path) /\ i + 1 \in 1..Len(path)
      /\ Len(path) \in 1..Len(path) /\ i < Len(path)
  BY EmptySeq DEF ParentPath
<1>3. /\ s \in State /\ p \in State /\ Reached(s) /\ Reached(p) /\ node[s].parent = p
      /\ goal.id = path[Len(path)]
  BY <1>2 DEF ParentPath
<1>4. ~IsRoot(s) /\ IsChild(s)
  BY <1>1, <1>3 DEF SearchTree, IsRoot
<1>5. CASE ~Reopen
  BY <1>3, <1>4, <1>5 DEF CostInv, GreedyInv
<1>6. CASE Reopen
  <2>1. goal.id \in Below(node, p) /\ p # goal.id
    BY <1>2, <1>3, PathAbove, PathDistinct
  <2>2. node[p].status = "CLOSED"
    <3>1. node[p].status \in {"OPEN", "CLOSED"}
      BY <1>1, <1>3 DEF Node, Reached
    <3>2. node[p].status # "OPEN"
      BY <1>3, <1>6, <2>1 DEF CostInv, ClearInv, IsOpen
    <3> QED BY <3>1, <3>2
  <2>3. Expanded(p)
    <3>1. cur.id = goal.id
      BY <1>6 DEF GoalInv, IsGreedy, Reopen
    <3>2. task.h[p] # DeadEnd
      BY <1>3, <1>4, <1>6 DEF CostInv, LiveInv
    <3>3. ~IsAvoid(p)
      BY <1>3, <1>4 DEF IsChild
    <3> QED BY <2>1, <2>2, <3>1, <3>2, <3>3 DEF Expanded
  <2> DEFINE o == node[s].op
  <2>4. o \in Applicable(p) /\ task.succ[o][p] = s /\ node[s].g >= node[p].g + task.cost[o]
    BY <1>1, <1>3, <1>4 DEF IsChild, Applicable
  <2>5. node[s].g <= node[p].g + task.cost[o]
    BY <1>3, <1>6, <2>3, <2>4 DEF ExpandInv, Applied, SuccessorReached
  <2>6. node[s].g \in Int /\ node[p].g \in Int /\ task.cost[o] \in Nat
    BY <1>1, <1>3, <1>4 DEF Node, IsChild, IsTask
  <2> HIDE DEF o
  <2>7. node[s].g = node[p].g + task.cost[o]
    BY <2>4, <2>5, <2>6
  <2> QED BY <1>3, <1>4, <2>7 DEF ChildExact, o
<1> QED BY <1>5, <1>6

\* With exact g-values along the plan, their last one is its cost.
LEMMA PathCost ==
    ASSUME SearchInv, ExpandInv, GoalInv, Acyclic, PathInv, CostInv
    PROVE  PlanCost
<1> SUFFICES ASSUME Planned PROVE plan.cost = OpsCost(plan.op)
  BY DEF PlanCost
<1> DEFINE path == plan.state
           n == Len(path) - 1
           sum == [i \in 0..n |-> node[path[i + 1]].g]
<1>1. /\ ParentPath(path) /\ IsRoot(path[1]) /\ plan = PlanOf(path) /\ SearchTree /\ TypeOK
  BY DEF PathInv, Planned, SearchInv, TreeInv
<1>2. path \in Seq(State) /\ Len(path) \in Nat \ {0} /\ n \in Nat
  BY <1>1, EmptySeq DEF ParentPath
<1>3. plan.op = [i \in 1..n |-> node[path[i + 1]].op]
  BY <1>1 DEF PlanOf
<1>4. Len(plan.op) = n
  <2>1. plan.op \in Seq(Op \cup {NoOp})
    BY <1>1 DEF TypeOK
  <2>2. DOMAIN plan.op = 1..Len(plan.op) /\ Len(plan.op) \in Nat
    BY <2>1
  <2> QED BY <1>2, <1>3, <2>2
<1>5. node[path[1]].g = 0
  <2>1. path[1] \in State /\ Reached(path[1])
    BY <1>1, <1>2 DEF ParentPath
  <2> QED BY <1>1, <2>1, SearchAssumption DEF SearchTree, IsRoot, IsChild
<1>6. plan.cost = node[path[n + 1]].g
  <2>1. plan.cost = IF Len(path) = 1 THEN 0 ELSE node[path[Len(path)]].g
    BY <1>1 DEF PlanOf
  <2>2. n + 1 = Len(path)
    BY <1>2
  <2> QED BY <1>2, <1>5, <2>1, <2>2
<1>7. ASSUME NEW i \in 1..n
      PROVE  node[path[i + 1]].g = node[path[i]].g + task.cost[plan.op[i]]
  <2>1. ChildExact(path[i + 1])
    BY <1>1, PathExact DEF Planned
  <2>2. node[path[i + 1]].parent = path[i]
    BY <1>1 DEF ParentPath
  <2> QED BY <1>3, <2>1, <2>2 DEF ChildExact
<1> HIDE DEF path, n
<1>8. ASSUME NEW i \in 0..n
      PROVE  sum[i] = IF i = 0 THEN 0 ELSE sum[i - 1] + task.cost[plan.op[i]]
  <2>1. CASE i = 0
    BY <1>5, <2>1
  <2>2. CASE i # 0
    <3>1. i \in 1..n /\ i - 1 \in 0..n /\ (i - 1) + 1 = i
      BY <1>2, <2>2
    <3> QED BY <1>7, <2>2, <3>1
  <2> QED BY <2>1, <2>2
<1>9. sum[n] = node[path[n + 1]].g
  BY <1>2
<1> HIDE DEF sum
<1>10. Grows(sum, plan.op)
  BY <1>4, <1>8 DEF Grows
<1>11. OpsCost(plan.op) = sum[Len(plan.op)]
  BY <1>2, <1>4, <1>10, OpsCostIs
<1> QED BY <1>4, <1>6, <1>9, <1>11

\* The cost of the plan, which is the g-value of its last state, is the cost of
\* its operators, whatever the estimates: a node above the goal that A* reopened
\* was expanded again, and has corrected the g-values below it, before the goal
\* was taken from the open list (plan.c:59).
THEOREM PlanCostCorrect == Spec => []PlanCost
<1>1. Init => Acyclic /\ PathInv /\ CostInv
  BY InitPlans, InitCost
<1>2. (SearchInv /\ OpenInv /\ CallInv /\ ExpandInv /\ GoalInv) /\ (Acyclic /\ PathInv /\ CostInv)
          /\ [Next]_vars => (Acyclic /\ PathInv /\ CostInv)'
  BY StepAcyclic, StepPath, StepOrder, StepLive, StepClear, StepGreedy DEF CostInv
<1>3. (SearchInv /\ OpenInv /\ CallInv /\ ExpandInv /\ GoalInv) /\ (Acyclic /\ PathInv /\ CostInv)
          => PlanCost
  BY PathCost
<1> QED BY <1>1, <1>2, <1>3, GoalInvariant, ExpansionInvariant, PTL DEF Spec
=============================================================================
