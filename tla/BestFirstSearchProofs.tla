----------------------- MODULE BestFirstSearchProofs -----------------------
(***************************************************************************)
(* Proofs about BestFirstSearch, for every set of tasks.                   *)
(***************************************************************************)
EXTENDS BestFirstSearch, SequenceTheorems, TLAPS

-----------------------------------------------------------------------------
(* The operators the actions are made of preserve types. *)

LEMMA KeyType ==
    ASSUME IsTask(task), DeadEnd \in Nat, NEW g \in Int, NEW h \in 0..DeadEnd
    PROVE  /\ Key(g, h) \in Int \X (0..DeadEnd)
           /\ Key(g, h)[1] = (IF Reopen THEN g + h ELSE h)
<1>1. CASE Reopen
  BY <1>1 DEF Key, GWeight, HWeight, Reopen
<1>2. CASE ~Reopen
  BY <1>2 DEF Key, GWeight, HWeight, Reopen
<1>3. QED BY <1>1, <1>2

\* A push keeps the FIFOs and appends to the one under the key.
LEMMA OpenPushType ==
    ASSUME OpenTypeOK, NEW k \in Int \X (0..DeadEnd), NEW s \in State,
           open' = OpenPush(k, s)
    PROVE  OpenTypeOK'
<1>1. DOMAIN open' = DOMAIN open \cup {k}
  BY DEF OpenPush
<1>2. ASSUME NEW l \in DOMAIN open' PROVE open'[l] \in Seq(State) /\ open'[l] # << >>
  <2>1. CASE l # k
    BY <1>2, <2>1 DEF OpenPush, OpenTypeOK
  <2>2. CASE l = k /\ k \in DOMAIN open
    <3>1. open'[l] = Append(open[k], s)
      BY <2>2 DEF OpenPush
    <3> QED BY <3>1, <2>2 DEF OpenTypeOK
  <2>3. CASE l = k /\ k \notin DOMAIN open
    <3>1. open'[l] = <<s>>
      BY <2>3 DEF OpenPush
    <3> QED BY <3>1
  <2> QED BY <2>1, <2>2, <2>3
<1> QED BY <1>1, <1>2 DEF OpenTypeOK

LEMMA TailFacts ==
    ASSUME NEW q \in Seq(State), q # << >>, Len(q) > 1
    PROVE  Tail(q) \in Seq(State) /\ Tail(q) # << >>
<1>1. Tail(q) \in Seq(State) /\ Len(Tail(q)) = Len(q) - 1
  BY HeadTailProperties
<1>2. Len(Tail(q)) # Len(<< >>)
  BY <1>1
<1> QED BY <1>1, <1>2

\* A pop takes the head of a FIFO, and the key with it if nothing is left.
LEMMA OpenPopType ==
    ASSUME OpenTypeOK, NEW k \in DOMAIN open, open' = OpenPop(k)
    PROVE  OpenTypeOK' /\ Head(open[k]) \in State
<1>1. DOMAIN open' = {m \in DOMAIN open : m # k \/ Len(open[k]) > 1}
  BY DEF OpenPop
<1>2. ASSUME NEW l \in DOMAIN open' PROVE open'[l] \in Seq(State) /\ open'[l] # << >>
  <2>1. CASE l # k
    BY <1>1, <1>2, <2>1 DEF OpenPop, OpenTypeOK
  <2>2. CASE l = k
    <3>1. /\ open'[l] = Tail(open[k])
          /\ open[k] \in Seq(State) /\ open[k] # << >> /\ Len(open[k]) > 1
      BY <1>1, <1>2, <2>2 DEF OpenPop, OpenTypeOK
    <3>2. Tail(open[k]) \in Seq(State) /\ Tail(open[k]) # << >>
      BY <3>1, TailFacts
    <3> QED BY <3>1, <3>2
  <2> QED BY <2>1, <2>2
<1>3. Head(open[k]) \in State
  BY DEF OpenTypeOK
<1> QED BY <1>1, <1>2, <1>3 DEF OpenTypeOK

\* The statuses the driver gets and what it does with them.
LEMMA ReturnType ==
    ASSUME NEW r \in {"CONT", "UNSOLVABLE", "FOUND", "ABORT"}, Return(r)
    PROVE  /\ pc' \in {"loop", "extract", "done"}
           /\ ret' = r
           /\ pc' = "extract" <=> r = "FOUND"
           /\ pc' = "loop" <=> r = "CONT"
BY DEF Return

\* What taking an entry from the open list establishes.
LEMMA PopFacts ==
    ASSUME TypeOK, NEW k \in DOMAIN open, Pop(k)
    PROVE  /\ Head(open[k]) \in State
           /\ OpenTypeOK'
           /\ k[1] \in Int
           /\ cur' = [id |-> Head(open[k]), g |-> node[Head(open[k])].g]
           /\ cur' \in [id : State, g : Int]
           /\ pc = "loop"
<1>1. Head(open[k]) \in State /\ OpenTypeOK'
  BY OpenPopType DEF Pop, TypeOK
<1>2. k[1] \in Int
  BY DEF TypeOK, OpenTypeOK
<1>3. node[Head(open[k])].g \in Int
  BY <1>1 DEF TypeOK, Node
<1> QED BY <1>1, <1>2, <1>3 DEF Pop

LEMMA CloseType ==
    ASSUME node \in [State -> Node], NEW s \in State
    PROVE  Close(s) \in [State -> Node]
BY DEF Close, Node

\* What an operator of the loop applied to cur_node gives.
LEMMA SuccessorFacts ==
    ASSUME TypeOK, NEW o \in todo, NextOp(o), todo \subseteq Applicable(cur.id)
    PROVE  /\ o \in Op
           /\ cur.id \in State
           /\ task.succ[o][cur.id] \in State
           /\ task.cost[o] \in Nat
           /\ cur.g + task.cost[o] \in Int
           /\ SuccessorH(task.succ[o][cur.id]) \in 0..DeadEnd
<1>1. o \in Op /\ cur.id \in State /\ task.succ[o][cur.id] # NoState
  BY DEF TypeOK, NextOp, Applicable
<1>2. task.succ[o][cur.id] \in State /\ task.cost[o] \in Nat
  BY <1>1 DEF TypeOK, IsTask
<1>3. cur.g \in Int
  BY DEF TypeOK
<1>4. SuccessorH(task.succ[o][cur.id]) \in 0..DeadEnd
  BY <1>2, SearchAssumption DEF SuccessorH, TypeOK, IsTask
<1> QED BY <1>1, <1>2, <1>3, <1>4

-----------------------------------------------------------------------------
(* The successors of the node being expanded. *)

LoopOK ==
    pc = "expand" => todo \subseteq Applicable(cur.id)

-----------------------------------------------------------------------------
(* Type correctness. *)

\* What the goal check of a greedy search leaves.
GeneratedOK ==
    /\ goal' \in [id : State \cup {NoState}, g : Int]
    /\ pc' \in {"extract", "expand"}
    /\ pc' = "extract" => goal'.id \in State
    /\ ret' \in {"CONT", "UNSOLVABLE", "FOUND", "ABORT"}
    /\ todo' \subseteq todo

LEMMA GeneratedType ==
    ASSUME TypeOK, LoopOK, NEW o \in todo, NextOp(o),
           CheckGenerated(o, task.succ[o][cur.id])
    PROVE  GeneratedOK
<1> DEFINE s == task.succ[o][cur.id]
<1>1. s \in State /\ cur.g \in Int
  BY SuccessorFacts DEF LoopOK, NextOp, TypeOK
<1>2. CASE IsGreedy /\ ~IsAvoid(s) /\ IsGoal(s)
  BY <1>1, <1>2 DEF CheckGenerated, GoalAt, Return, TypeOK, GeneratedOK
<1>3. CASE ~(IsGreedy /\ ~IsAvoid(s) /\ IsGoal(s))
  BY <1>3 DEF CheckGenerated, TypeOK, GeneratedOK, NextOp
<1> QED BY <1>2, <1>3

LEMMA ReachedFromType ==
    ASSUME TypeOK, LoopOK, NEW o \in todo, NextOp(o), NEW status \in {"OPEN", "CLOSED"}
    PROVE  [node EXCEPT ![task.succ[o][cur.id]] = ReachedFrom(o, status)] \in [State -> Node]
<1>1. o \in Op /\ cur.id \in State /\ cur.g + task.cost[o] \in Int
  BY SuccessorFacts DEF LoopOK, NextOp
<1>2. ReachedFrom(o, status) \in Node
  BY <1>1 DEF ReachedFrom, Node
<1> QED BY <1>2 DEF TypeOK

LEMMA PrependType ==
    ASSUME NEW q \in Seq(State), NEW s \in State
    PROVE  <<s>> \o q \in Seq(State) /\ <<s>> \o q # << >>
<1>1. <<s>> \o q \in Seq(State) /\ Len(<<s>> \o q) = 1 + Len(q)
  BY ConcatProperties
<1> QED BY <1>1

LEMMA PlanOfType ==
    ASSUME TypeOK, NEW path \in Seq(State), path # << >>
    PROVE  PlanOf(path) \in [state : Seq(State), op : Seq(Op \cup {NoOp}), cost : Int]
<1>1. Len(path) \in Nat \ {0}
  BY EmptySeq
<1>2. \A i \in 1..Len(path) : node[path[i]] \in Node
  BY DEF TypeOK
<1>3. [i \in 1..(Len(path) - 1) |-> node[path[i + 1]].op] \in Seq(Op \cup {NoOp})
  <2>1. \A i \in 1..(Len(path) - 1) : node[path[i + 1]].op \in Op \cup {NoOp}
    BY <1>1, <1>2 DEF Node
  <2>2. Len(path) - 1 \in Nat
    BY <1>1
  <2> QED BY <2>1, <2>2
<1>4. (IF Len(path) = 1 THEN 0 ELSE node[path[Len(path)]].g) \in Int
  BY <1>1, <1>2 DEF Node
<1> QED BY <1>3, <1>4 DEF PlanOf

LEMMA InitTypes == Init => TypeOK /\ LoopOK
<1> SUFFICES ASSUME Init PROVE TypeOK /\ LoopOK
  OBVIOUS
<1> USE SearchAssumption
<1>1. IsTask(task) /\ NewNode \in Node
  BY DEF Init, NewNode, Node
<1>2. node \in [State -> Node] /\ last_f \in Int
  BY <1>1 DEF Init
<1>3. OpenTypeOK
  BY DEF Init, OpenTypeOK
<1>4. plan \in [state : Seq(State), op : Seq(Op \cup {NoOp}), cost : Int]
  BY DEF Init, NoPlan
<1>5. cur \in [id : State \cup {NoState}, g : Int] /\ goal \in [id : State \cup {NoState}, g : Int]
  BY DEF Init
<1> QED BY <1>1, <1>2, <1>3, <1>4, <1>5 DEF Init, TypeOK, LoopOK

LEMMA StepTypes == TypeOK /\ LoopOK /\ [Next]_vars => TypeOK' /\ LoopOK'
<1> SUFFICES ASSUME TypeOK, LoopOK, [Next]_vars PROVE TypeOK' /\ LoopOK'
  OBVIOUS
<1> USE SearchAssumption
<1>1. CASE InitAvoided
  <2>1. Return(InitStatus) /\ InitStatus \in {"CONT", "UNSOLVABLE"}
    BY <1>1 DEF InitAvoided, InitStatus
  <2>2. cur' \in [id : State, g : Int]
    BY <1>1 DEF InitAvoided, TypeOK, IsTask
  <2> QED BY <1>1, <2>1, <2>2, ReturnType DEF InitAvoided, TypeOK, OpenTypeOK, LoopOK
<1>2. CASE InitPushed
  <2>1. task.init \in State /\ task.h[task.init] \in 0..DeadEnd /\ 0 \in Int
    BY DEF TypeOK, IsTask
  <2>2. Key(0, task.h[task.init]) \in Int \X (0..DeadEnd)
    BY <2>1, KeyType DEF TypeOK
  <2>3. OpenTypeOK'
    BY <1>2, <2>1, <2>2, OpenPushType DEF InitPushed, TypeOK
  <2>4. node' \in [State -> Node]
    BY <1>2, <2>1 DEF InitPushed, TypeOK, Node
  <2>5. goal' \in [id : State \cup {NoState}, g : Int] /\ (IsGoal(task.init) => goal'.id \in State)
    BY <1>2, <2>1 DEF InitPushed, GoalAt, TypeOK
  <2>6. InitStatus \in {"CONT", "UNSOLVABLE"}
    BY DEF InitStatus
  <2>7. cur' \in [id : State, g : Int]
    BY <1>2, <2>1 DEF InitPushed, TypeOK
  <2>8. /\ pc' \in {"loop", "extract", "done"} /\ (pc' = "extract" => IsGoal(task.init))
        /\ ret' \in {"CONT", "UNSOLVABLE", "FOUND"}
    BY <1>2, <2>6, ReturnType DEF InitPushed
  <2> QED BY <1>2, <2>3, <2>4, <2>5, <2>7, <2>8 DEF InitPushed, TypeOK, LoopOK
<1>3. CASE StepEmpty
  <2>1. pc' = "done" /\ ret' = "UNSOLVABLE"
    BY <1>3 DEF StepEmpty, Return
  <2> QED BY <1>3, <2>1 DEF StepEmpty, TypeOK, OpenTypeOK, LoopOK
<1>4. ASSUME NEW k \in DOMAIN open, StepSkip(k)
      PROVE  TypeOK' /\ LoopOK'
  <2>1. OpenTypeOK' /\ cur' \in [id : State, g : Int] /\ pc = "loop"
    BY <1>4, PopFacts DEF StepSkip
  <2> QED BY <1>4, <2>1 DEF StepSkip, TypeOK, LoopOK
<1>5. ASSUME NEW k \in DOMAIN open, StepAvoid(k)
      PROVE  TypeOK' /\ LoopOK'
  <2>1. OpenTypeOK' /\ cur' \in [id : State, g : Int] /\ pc = "loop"
        /\ Head(open[k]) \in State /\ k[1] \in Int
    BY <1>5, PopFacts DEF StepAvoid
  <2>2. last_f' \in Int /\ node' \in [State -> Node]
    BY <1>5, <2>1, CloseType DEF StepAvoid, TypeOK
  <2> QED BY <1>5, <2>1, <2>2 DEF StepAvoid, TypeOK, LoopOK
<1>6. ASSUME NEW k \in DOMAIN open, StepGoal(k)
      PROVE  TypeOK' /\ LoopOK'
  <2>1. OpenTypeOK' /\ cur' \in [id : State, g : Int]
        /\ Head(open[k]) \in State /\ k[1] \in Int
    BY <1>6, PopFacts DEF StepGoal
  <2>2. last_f' \in Int /\ node' \in [State -> Node]
    BY <1>6, <2>1, CloseType DEF StepGoal, TypeOK
  <2>3. node[Head(open[k])].g \in Int
    BY <2>1 DEF TypeOK, Node
  <2>4. goal' \in [id : State \cup {NoState}, g : Int] /\ goal'.id \in State
    BY <1>6, <2>1, <2>3 DEF StepGoal, GoalAt, TypeOK
  <2>5. pc' = "extract" /\ ret' = "FOUND"
    BY <1>6 DEF StepGoal, Return
  <2> QED BY <1>6, <2>1, <2>2, <2>4, <2>5 DEF StepGoal, TypeOK, LoopOK
<1>7. ASSUME NEW k \in DOMAIN open, StepDeadEnd(k)
      PROVE  TypeOK' /\ LoopOK'
  <2>1. OpenTypeOK' /\ cur' \in [id : State, g : Int] /\ pc = "loop"
        /\ Head(open[k]) \in State /\ k[1] \in Int
    BY <1>7, PopFacts DEF StepDeadEnd
  <2>2. last_f' \in Int /\ node' \in [State -> Node]
    BY <1>7, <2>1, CloseType DEF StepDeadEnd, TypeOK
  <2> QED BY <1>7, <2>1, <2>2 DEF StepDeadEnd, TypeOK, LoopOK
<1>8. ASSUME NEW k \in DOMAIN open, StepExpand(k)
      PROVE  TypeOK' /\ LoopOK'
  <2>1. OpenTypeOK' /\ cur' \in [id : State, g : Int] /\ pc = "loop"
        /\ Head(open[k]) \in State /\ k[1] \in Int /\ cur'.id = Head(open[k])
    BY <1>8, PopFacts DEF StepExpand
  <2>2. last_f' \in Int /\ node' \in [State -> Node]
    BY <1>8, <2>1, CloseType DEF StepExpand, TypeOK
  <2>4. hcur' \in -1..DeadEnd
    BY <1>8, <2>1 DEF StepExpand, TypeOK, IsTask
  <2>5. todo' \subseteq Op /\ todo' \subseteq Applicable(cur.id)'
    BY <1>8, <2>1 DEF StepExpand, Applicable
  <2> QED BY <1>8, <2>1, <2>2, <2>4, <2>5 DEF StepExpand, TypeOK, LoopOK
<1>9. ASSUME NEW o \in todo, ExpandSkip(o)
      PROVE  TypeOK' /\ LoopOK'
  <2>1. CheckGenerated(o, task.succ[o][cur.id]) /\ NextOp(o)
    BY <1>9 DEF ExpandSkip
  <2>2. GeneratedOK
    BY <2>1, GeneratedType
  <2>20. pc = "expand" /\ UNCHANGED <<task, cur>>
    BY <1>9, <2>1 DEF ExpandSkip, NextOp
  <2>21. LoopOK'
    BY <2>2, <2>20 DEF LoopOK, GeneratedOK, Applicable
  <2>22. TypeOK'
    BY <1>9, <2>2, <2>20 DEF ExpandSkip, TypeOK, OpenTypeOK, GeneratedOK
  <2> QED BY <2>21, <2>22
<1>10. ASSUME NEW o \in todo, ExpandDeadEnd(o)
       PROVE  TypeOK' /\ LoopOK'
  <2>1. CheckGenerated(o, task.succ[o][cur.id]) /\ NextOp(o)
    BY <1>10 DEF ExpandDeadEnd
  <2>2. GeneratedOK
    BY <2>1, GeneratedType
  <2>3. node' \in [State -> Node]
    BY <1>10, <2>1, ReachedFromType DEF ExpandDeadEnd, TypeOK
  <2>20. pc = "expand" /\ UNCHANGED <<task, cur>>
    BY <1>10, <2>1 DEF ExpandDeadEnd, NextOp
  <2>21. LoopOK'
    BY <2>2, <2>20 DEF LoopOK, GeneratedOK, Applicable
  <2>22. TypeOK'
    BY <1>10, <2>2, <2>3, <2>20 DEF ExpandDeadEnd, TypeOK, OpenTypeOK, GeneratedOK
  <2> QED BY <2>21, <2>22
<1>11. ASSUME NEW o \in todo, ExpandPush(o)
       PROVE  TypeOK' /\ LoopOK'
  <2> DEFINE s == task.succ[o][cur.id]
             g == cur.g + task.cost[o]
  <2>1. CheckGenerated(o, s) /\ NextOp(o)
    BY <1>11 DEF ExpandPush
  <2>2. GeneratedOK
    BY <2>1, GeneratedType
  <2>3. node' \in [State -> Node]
    BY <1>11, <2>1, ReachedFromType DEF ExpandPush, TypeOK
  <2>6. s \in State /\ g \in Int /\ SuccessorH(s) \in 0..DeadEnd
    BY <2>1, SuccessorFacts DEF LoopOK, NextOp
  <2>7. Key(g, SuccessorH(s)) \in Int \X (0..DeadEnd)
    BY <2>6, KeyType DEF TypeOK
  <2>8. OpenTypeOK'
    BY <1>11, <2>6, <2>7, OpenPushType DEF ExpandPush, TypeOK
  <2>20. pc = "expand" /\ UNCHANGED <<task, cur>>
    BY <1>11, <2>1 DEF ExpandPush, NextOp
  <2>21. LoopOK'
    BY <2>2, <2>20 DEF LoopOK, GeneratedOK, Applicable
  <2>22. TypeOK'
    BY <1>11, <2>2, <2>3, <2>8, <2>20 DEF ExpandPush, TypeOK, GeneratedOK
  <2> QED BY <2>21, <2>22
<1>12. CASE ExpandEnd
  BY <1>12 DEF ExpandEnd, Return, TypeOK, OpenTypeOK, LoopOK
<1>13. CASE Abort
  BY <1>13 DEF Abort, Return, TypeOK, OpenTypeOK, LoopOK
<1>14. CASE Extract
  <2>1. plan' \in [state : Seq(State), op : Seq(Op \cup {NoOp}), cost : Int] /\ plan'.state # << >>
    <3>1. goal.id \in State
      BY <1>14 DEF Extract, TypeOK
    <3>2. <<goal.id>> \in Seq(State) /\ <<goal.id>> # << >> /\ << >> \in Seq(Op \cup {NoOp})
      BY <3>1
    <3> QED BY <1>14, <3>2 DEF Extract
  <2> QED BY <1>14, <2>1 DEF Extract, TypeOK, OpenTypeOK, LoopOK
<1>15. CASE Backtrack
  <2>1. Head(plan.state) \in State
    BY <1>15 DEF Backtrack, TypeOK
  <2>2. node[Head(plan.state)].parent \in State
    BY <1>15, <2>1 DEF Backtrack, TypeOK, Node
  <2>3. <<node[Head(plan.state)].parent>> \o plan.state \in Seq(State)
        /\ <<node[Head(plan.state)].parent>> \o plan.state # << >>
    BY <2>2, PrependType DEF TypeOK
  <2>4. plan' \in [state : Seq(State), op : Seq(Op \cup {NoOp}), cost : Int] /\ plan'.state # << >>
    BY <1>15, <2>3 DEF Backtrack, TypeOK
  <2> QED BY <1>15, <2>4 DEF Backtrack, TypeOK, OpenTypeOK, LoopOK
<1>16. CASE LoadPlan
  <2>1. PlanOf(plan.state) \in [state : Seq(State), op : Seq(Op \cup {NoOp}), cost : Int]
    BY <1>16, PlanOfType DEF LoadPlan, TypeOK
  <2> QED BY <1>16, <2>1 DEF LoadPlan, TypeOK, OpenTypeOK, LoopOK
<1>17. CASE UNCHANGED vars
  BY <1>17 DEF vars, TypeOK, OpenTypeOK, LoopOK, Applicable
<1> QED
  BY <1>1, <1>2, <1>3, <1>4, <1>5, <1>6, <1>7, <1>8, <1>9, <1>10, <1>11, <1>12, <1>13, <1>14,
     <1>15, <1>16, <1>17 DEF Next, InitStep, Step, ExtractPlan

\* Every reachable state of the search is well typed.
THEOREM TypeCorrect == Spec => []TypeOK
<1>1. Init => TypeOK /\ LoopOK
  BY InitTypes
<1>2. TypeOK /\ LoopOK /\ [Next]_vars => (TypeOK /\ LoopOK)'
  BY StepTypes
<1> QED BY <1>1, <1>2, PTL DEF Spec

-----------------------------------------------------------------------------
(* The search tree.  Every step either leaves the nodes alone, closes an   *)
(* open one, or rewrites one successor of cur_node that is not skipped.    *)

Closes(s) ==
    /\ pc = "loop" /\ node[s].status = "OPEN" /\ node' = Close(s)
    /\ cur' = [id |-> s, g |-> node[s].g]
    /\ pc' = "expand" => ~IsAvoid(s)

Rewrites(o, status) ==
    LET s == task.succ[o][cur.id] IN
    /\ NextOp(o)
    /\ ~SkipsSuccessor(s, cur.g + task.cost[o])
    /\ node' = [node EXCEPT ![s] = ReachedFrom(o, status)]
    /\ UNCHANGED cur

KeepsNodes ==
    /\ UNCHANGED node
    /\ pc' = "expand" => pc = "expand" /\ UNCHANGED cur
    /\ pc' = "init" => pc = "init"

RootNode == [status |-> "OPEN", g |-> 0, parent |-> NoState, op |-> NoOp]

AddsRoot ==
    /\ pc = "init" /\ pc' \notin {"init", "expand"}
    /\ node' = [node EXCEPT ![task.init] = RootNode]

NodeMoves ==
    \/ KeepsNodes
    \/ AddsRoot
    \/ pc' # "init" /\ \E s \in State : Closes(s)
    \/ pc' # "init" /\ \E o \in todo : \E status \in {"OPEN", "CLOSED"} : Rewrites(o, status)

LEMMA StepMovesNodes ==
    ASSUME TypeOK, LoopOK, [Next]_vars
    PROVE  NodeMoves /\ UNCHANGED task
<1>1. CASE InitAvoided
  <2>1. pc' \notin {"init", "expand"}
    BY <1>1 DEF InitAvoided, Return
  <2> QED BY <1>1, <2>1 DEF InitAvoided, NodeMoves, KeepsNodes
<1>2. CASE InitPushed
  <2>1. pc' \notin {"init", "expand"}
    BY <1>2 DEF InitPushed, Return
  <2> QED BY <1>2, <2>1 DEF InitPushed, NodeMoves, AddsRoot, RootNode
<1>3. CASE StepEmpty
  BY <1>3 DEF StepEmpty, Return, NodeMoves, KeepsNodes
<1>4. ASSUME NEW k \in DOMAIN open,
             StepSkip(k) \/ StepAvoid(k) \/ StepGoal(k) \/ StepDeadEnd(k) \/ StepExpand(k)
      PROVE  NodeMoves /\ UNCHANGED task
  <2> DEFINE s == Head(open[k])
  <2>1. Pop(k)
    BY <1>4 DEF StepSkip, StepAvoid, StepGoal, StepDeadEnd, StepExpand
  <2>2. s \in State /\ pc = "loop" /\ cur' = [id |-> s, g |-> node[s].g]
    BY <2>1, PopFacts
  <2>3. CASE StepSkip(k)
    BY <2>2, <2>3 DEF StepSkip, NodeMoves, KeepsNodes
  <2>4. CASE StepAvoid(k)
    <3>1. Closes(s) /\ pc' # "init"
      BY <2>2, <2>4 DEF StepAvoid, Closes
    <3> QED BY <2>2, <2>4, <3>1 DEF NodeMoves, StepAvoid
  <2>5. CASE StepGoal(k)
    <3>1. Closes(s) /\ pc' # "init"
      BY <2>2, <2>5 DEF StepGoal, Closes, Return
    <3> QED BY <2>2, <2>5, <3>1 DEF NodeMoves, StepGoal
  <2>6. CASE StepDeadEnd(k)
    <3>1. Closes(s) /\ pc' # "init"
      BY <2>2, <2>6 DEF StepDeadEnd, Closes, Expandable
    <3> QED BY <2>2, <2>6, <3>1 DEF NodeMoves, StepDeadEnd
  <2>7. CASE StepExpand(k)
    <3>1. Closes(s) /\ pc' # "init"
      BY <2>2, <2>7 DEF StepExpand, Closes, Expandable
    <3> QED BY <2>2, <2>7, <3>1 DEF NodeMoves, StepExpand
  <2> QED BY <1>4, <2>3, <2>4, <2>5, <2>6, <2>7
<1>5. ASSUME NEW o \in todo, ExpandSkip(o) \/ ExpandDeadEnd(o) \/ ExpandPush(o)
      PROVE  NodeMoves /\ UNCHANGED task
  <2>1. NextOp(o) /\ CheckGenerated(o, task.succ[o][cur.id]) /\ UNCHANGED <<task, cur>>
    BY <1>5 DEF ExpandSkip, ExpandDeadEnd, ExpandPush
  <2>2. pc' \in {"extract", "expand"} /\ pc = "expand"
    BY <2>1, GeneratedType DEF GeneratedOK, NextOp
  <2>3. CASE ExpandSkip(o)
    BY <2>1, <2>2, <2>3 DEF ExpandSkip, NodeMoves, KeepsNodes
  <2>4. CASE ExpandDeadEnd(o)
    <3>1. Rewrites(o, "CLOSED")
      BY <2>1, <2>4 DEF ExpandDeadEnd, Rewrites
    <3> QED BY <2>1, <2>2, <3>1 DEF NodeMoves
  <2>5. CASE ExpandPush(o)
    <3>1. Rewrites(o, "OPEN")
      BY <2>1, <2>5 DEF ExpandPush, Rewrites
    <3> QED BY <2>1, <2>2, <3>1 DEF NodeMoves
  <2> QED BY <1>5, <2>3, <2>4, <2>5
<1>6. CASE ExpandEnd \/ Abort
  BY <1>6 DEF ExpandEnd, Abort, Return, NodeMoves, KeepsNodes
<1>7. CASE ExtractPlan
  BY <1>7 DEF ExtractPlan, Extract, Backtrack, LoadPlan, NodeMoves, KeepsNodes
<1>8. CASE UNCHANGED vars
  BY <1>8 DEF vars, NodeMoves, KeepsNodes
<1> QED
  BY <1>1, <1>2, <1>3, <1>4, <1>5, <1>6, <1>7, <1>8 DEF Next, InitStep, Step

\* The inductive invariant: the tree, its root, and the node being expanded.
TreeInv ==
    /\ pc = "init" => \A s \in State : ~Reached(s)
    /\ \A s \in State : Reached(s) => node[s].g >= 0 /\ Reached(task.init)
    /\ pc = "expand" => ~IsAvoid(cur.id)
    /\ CurNotStale
    /\ SearchTree

LEMMA InitTree == Init => TreeInv
BY SearchAssumption DEF Init, TreeInv, Reached, NewNode, CurNotStale, SearchTree

LEMMA RewritesKeepsTree ==
    ASSUME TypeOK, LoopOK, TreeInv, UNCHANGED task, pc' # "init",
           NEW o \in todo, NEW status \in {"OPEN", "CLOSED"}, Rewrites(o, status)
    PROVE  TreeInv'
<1> DEFINE s == task.succ[o][cur.id]
           g == cur.g + task.cost[o]
<1>1. /\ o \in Op /\ cur.id \in State /\ s \in State /\ task.cost[o] \in Nat /\ g \in Int
      /\ pc = "expand" /\ task.succ[o][cur.id] = s
  BY SuccessorFacts DEF LoopOK, Rewrites, NextOp
<1>2. node[cur.id].status = "CLOSED" /\ node[cur.id].g = cur.g /\ cur.g >= 0 /\ ~IsAvoid(cur.id)
      /\ Reached(task.init)
  BY <1>1 DEF TreeInv, CurNotStale, Reached
<1>3. s # cur.id /\ s # task.init
  <2>1. g >= cur.g /\ cur.g \in Int
    BY <1>1 DEF TypeOK
  <2>2. s # cur.id
    BY <1>1, <1>2, <2>1 DEF Rewrites, SkipsSuccessor, HasBetter
  <2>3. task.init \in State
    BY DEF TypeOK, IsTask
  <2>4. node[task.init].g = 0
    BY <1>2, <2>3, SearchAssumption DEF TreeInv, SearchTree
  <2>5. s # task.init
    BY <1>1, <1>2, <2>1, <2>3, <2>4 DEF Rewrites, SkipsSuccessor, HasBetter, Reached
  <2> QED BY <2>2, <2>5
<1>4. /\ node' \in [State -> Node]
      /\ node'[s] = [status |-> status, g |-> g, parent |-> cur.id, op |-> o]
      /\ \A u \in State \ {s} : node'[u] = node[u]
      /\ cur' = cur
  BY <1>1, ReachedFromType DEF Rewrites, ReachedFrom, TypeOK
<1>5. Reached(s) => node[s].g > g
  BY SMTT(30), <1>1 DEF Rewrites, SkipsSuccessor, HasBetter, Reached, TypeOK, Node
<1>6. \A u \in State : node'[u].status # "NEW" <=> Reached(u) \/ u = s
  BY <1>4 DEF Reached
<1>7. \A u \in State : Reached(u) => node'[u].g <= node[u].g
  BY <1>4, <1>5 DEF Reached, TypeOK, Node
<1>8. \A u \in State : node'[u].status # "NEW" => node'[u].g >= 0 /\ node'[task.init].status # "NEW"
  <2>1. g >= 0 /\ task.init \in State
    BY <1>1, <1>2 DEF TypeOK, IsTask
  <2>2. node'[task.init].status # "NEW"
    BY <1>2, <1>6, <2>1
  <2>3. \A u \in State : Reached(u) => node[u].g >= 0
    BY DEF TreeInv
  <2> QED BY <1>1, <1>4, <1>6, <2>1, <2>2, <2>3
<1>9. CurNotStale'
  BY <1>1, <1>2, <1>3, <1>4 DEF CurNotStale
<1>10. SearchTree'
  <2> SUFFICES ASSUME NEW u \in State, Reached(u)'
               PROVE  \/ u = task.init /\ IsRoot(u)' /\ node'[u].g = 0
                      \/ u # task.init /\ IsChild(u)'
    BY DEF SearchTree
  <2>1. CASE u = s
    <3>1. node'[cur.id] = node[cur.id] /\ node[cur.id].status # "NEW"
      BY <1>1, <1>2, <1>3, <1>4
    <3>2. /\ node'[u].parent = cur.id /\ node'[u].op = o
          /\ node'[u].g = cur.g + task.cost[o]
      BY <1>4, <2>1
    <3>3. node'[u].g >= node'[cur.id].g + task.cost[o]
      BY <1>1, <1>2, <3>1, <3>2
    <3>4. IsChild(u)'
      BY <1>1, <1>2, <2>1, <3>1, <3>2, <3>3 DEF IsChild, IsAvoid, Reached
    <3> QED BY <1>3, <2>1, <3>4
  <2>2. CASE u # s /\ u = task.init
    BY <1>2, <1>4, <2>2 DEF TreeInv, SearchTree, IsRoot, IsChild
  <2>3. CASE u # s /\ u # task.init
    <3>1. Reached(u) /\ IsChild(u) /\ node'[u] = node[u]
      BY <1>4, <2>3 DEF TreeInv, SearchTree, Reached
    <3> DEFINE p == node[u].parent
    <3>2. /\ p \in State /\ Reached(p) /\ ~IsAvoid(p)
          /\ node[u].op \in Op /\ task.succ[node[u].op][p] = u
          /\ node[u].g >= node[p].g + task.cost[node[u].op]
      BY <3>1 DEF IsChild
    <3>3. node'[p].status # "NEW" /\ node'[p].g <= node[p].g
      BY <1>6, <1>7, <3>2
    <3>4. node[u].g \in Int /\ node[p].g \in Int /\ node'[p].g \in Int /\ task.cost[node[u].op] \in Nat
      BY <1>4, <3>2 DEF TypeOK, Node, IsTask
    <3>5. node'[u].g >= node'[p].g + task.cost[node[u].op]
      BY <3>1, <3>2, <3>3, <3>4
    <3>6. IsChild(u)'
      BY <3>1, <3>2, <3>3, <3>5 DEF IsChild, IsAvoid, Reached
    <3> QED BY <2>3, <3>6
  <2> QED BY <2>1, <2>2, <2>3
<1> QED BY <1>2, <1>4, <1>8, <1>9, <1>10 DEF TreeInv, IsAvoid, Reached

LEMMA ClosesKeepsTree ==
    ASSUME TypeOK, TreeInv, UNCHANGED task, pc' # "init", NEW s \in State, Closes(s)
    PROVE  TreeInv'
<1>1. /\ node'[s].status = "CLOSED"
      /\ \A u \in State : /\ node'[u].g = node[u].g /\ node'[u].parent = node[u].parent
                          /\ node'[u].op = node[u].op
                          /\ node'[u].status # "NEW" <=> node[u].status # "NEW"
  BY DEF Closes, Close, TypeOK, Node
<1>2. CurNotStale'
  <2>1. cur'.id = s /\ cur'.g = node[s].g
    BY DEF Closes
  <2> QED BY <1>1, <2>1 DEF CurNotStale
<1>3. SearchTree'
  <2>1. ASSUME NEW u \in State, IsChild(u) PROVE IsChild(u)'
    <3> DEFINE p == node[u].parent
    <3>1. /\ p \in State /\ Reached(p) /\ ~IsAvoid(p)
          /\ node[u].op \in Op /\ task.succ[node[u].op][p] = u
          /\ node[u].g >= node[p].g + task.cost[node[u].op]
      BY <2>1 DEF IsChild
    <3>2. /\ node'[u].parent = p /\ node'[p].status # "NEW" /\ node'[u].op = node[u].op
          /\ node'[u].g = node[u].g /\ node'[p].g = node[p].g
      BY <1>1, <3>1 DEF Reached
    <3> QED BY <3>1, <3>2 DEF IsChild, IsAvoid, Reached
  <2>2. ASSUME NEW u \in State, node'[u].status # "NEW"
        PROVE  \/ u = task.init /\ IsRoot(u)' /\ node'[u].g = 0
               \/ u # task.init /\ IsChild(u)'
    <3>1. \/ u = task.init /\ IsRoot(u) /\ node[u].g = 0
          \/ u # task.init /\ IsChild(u)
      BY <1>1, <2>2 DEF TreeInv, SearchTree, Reached
    <3> QED BY <1>1, <2>1, <3>1 DEF IsRoot
  <2> QED BY <2>2 DEF SearchTree, Reached
<1>4. \A u \in State : node'[u].status # "NEW" => node'[u].g >= 0 /\ node'[task.init].status # "NEW"
  BY <1>1 DEF TreeInv, TypeOK, IsTask, Reached
<1>5. pc' = "expand" => ~IsAvoid(cur.id)'
  BY DEF Closes, IsAvoid
<1> QED BY <1>2, <1>3, <1>4, <1>5 DEF TreeInv, Reached

LEMMA AddsRootKeepsTree ==
    ASSUME TypeOK, TreeInv, UNCHANGED task, AddsRoot
    PROVE  TreeInv'
<1>1. task.init \in State
  BY DEF TypeOK, IsTask
<1>2. /\ node'[task.init] = RootNode
      /\ \A u \in State : Reached(u)' <=> u = task.init
  BY <1>1 DEF AddsRoot, TreeInv, Reached, TypeOK, RootNode
<1> QED BY <1>1, <1>2 DEF TreeInv, AddsRoot, CurNotStale, SearchTree, IsRoot, RootNode

LEMMA StepTree == TypeOK /\ LoopOK /\ TreeInv /\ [Next]_vars => TreeInv'
<1> SUFFICES ASSUME TypeOK, LoopOK, TreeInv, [Next]_vars PROVE TreeInv'
  OBVIOUS
<1>1. NodeMoves /\ UNCHANGED task
  BY StepMovesNodes
<1>2. CASE KeepsNodes
  BY <1>1, <1>2 DEF KeepsNodes, TreeInv, Reached, IsAvoid, CurNotStale, SearchTree, IsRoot, IsChild
<1>3. CASE AddsRoot
  BY <1>1, <1>3, AddsRootKeepsTree
<1>4. CASE pc' # "init" /\ \E s \in State : Closes(s)
  BY <1>1, <1>4, ClosesKeepsTree
<1>5. CASE pc' # "init" /\ \E o \in todo : \E status \in {"OPEN", "CLOSED"} : Rewrites(o, status)
  BY <1>1, <1>5, RewritesKeepsTree
<1> QED BY <1>1, <1>2, <1>3, <1>4, <1>5 DEF NodeMoves

SearchInv == TypeOK /\ LoopOK /\ TreeInv

LEMMA SearchInvariant == Spec => []SearchInv
<1>1. Init => SearchInv
  BY InitTypes, InitTree DEF SearchInv
<1>2. SearchInv /\ [Next]_vars => SearchInv'
  BY StepTypes, StepTree DEF SearchInv
<1> QED BY <1>1, <1>2, PTL DEF Spec

\* The parent pointers always form a tree of transitions rooted at the initial
\* state; so the plan read back along them is executable.
THEOREM TreeCorrect == Spec => []SearchTree
<1>1. SearchInv => SearchTree
  BY DEF SearchInv, TreeInv
<1> QED BY <1>1, SearchInvariant, PTL

\* The copy of the expanded node is never stale.
THEOREM CurCorrect == Spec => []CurNotStale
<1>1. SearchInv => CurNotStale
  BY DEF SearchInv, TreeInv
<1> QED BY <1>1, SearchInvariant, PTL

-----------------------------------------------------------------------------
(* The open list. *)

\* Only the head of the FIFO popped may leave the open list.
LEMMA PopListed ==
    ASSUME OpenTypeOK, NEW k \in DOMAIN open, open' = OpenPop(k), NEW l, NEW s
    PROVE  /\ Listed(open', l, s) => Listed(open, l, s)
           /\ Listed(open, l, s) /\ s # Head(open[k]) => Listed(open', l, s)
<1>1. DOMAIN open' = {m \in DOMAIN open : m # k \/ Len(open[k]) > 1}
  BY DEF OpenPop
<1>2. CASE l # k
  <2>1. l \in DOMAIN open' <=> l \in DOMAIN open
    BY <1>1, <1>2
  <2>2. l \in DOMAIN open' => open'[l] = open[l]
    BY <1>1, <1>2 DEF OpenPop
  <2> QED BY <2>1, <2>2 DEF Listed
<1>3. CASE l = k
  <2> DEFINE q == open[k]
  <2>1. q \in Seq(State) /\ q # << >> /\ Len(q) \in Nat
    BY EmptySeq DEF OpenTypeOK
  <2>2. /\ Head(q) = q[1]
        /\ Len(Tail(q)) = Len(q) - 1
        /\ \A i \in 1..(Len(q) - 1) : Tail(q)[i] = q[i + 1]
    BY <2>1, HeadTailProperties
  <2>3. k \in DOMAIN open' <=> Len(q) > 1
    BY <1>1
  <2>4. k \in DOMAIN open' => open'[k] = Tail(q)
    BY <1>1 DEF OpenPop
  <2>5. ASSUME Listed(open', k, s) PROVE Listed(open, k, s)
    <3>1. PICK i \in 1..(Len(q) - 1) : q[i + 1] = s
      BY <2>2, <2>4, <2>5 DEF Listed
    <3>2. i + 1 \in 1..Len(q)
      BY <2>1
    <3> QED BY <3>1, <3>2 DEF Listed
  <2>6. ASSUME Listed(open, k, s), s # Head(q) PROVE Listed(open', k, s)
    <3>1. PICK i \in 1..Len(q) : q[i] = s
      BY <2>6 DEF Listed
    <3>2. i # 1
      BY <2>2, <2>6, <3>1
    <3>3. i - 1 \in 1..(Len(q) - 1) /\ Len(q) > 1 /\ (i - 1) + 1 = i
      BY <2>1, <3>2
    <3>4. k \in DOMAIN open' /\ open'[k] = Tail(q) /\ Tail(q)[i - 1] = s
      BY <2>2, <2>3, <2>4, <3>1, <3>3
    <3> QED BY <2>2, <3>3, <3>4 DEF Listed
  <2> QED BY <1>3, <2>5, <2>6
<1> QED BY <1>2, <1>3

\* A push adds one entry and loses none.
LEMMA PushListed ==
    ASSUME OpenTypeOK, NEW k, NEW t \in State, open' = OpenPush(k, t), NEW l, NEW s
    PROVE  Listed(open', l, s) <=> Listed(open, l, s) \/ (l = k /\ s = t)
<1>1. DOMAIN open' = DOMAIN open \cup {k}
  BY DEF OpenPush
<1>2. CASE l # k
  <2>1. l \in DOMAIN open' <=> l \in DOMAIN open
    BY <1>1, <1>2
  <2>2. l \in DOMAIN open' => open'[l] = open[l]
    BY <1>1, <1>2 DEF OpenPush
  <2> QED BY <1>2, <2>1, <2>2 DEF Listed
<1>3. CASE l = k /\ k \notin DOMAIN open
  <2>1. k \in DOMAIN open' /\ open'[k] = <<t>>
    BY <1>1, <1>3 DEF OpenPush
  <2>2. Listed(open', k, s) <=> s = t
    BY <2>1 DEF Listed
  <2> QED BY <1>3, <2>2 DEF Listed
<1>4. CASE l = k /\ k \in DOMAIN open
  <2> DEFINE q == open[k]
  <2>1. q \in Seq(State) /\ Len(q) \in Nat
    BY <1>4, LenProperties DEF OpenTypeOK
  <2>2. k \in DOMAIN open' /\ open'[k] = Append(q, t)
    BY <1>1, <1>4 DEF OpenPush
  <2>3. /\ Len(Append(q, t)) = Len(q) + 1
        /\ \A i \in 1..Len(q) : Append(q, t)[i] = q[i]
        /\ Append(q, t)[Len(q) + 1] = t
    BY <2>1, AppendProperties
  <2>4. ASSUME Listed(open', k, s) PROVE Listed(open, k, s) \/ s = t
    <3>1. PICK i \in 1..(Len(q) + 1) : Append(q, t)[i] = s
      BY <2>2, <2>3, <2>4 DEF Listed
    <3>2. CASE i = Len(q) + 1
      BY <2>3, <3>1, <3>2
    <3>3. CASE i \in 1..Len(q)
      BY <1>4, <2>3, <3>1, <3>3 DEF Listed
    <3> QED BY <2>1, <3>2, <3>3
  <2>5. ASSUME Listed(open, k, s) PROVE Listed(open', k, s)
    <3>1. PICK i \in 1..Len(q) : q[i] = s
      BY <2>5 DEF Listed
    <3>2. i \in 1..(Len(q) + 1) /\ Append(q, t)[i] = s
      BY <2>1, <2>3, <3>1
    <3> QED BY <2>2, <2>3, <3>2 DEF Listed
  <2>6. Listed(open', k, t)
    <3>1. Len(q) + 1 \in 1..(Len(q) + 1)
      BY <2>1
    <3> QED BY <2>2, <2>3, <3>1 DEF Listed
  <2> QED BY <1>4, <2>4, <2>5, <2>6
<1> QED BY <1>2, <1>3, <1>4

\* The inductive invariant of the open list.
EntriesInv ==
    /\ \A k \in DOMAIN open : \A s \in State : Listed(open, k, s) => Reached(s)
    /\ OpenListed
    /\ EntriesNotTooGood

OpenInv == EntriesInv /\ (~IsLazy => hcur = -1)

LEMMA PopKeepsEntries ==
    ASSUME TypeOK, EntriesInv, NEW k \in DOMAIN open, Pop(k), UNCHANGED task,
           \/ UNCHANGED node /\ node[Head(open[k])].status # "OPEN"
           \/ node' = Close(Head(open[k]))
    PROVE  EntriesInv'
<1> DEFINE t == Head(open[k])
<1>1. t \in State /\ OpenTypeOK /\ open' = OpenPop(k)
  BY PopFacts DEF TypeOK, Pop
<1>2. \A u \in State :
          /\ node'[u].g = node[u].g
          /\ (node'[u].status # "NEW") <=> (node[u].status # "NEW")
          /\ (node'[u].status = "OPEN") => (node[u].status = "OPEN" /\ u # t)
  <2>1. node \in [State -> Node]
    BY DEF TypeOK
  <2>2. \A u \in State : node[u] \in Node
    BY <2>1
  <2>3. CASE UNCHANGED node /\ node[t].status # "OPEN"
    BY <2>3
  <2>4. CASE node' = Close(t)
    <3>1. node' = [node EXCEPT ![t] = [node[t] EXCEPT !.status = "CLOSED"]]
      BY <2>4 DEF Close
    <3>2. \A u \in State \ {t} : node'[u] = node[u]
      BY <2>1, <3>1
    <3>3. node'[t].g = node[t].g /\ node'[t].status = "CLOSED"
      BY <1>1, <2>1, <2>2, <3>1 DEF Node
    <3>4. node[t].status # "NEW"
      <4>1. open[k] \in Seq(State) /\ open[k] # << >>
        BY <1>1 DEF OpenTypeOK
      <4>2. 1 \in 1..Len(open[k]) /\ open[k][1] = t
        BY <4>1
      <4>3. Listed(open, k, t)
        BY <4>2 DEF Listed
      <4> QED BY <1>1, <4>3 DEF EntriesInv, Reached
    <3> QED BY <1>1, <3>2, <3>3, <3>4
  <2> QED BY <2>3, <2>4
<1>3. ASSUME NEW l, NEW u PROVE Listed(open', l, u) => Listed(open, l, u)
  BY <1>1, PopListed
<1>4. ASSUME NEW l, NEW u, u # t PROVE Listed(open, l, u) => Listed(open', l, u)
  BY <1>1, <1>4, PopListed
<1>5. \A l, u : Listed(open', l, u) => l \in DOMAIN open'
  BY DEF Listed
<1>6. \A l, u : Listed(open, l, u) => l \in DOMAIN open
  BY DEF Listed
<1>7. \A l \in DOMAIN open' : \A u \in State : Listed(open', l, u) => node'[u].status # "NEW"
  BY <1>2, <1>3, <1>6 DEF EntriesInv, Reached
<1>8. OpenListed'
  <2> SUFFICES ASSUME NEW u \in State, node'[u].status = "OPEN"
               PROVE  \E l \in DOMAIN open' :
                        Listed(open', l, u) /\ (Reopen => l = Key(node[u].g, task.h[u]))
    BY <1>2 DEF OpenListed, Reopen, Key, GWeight, HWeight
  <2>1. node[u].status = "OPEN" /\ u # t
    BY <1>2
  <2>2. PICK l \in DOMAIN open :
            Listed(open, l, u) /\ (Reopen => l = Key(node[u].g, task.h[u]))
    BY <2>1 DEF EntriesInv, OpenListed
  <2> QED BY <1>4, <1>5, <2>1, <2>2
<1>9. EntriesNotTooGood'
  <2> SUFFICES ASSUME Reopen, NEW l \in DOMAIN open', NEW u \in State, Listed(open', l, u)
               PROVE  l[1] >= node'[u].g + task.h[u]
    BY DEF EntriesNotTooGood, Reopen
  <2> QED BY <1>2, <1>3, <1>6 DEF EntriesInv, EntriesNotTooGood
<1> QED BY <1>7, <1>8, <1>9 DEF EntriesInv, Reached

LEMMA PushKeepsEntries ==
    ASSUME TypeOK, EntriesInv, UNCHANGED task,
           NEW t \in State, NEW g \in Int, NEW h \in 0..DeadEnd,
           Reopen => h = task.h[t],
           Reached(t) => g <= node[t].g,
           open' = OpenPush(Key(g, h), t),
           node' \in [State -> Node],
           \A u \in State \ {t} : node'[u] = node[u],
           node'[t].status = "OPEN", node'[t].g = g
    PROVE  EntriesInv'
<1>1. OpenTypeOK /\ IsTask(task) /\ DeadEnd \in Nat
  BY SearchAssumption DEF TypeOK
<1>2. Key(g, h) \in Int \X (0..DeadEnd) /\ (Reopen => Key(g, h)[1] = g + h)
  BY <1>1, KeyType
<1>3. ASSUME NEW l, NEW u
      PROVE  Listed(open', l, u) <=> Listed(open, l, u) \/ (l = Key(g, h) /\ u = t)
  BY <1>1, PushListed
<1>4. \A l, u : Listed(open', l, u) => l \in DOMAIN open'
  BY DEF Listed
<1>5. \A l, u : Listed(open, l, u) => l \in DOMAIN open
  BY DEF Listed
<1>6. \A l \in DOMAIN open' : \A u \in State : Listed(open', l, u) => node'[u].status # "NEW"
  BY <1>3, <1>5 DEF EntriesInv, Reached
<1>7. OpenListed'
  <2> SUFFICES ASSUME NEW u \in State, node'[u].status = "OPEN"
               PROVE  \E l \in DOMAIN open' :
                        Listed(open', l, u) /\ (Reopen => l = Key(node'[u].g, task.h[u]))
    BY DEF OpenListed, Reopen, Key, GWeight, HWeight
  <2>1. CASE u = t
    <3>1. Listed(open', Key(g, h), t)
      BY <1>3
    <3> QED BY <1>4, <2>1, <3>1
  <2>2. CASE u # t
    <3>1. PICK l \in DOMAIN open :
              Listed(open, l, u) /\ (Reopen => l = Key(node[u].g, task.h[u]))
      BY <2>2 DEF EntriesInv, OpenListed
    <3> QED BY <1>3, <1>4, <2>2, <3>1
  <2> QED BY <2>1, <2>2
<1>8. EntriesNotTooGood'
  <2> SUFFICES ASSUME Reopen, NEW l \in DOMAIN open', NEW u \in State, Listed(open', l, u)
               PROVE  l[1] >= node'[u].g + task.h[u]
    BY DEF EntriesNotTooGood, Reopen
  <2>1. CASE l = Key(g, h) /\ u = t
    BY <1>1, <1>2, <2>1 DEF IsTask
  <2>2. CASE Listed(open, l, u)
    <3>1. l \in DOMAIN open /\ l[1] >= node[u].g + task.h[u] /\ Reached(u)
      BY <1>5, <2>2 DEF EntriesInv, EntriesNotTooGood
    <3>2. l[1] \in Int /\ node[u].g \in Int /\ node'[u].g \in Int /\ task.h[u] \in Int
      BY <1>1, <3>1 DEF OpenTypeOK, TypeOK, Node, IsTask
    <3>3. node'[u].g <= node[u].g
      BY <3>1, <3>2
    <3> QED BY <3>1, <3>2, <3>3
  <2> QED BY <1>3, <2>1, <2>2
<1> QED BY <1>6, <1>7, <1>8 DEF EntriesInv, Reached

LEMMA InitOpen == Init => OpenInv
BY DEF Init, OpenInv, EntriesInv, OpenListed, EntriesNotTooGood, Listed, NewNode

LEMMA StepOpen ==
    ASSUME SearchInv, OpenInv, [Next]_vars
    PROVE  OpenInv'
<1> USE DEF OpenInv
<1>1. TypeOK /\ LoopOK /\ TreeInv /\ EntriesInv
  BY DEF SearchInv
<1>2. ASSUME UNCHANGED <<task, node, open, hcur>> PROVE OpenInv'
  BY <1>1, <1>2 DEF EntriesInv, Reached, OpenListed, EntriesNotTooGood, Reopen, Key, GWeight, HWeight, IsLazy
<1>3. CASE InitPushed
  <2>1. task.init \in State /\ task.h[task.init] \in 0..DeadEnd /\ 0 \in Int /\ IsTask(task)
    BY <1>1 DEF TypeOK, IsTask
  <2>2. ~Reached(task.init)
    BY <1>1, <1>3, <2>1 DEF InitPushed, TreeInv
  <2>3. /\ node' \in [State -> Node]
        /\ \A u \in State \ {task.init} : node'[u] = node[u]
        /\ node'[task.init].status = "OPEN" /\ node'[task.init].g = 0
    BY <1>1, <1>3, <2>1 DEF InitPushed, TypeOK, Node
  <2>4. open' = OpenPush(Key(0, task.h[task.init]), task.init) /\ UNCHANGED <<task, hcur>>
    BY <1>3 DEF InitPushed
  <2>5. EntriesInv'
    BY <1>1, <2>1, <2>2, <2>3, <2>4, PushKeepsEntries
  <2> QED BY <2>4, <2>5 DEF IsLazy
<1>4. ASSUME NEW k \in DOMAIN open,
             StepSkip(k) \/ StepAvoid(k) \/ StepGoal(k) \/ StepDeadEnd(k) \/ StepExpand(k)
      PROVE  OpenInv'
  <2>1. /\ Pop(k) /\ UNCHANGED task
        /\ \/ UNCHANGED node /\ node[Head(open[k])].status # "OPEN"
           \/ node' = Close(Head(open[k]))
    BY <1>4 DEF StepSkip, StepAvoid, StepGoal, StepDeadEnd, StepExpand
  <2>2. EntriesInv'
    BY <1>1, <2>1, PopKeepsEntries
  <2>3. ~IsLazy => hcur' = -1
    BY <1>4 DEF StepSkip, StepAvoid, StepGoal, StepDeadEnd, StepExpand, EvaluatesCur
  <2> QED BY <2>1, <2>2, <2>3 DEF IsLazy
<1>5. ASSUME NEW o \in todo, ExpandDeadEnd(o)
      PROVE  OpenInv'
  <2> DEFINE t == task.succ[o][cur.id]
  <2>1. NextOp(o) /\ UNCHANGED <<task, open, hcur>> /\ node' = [node EXCEPT ![t] = ReachedFrom(o, "CLOSED")]
        /\ ~SkipsSuccessor(t, cur.g + task.cost[o])
    BY <1>5 DEF ExpandDeadEnd
  <2>2. t \in State /\ cur.g + task.cost[o] \in Int /\ node' \in [State -> Node]
    BY <1>1, <2>1, SuccessorFacts, ReachedFromType DEF LoopOK, NextOp
  <2>3. /\ node'[t].status = "CLOSED" /\ node'[t].g = cur.g + task.cost[o]
        /\ \A u \in State \ {t} : node'[u] = node[u]
    BY <1>1, <2>1, <2>2 DEF TypeOK, ReachedFrom
  <2>4. Reached(t) => node'[t].g <= node[t].g
    BY <1>1, <2>1, <2>2, <2>3 DEF SkipsSuccessor, HasBetter, Reached, TypeOK, Node
  <2>5. \A k \in DOMAIN open : \A u \in State : Listed(open, k, u) => node'[u].status # "NEW"
    BY <1>1, <2>3 DEF EntriesInv, Reached
  <2>6. OpenListed'
    BY <1>1, <2>1, <2>2, <2>3 DEF EntriesInv, OpenListed, Reopen, Key, GWeight, HWeight
  <2>7. EntriesNotTooGood'
    <3> SUFFICES ASSUME Reopen, NEW l \in DOMAIN open, NEW u \in State, Listed(open, l, u)
                 PROVE  l[1] >= node'[u].g + task.h[u]
      BY <2>1 DEF EntriesNotTooGood, Reopen
    <3>1. l[1] >= node[u].g + task.h[u] /\ Reached(u)
      BY <1>1 DEF EntriesInv, EntriesNotTooGood
    <3>2. OpenTypeOK /\ IsTask(task) /\ node \in [State -> Node] /\ DeadEnd \in Nat
      BY <1>1, SearchAssumption DEF TypeOK
    <3>3. l[1] \in Int /\ node[u].g \in Int /\ node'[u].g \in Int /\ task.h[u] \in Int
      BY <2>2, <3>2 DEF OpenTypeOK, Node, IsTask
    <3>4. node'[u].g <= node[u].g
      BY <2>3, <2>4, <3>1, <3>3
    <3> QED BY <3>1, <3>3, <3>4
  <2> QED BY <2>1, <2>5, <2>6, <2>7 DEF EntriesInv, Reached, IsLazy
<1>6. ASSUME NEW o \in todo, ExpandPush(o)
      PROVE  OpenInv'
  <2> DEFINE t == task.succ[o][cur.id]
             g == cur.g + task.cost[o]
  <2>1. NextOp(o) /\ UNCHANGED <<task, hcur>> /\ node' = [node EXCEPT ![t] = ReachedFrom(o, "OPEN")]
        /\ open' = OpenPush(Key(g, SuccessorH(t)), t) /\ ~SkipsSuccessor(t, g)
    BY <1>6 DEF ExpandPush
  <2>2. t \in State /\ g \in Int /\ SuccessorH(t) \in 0..DeadEnd /\ node' \in [State -> Node]
    BY <1>1, <2>1, SuccessorFacts, ReachedFromType DEF LoopOK, NextOp
  <2>3. /\ node'[t].status = "OPEN" /\ node'[t].g = g
        /\ \A u \in State \ {t} : node'[u] = node[u]
    BY <1>1, <2>1, <2>2 DEF TypeOK, ReachedFrom
  <2>4. Reached(t) => g <= node[t].g
    BY <1>1, <2>1, <2>2 DEF SkipsSuccessor, HasBetter, Reached, TypeOK, Node
  <2>5. Reopen => SuccessorH(t) = task.h[t]
    BY DEF Reopen, IsLazy, SuccessorH
  <2>6. EntriesInv'
    BY <1>1, <2>1, <2>2, <2>3, <2>4, <2>5, PushKeepsEntries
  <2> QED BY <2>1, <2>6 DEF IsLazy
<1>7. CASE InitAvoided \/ StepEmpty \/ ExpandEnd \/ Abort \/ ExtractPlan
  <2>1. UNCHANGED <<task, node, open, hcur>>
    BY <1>7 DEF InitAvoided, StepEmpty, ExpandEnd, Abort, ExtractPlan, Extract, Backtrack, LoadPlan
  <2> QED BY <1>2, <2>1
<1>8. ASSUME NEW o \in todo, ExpandSkip(o) PROVE OpenInv'
  BY <1>2, <1>8 DEF ExpandSkip
<1>9. CASE UNCHANGED vars
  BY <1>2, <1>9 DEF vars
<1> QED
  BY <1>3, <1>4, <1>5, <1>6, <1>7, <1>8, <1>9 DEF Next, InitStep, Step

LEMMA OpenInvariant == Spec => [](SearchInv /\ OpenInv)
<1>1. Init => OpenInv
  BY InitOpen
<1>2. SearchInv /\ OpenInv /\ [Next]_vars => OpenInv'
  BY StepOpen
<1> QED BY <1>1, <1>2, SearchInvariant, PTL DEF Spec

\* No open node is lost, whatever entries of it are outdated.
THEOREM OpenListCorrect == Spec => []OpenListed
<1>1. OpenInv => OpenListed
  BY DEF OpenInv, EntriesInv
<1> QED BY <1>1, OpenInvariant, PTL

\* In A* no entry promises less than the node it leads to has.
THEOREM EntriesCorrect == Spec => []EntriesNotTooGood
<1>1. OpenInv => EntriesNotTooGood
  BY DEF OpenInv, EntriesInv
<1> QED BY <1>1, OpenInvariant, PTL
=============================================================================
