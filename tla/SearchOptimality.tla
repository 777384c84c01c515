-------------------------- MODULE SearchOptimality --------------------------
(***************************************************************************)
(* What a best-first search promises about all the plans of its task, the  *)
(* ones it never looks at included.  For the sake of the properties a task *)
(* also gives, as t.bound, a lower bound on the cost of reaching a goal    *)
(* from each state, such as the exact cost.  A rival walks from the        *)
(* initial state along any path that avoids the states to avoid.  "No path *)
(* to a goal is cheaper than the plan" then is a statement about the       *)
(* rival, and needs no definition of a path.                               *)
(***************************************************************************)
EXTENDS BestFirstSearch

CONSTANTS Infinity, \* the bound of a state no goal can be reached from
          MaxDist   \* the rival stops at this cost (bound for TLC)

\* The bound never drops by more than the cost of an operator, and is 0 at a
\* goal.  The exact costs satisfy this, and nothing above them does.
IsBound(t) ==
    /\ t.bound \in [State -> 0..Infinity]
    /\ \A s \in t.goal \ t.avoid : t.bound[s] = 0
    /\ \A o \in Op : \A s \in State :
          LET u == t.succ[o][s] IN
          u # NoState /\ s \notin t.avoid /\ u \notin t.avoid /\ t.bound[u] # Infinity =>
              t.bound[s] # Infinity /\ t.bound[s] <= t.cost[o] + t.bound[u]

\* Nor is the bound below the cost: from any set of states that can reach a goal
\* and are none, some operator leads out of the set and costs what the bound
\* drops by.
IsExact(t) ==
    \A S \in SUBSET {s \in State : s \notin t.avoid \cup t.goal /\ t.bound[s] # Infinity} :
        S # {} =>
            \E s \in S : \E o \in Op :
                LET u == t.succ[o][s] IN
                /\ u # NoState /\ u \notin t.avoid \cup S /\ t.bound[u] # Infinity
                /\ t.bound[s] = t.cost[o] + t.bound[u]

ASSUME OptimalityAssumption ==
    /\ Infinity \in Nat \ {0}
    /\ MaxDist \in Nat
    /\ \A t \in Tasks : IsBound(t)

\* What only AStarOptimal and Complete need.
ASSUME ExactAssumption == \A t \in Tasks : IsExact(t)

VARIABLES at, dist    \* where the rival is, and the cost of its path

rivalVars == <<vars, at, dist>>

RivalInit == Init /\ at = task.init /\ dist = 0

RivalMove ==
    /\ ~IsAvoid(at)
    /\ \E o \in Applicable(at) :
          /\ ~IsAvoid(task.succ[o][at])
          /\ dist + task.cost[o] <= MaxDist
          /\ at' = task.succ[o][at]
          /\ dist' = dist + task.cost[o]
    /\ UNCHANGED vars

\* The rival moves when the search has ended: as the search does not depend on
\* the rival, moving earlier gives the same paths.
RivalNext ==
    \/ Next /\ UNCHANGED <<at, dist>>
    \/ pc = "done" /\ RivalMove

RivalSpec == RivalInit /\ [][RivalNext]_rivalVars

-----------------------------------------------------------------------------
\* No estimate is above the bound: what the heuristics for optimal planning
\* promise.  A dead end is a state no goal can be reached from.
Safe == \A s \in State : task.h[s] = DeadEnd => task.bound[s] = Infinity

Admissible == Safe /\ \A s \in State : task.bound[s] # Infinity => task.h[s] <= task.bound[s]

\* The estimates never drop by more than the cost of an operator.
Consistent ==
    \A o \in Op : \A s \in State :
        LET u == task.succ[o][s] IN
        u # NoState /\ task.h[u] # DeadEnd => task.h[s] <= task.cost[o] + task.h[u]

RivalAtGoal == IsGoal(at) /\ ~IsAvoid(at)

\* A* with an admissible heuristic, consistent or not, returns a plan no path
\* to a goal beats.
AStarBeatsRival ==
    ret = "FOUND" /\ task.alg = "ASTAR" /\ Admissible /\ RivalAtGoal
        => node[goal.id].g <= dist

\* As the bounds are exact, the cost of the plan A* reads back is the optimal one.
AStarOptimal ==
    Planned /\ task.alg = "ASTAR" /\ Admissible =>
        plan.cost = task.bound[task.init]

\* As the bounds are exact, a search that is not aborted answers FOUND exactly when
\* a goal can be reached and the initial state is not to be avoided.
Complete ==
    pc = "done" /\ ret # "ABORT" /\ Safe =>
        (ret = "FOUND" <=> ~IsAvoid(task.init) /\ task.bound[task.init] # Infinity)

\* With a consistent heuristic the f-values of the nodes that A* takes from the
\* open list never drop, so that no closed node is taken up again.
ConsistentLayers ==
    [][task.alg = "ASTAR" /\ Consistent => last_f' >= last_f]_rivalVars
=============================================================================
