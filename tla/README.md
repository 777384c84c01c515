# cpddl in TLA+

cpddl is a C library and a set of programs for classical planning: it reads a
planning task in PDDL, grounds and prunes it, computes heuristics and searches
for a plan.  This directory holds models of the parts of it that are hard to
test, the TLC configurations that check them on small tasks, and proofs of
what holds for every task.

    BestFirstSearch        A*, greedy and lazy search on its open list and state space
    SearchOptimality       what the search promises about every path of its task
    BestFirstSearchProofs  types, search tree and open list of BestFirstSearch, for TLAPS
    SearchAnswerProofs     its expansions, goals and plans
    SearchOptimalityProofs that its plans are optimal and it is complete
    Subprocess             an external program run on pipes with a time limit
    SubprocessProofs       its pipes, bytes, signals and end
    KeyedQueue             what a priority queue promises
    PriorityQueue          buckets, pairing heap and the switch between them
    PriorityQueueProofs    that PriorityQueue implements KeyedQueue
    LMCut                  the LM-Cut heuristic, on a KeyedQueue
    LMCutProofs            that its cuts are landmarks and its estimates admissible
    SymbolicSearch         uniform-cost search on sets of states, in two directions
    SymbolicSearchProofs   that its layers are exact and its plans cheapest
    CriticalPath           h^2 mutexes, forward and backward, and disambiguation
    CriticalPathProofs     that h^2 excludes nothing it must not, and all it can
    MCTasks                planning tasks for TLC
    MCSearch, MCOptimality, MCSubprocess, MCPriorityQueue, MCLMCut,
    MCSymbolicSearch, MCCriticalPath         the modules TLC runs

`PROJECT.json` lists the components, the runs, the source lines of every
definition, the hazards and the findings.

## The system

The library has no threads.  What is hard about it is long sequences of
updates of shared tables (search nodes, open lists, fact values, sets of
pairs) in which every entry is read long after it was written, and the few
places where it meets other processes.

| component | state | operations | hard behaviour | what makes it correct |
|---|---|---|---|---|
| best-first search (`search_bfs.c`) | search nodes, open list, `cur_node`, the goal | `InitStep`, `Step`, `ExtractPlan` | outdated entries, reopening, dead ends found late, goals found early, aborts | the search tree, no open node lost, plans are plans, optimality, "unsolvable" is right |
| open list (`_open_list_splaytree.c`) | splay tree of FIFOs | push, pop | keys of one or two costs, equal keys | least key first, FIFO among equals |
| state space (`fdr_state_space.c`, `_pool`, `_packer`) | packed states, nodes | insert, get, set | identity of states | equal states, equal identifiers |
| lifted search (`lifted_search.c`) | the same, on sets of atoms | the same | actions made on the fly, plan read back without operators | as above |
| heuristics (`hmax.c`, `hadd.c`, `hff.c`, `lm_cut.c`, `pot*.c`) | values of facts, counters of operators | evaluate | counters that must reach zero, incremental updates | least fixpoints; admissibility |
| priority queues (`pq.c`, `pairheap.c`) | buckets, or a heap | push, pop, update | the change from one to the other | least key first |
| mutexes (`h1.c`, `h2.c`, `h3.c`, `mutex_pair.c`, `mgroup.c`, `disambiguation.c`) | sets of facts, pairs, triples | fixpoints, pruning | pruning feeds back into the fixpoint | nothing reachable is called unreachable |
| datalog (`datalog.c`) and grounders | relations, weights | fixpoints, joins | semi-naive evaluation | the least model |
| symbolic search (`symbolic_task.c`) | BDDs of states by cost | forward and backward layers | two frontiers that meet | the first plan accepted is optimal |
| tasks and pruning (`fdr*.c`, `strips*.c`, `irrelevance.c`, ...) | tasks | translations | order of prunings | plans are preserved |
| external programs (`subprocess.c`) | pipes, signal mask, a child | run, feed, drain, wait | two processes, a clock, signals | nothing lost, nothing left, always returns |
| front end, networks, solvers, containers, logging | | | | not modelled, see below |

The drivers (`bin/main.c`, `bin/lifted_planner.c`, `asnets.c`) call
`pddlSearchInitStep` once, `pddlSearchStep` while it returns `CONT`, and
`pddlSearchExtractPlan` after `FOUND`; between two steps they may give up.
The search asks the heuristic and the operator tree for data and keeps its own
nodes in the state space by identifier.  `cp-minizinc.c`, `datalog.c` and
`asnets.c` run external programs through `pddlExecvp`.

## Best-first search

`BestFirstSearch` is `search_bfs.c` with the open list and the state space it
uses.  `node` is the table of search nodes, `open` the ordered map from keys to
FIFOs, `cur` the copy `cur_node`, `todo` and `hcur` the local variables of
`bfsStep`, `goal` and `plan` the structs of those names and `last_f` the field
`last_f_value` of the statistics.  The body of
the loop over the applicable operators is an action of its own (`ExpandSkip`,
`ExpandDeadEnd`, `ExpandPush`, by what `bfsInsertNextState` finds, then
`ExpandEnd`), so that the invariants hold in the middle of an expansion, when
nodes are rewritten.  What `bfsStep` does before the loop is one action per way
out: `StepEmpty`, `StepSkip`, `StepAvoid`, `StepGoal`, `StepDeadEnd`,
`StepExpand`.  `InitAvoided` and `InitPushed` are `bfsInitStep`; `Extract`,
`Backtrack` and `LoadPlan` are the plan read back along the parents; `Abort` is
the driver that gives up.

A task is data: partial functions for the operators, costs, goals, states to
avoid, estimates.  So a theorem about `Tasks` is about every task and every
heuristic, admissible or not.  A state stands for its identifier.  Costs are
unbounded integers.  The splay tree is the map it implements.

`SearchOptimality` adds a rival: it walks any path of the task that avoids the
states to avoid, and the answer of the search is compared with where it is and
what it paid.  A task also gives lower bounds `bound` of the cost of reaching a
goal, which say what an admissible heuristic is; in the runs they are the exact
costs, which TLC checks (`ExactAssumption`).  The rival moves once the
search has ended; the two do not touch each other.

### Runs

| run | tasks | checks |
|---|---|---|
| `search_safety` | five graphs (detours, a diamond, free cycles, a split), all estimates over three values, three algorithms | the search tree, the open list, expansions, the plan and its cost; every search ends, also where cycles cost nothing |
| `search_optimality` | the same, with exact bounds | A* is optimal for every admissible estimate; FOUND and UNSOLVABLE are right; with a consistent estimate the f-values of the expanded nodes never drop |

Five states and three operators are enough for a node that is reached, closed,
reopened and has a descendant that is closed meanwhile, for an outdated entry
between two current ones, and for a goal behind all of it.  Estimates take
three values: nothing, more than any path costs, and a dead end.  The rival
stops at cost 9 (`MaxDist`), above every optimal plan of these tasks.  With the
definitions replaced by the mutants next to them each property fails on the
same tasks.

`FairSpec` has weak fairness of the driver's calls: the drivers are loops with
nothing else to do.  `Abort` is not fair, so termination does not rest on it.
Deadlock is not checked, since a search that is done does nothing more.

Of the statistics only `last_f_value` is kept (`last_f`), the f-value of the node
closed last: `ConsistentLayers` is about it.  The counters are left out, as nothing
but log lines reads them.  In a greedy search `goal_g_value` is the g-value of the
node whose successor is the goal, as in the code.

### Proofs

`BestFirstSearchProofs` proves, for every set of tasks, states and operators
that satisfies `SearchAssumption` (operators are numbers, `NoState` and `NoOp`
are none of their kind, every task is well formed):

- `TypeCorrect`: `TypeOK` always holds.  By itself it is not inductive: the
  operators in `todo` must be applicable in `cur` for the successor to be a
  state (`LoopOK`), and a generated goal is a state.
- `TreeCorrect` (`SearchTree`) and `CurCorrect` (`CurNotStale`), from `TreeInv`.
  The two need each other: a child's g-value bounds its parent's only because
  the copy the child was reached from is not stale; the copy is not stale
  because an insertion into a closed node needs a strictly smaller g-value,
  which no path through the node itself has.  `NodeMoves` sums up what a step
  may do to the nodes (nothing, close one, add the root, rewrite one from
  `cur`), so that each case is treated once.
- `OpenListCorrect` (`OpenListed`) and `EntriesCorrect` (`EntriesNotTooGood`),
  from `OpenInv`, on top of `TreeInv`.  `PopListed` and `PushListed` say what
  the operations of the open list do to its entries; the invariant adds that
  every entry belongs to a node that was reached, without which a node reached
  for the first time could be promised too little.

`SearchAnswerProofs` builds on it, from the same assumption:

- `ExpansionsComplete` (`SuccessorsReached`), from `ExpandInv`, which says it of
  the operators a node was expanded with so far, the expansion under way
  included.  `NodesImprove` (g-values never grow) keeps it when successors are
  reached again, and a reopened node leaves `Expanded` until it is expanded anew.
- `GreedyCorrect` (`GreedyStops`), from `GoalInv`: while a search goes on a greedy
  one has reached no goal state and A* has closed none but dead ends.
- `PlanCorrectness` (`PlanCorrect`).  The parents are acyclic; as induction along
  them is out of the prover's reach, `Acyclic` says it of sets: no set of nodes
  holds the parents of all its nodes.  Redirecting a node to `cur` keeps this:
  in a set that violated it, the nodes with a g-value no larger than that of
  `cur` would be such a set before.  `PathInv` is what `Backtrack` has read.
- `PlanCostCorrect` (`PlanCost`).  When A* reopens a node the g-values below it
  stay too large until it is expanded anew, so the cost that is read from the
  goal is right only because the goal is taken from the open list later.  That
  needs nothing of the estimates: `OrderInv` says that an open node promises less
  than all open nodes below it, the goal included.  It is kept because of each
  closed node either the open nodes below it promise no less than the node does
  (`Late`), or all other open nodes do (`Early`); when such a node gets a better
  parent, that parent is not below it.  `Below` is the least set that holds the
  children of what it holds.  With the goal found no node above it is open
  (`ClearInv`), so all were expanded and every g-value of the plan is the one of
  its parent and the operator.  `OpsCostIs` turns these differences into the sum:
  two functions that grow alike have no first place where they differ, which is
  how the least element of a set of numbers stands in for induction.

`SearchOptimalityProofs` proves what `SearchOptimality` states, for every task
whose bounds satisfy `OptimalityAssumption` and for every `MaxDist`:

- `AStarCorrect` (`AStarBeatsRival`).  `FoundInv`: at the goal, no open node
  promises less (`LeastKey`, from `OpenListed` and `EntriesNotTooGood`).  Then
  `RivalInv`: wherever the rival walks, it is at an expanded node it did not reach
  cheaper than A*, or what it has paid and still has to pay is at least the cost
  of the goal, or it can reach no goal.
- `UnsolvableCorrect`: the same argument with the open list empty.
- `AStarOptimality` (`AStarOptimal`) and `Completeness` (`Complete`) also assume
  `ExactAssumption`.  It characterises the exact costs by sets again: any set of
  states that can reach a goal is left by an operator that lies on a cheapest
  path.  `RootBound` follows the parents from the goal to the root,
  `PathLeavesExpanded` such a path from the root to a node not expanded.
- `LayersCorrect` (`ConsistentLayers`), from `LayerInv`: no key, and not the
  f-value of `cur`, is below the f-value taken last.

Model-checked only: `Termination`, as fairness is beyond the prover.

## External programs

`Subprocess` is `pddlExecvpLimits`.  The parent's actions are the steps of the
code between which the child, the clock or a failure can come: each `pipe()`
and its failure, `fork()`, the block of SIGPIPE and its failure, `poll()` with
the snapshot it returns, the write that blocks byte by byte, the reads, the
timeout computed anew, the kill, the wait.  `fds` are the pipes the parent has
its own end of open, `spare` those it has the child's end of open, too.  The
child is any program over reads, writes, closes, a crash and a hang; it, the
signals and the clock are the environment.  Bytes are numbered, so that
`InputInOrder` and `OutputInOrder` see a lost or repeated one.

The clock counts half milliseconds and goes on at any time of the call; the
time limit is a number of them.  `timelimit` is what the code computes,
`ceil()` of the remaining time in milliseconds, and `poll()` waits that long from
`polled` on, or for ever if it is negative: so rounding the other way would be
seen (`KilledOnlyLate`), and so is a limit that passes outside `poll()`
(`TimeLimitKept`).

A call has two marks for what may happen to the process.  `stops`: it may be
stopped and continued while it blocks, which cuts a `write()` short on Linux.
`handler`: signals may be handled, and the calls they interrupt are not
restarted: `poll()` ends the loop, `write()` returns a part of its bytes or
EINTR (POSIX allows both), `waitpid()` returns without a status.

| run | calls | checks |
|---|---|---|
| `subprocess_safety` | every program of up to three steps, inputs smaller and larger than a pipe, with and without limits, stops and handlers | data, descriptors, kills; the call returns for programs that end, if the outputs or the input fit the pipes |
| `subprocess_filter` | a filter, with an input larger than the pipes | finding: deadlock |
| `subprocess_hang` | a program that writes and hangs | finding: the time limit is lost when it passes outside `poll()` |
| `subprocess_stopped` | the process is stopped and continued, or handles a signal, during a write | finding: the start of the input is sent again |
| `subprocess_status` | the process handles a signal while it waits | finding: the status is that of an uninitialised variable |

`InputKept` says that `InputInOrder` holds unless a stop or a handler may cut a
`write()` short; `subprocess_stopped` shows what happens if one does.
`NothingLeft` excepts one way out, the return after a failing `sigprocmask()`
(`subprocess.c:239`): there the code leaves both ends of every pipe open.

Pipes hold two bytes (`Capacity`): inputs of three bytes and outputs of three
do not fit, and a read can take a part of what is there.  Limits are two and
three half milliseconds, one that is a whole number of milliseconds and one
that is not, and the clock stops two later (`Horizon`): by then no timeout is
left to end and every new one is negative, so that nothing depends on it.
Fairness is weak fairness of parent, child and clock: the operating system
schedules both.

Left out: a failing `fork()`, which ends the process; the signal mask, which the
last `sigprocmask()` blocks once more (SIG_BLOCK, `subprocess.c:446`) where it
means to restore it, so that SIGPIPE stays blocked after every call; the failure
of that `sigprocmask()`, which changes the return value only; a time-out of a call with
`status` NULL; a `usleep()` cut short; the rounding of the timer's own
numbers; grandchildren that keep a pipe open; `pddlForkSharedMem` and
`pddlForkPipe` (without callers); the memory limit (a crash of the child).

### Proofs

`SubprocessProofs` proves the safety properties from `SubprocessAssumption`
alone: for every program, every input, every time limit and every size of a
pipe.

| theorem | invariant, and why it is needed |
|---|---|
| `TypeCorrect` | `TypeOK` is inductive |
| `NothingIsLeft` | `EndInv`: the place in the code tells which pipes can be there when a `pipe()` fails, when the two ends are open together, whether there is a child and whether it was reaped |
| `OutputsInOrder` | `OutputData`: what was read and what the pipe holds are the bytes the child has written, numbered through |
| `OutputsComplete` | `OutputClosed`: a hangup in the snapshot of `poll()` is still one when the parent acts on it, and with nothing to read beside it nothing was written since; the parent closes only outputs that are drained, and drained outputs stay so |
| `KilledLate` | `LimitInv`: a timeout that is not negative, counted from when it was computed, does not end before the limit (`CeilBound`), so the signals come after it; what is left of the program is a part of it, so that a crash was in it from the start; with `OutputClosed`, a child meets a pipe without a reader only after the call |
| `InputsInOrder` | `InputInv`, of a process whose `write()` nothing cuts short: while the child has its end open there is a single `write()` of the whole buffer, not begun, short of what was not given, or over |

`InputsInOrder` needs the premise of `InputKept`, which no invariant can do
without: `subprocess_stopped` is the counterexample.

## Priority queues

`KeyedQueue` is what `pddl/pq.h` promises: elements with keys, and a pop that
returns one with the lowest.  `PriorityQueue` is `pq.c` with `pairheap.c`: the
array of buckets with its positions, counter and `lowest_key`; the heap as its
list of roots and the parent of every other node; the move of all elements at
the first key that has no bucket.  A pop from the heap is taken apart into the
melds of its two passes (`FirstPairing`, `SecondPairing`), so that the heap is
looked at in the middle of them.  `IsKeyedQueue` is the refinement: the keys of
the elements held anywhere are `keyOf`.

`pq_safety` runs four elements, keys 0 to 3 and two buckets: keys on both sides
of the limit, buckets with an element in the middle, and a heap that is two
levels deep and is consolidated with an odd and an even number of roots.  The
elements are symmetric.

`PriorityQueueProofs` proves for any finite set of elements, any keys and any
number of buckets:

- `QueueTypeCorrect` and `QueueWellFormed`: `TypeOK /\ WellFormed`.  `WellFormed` is inductive: places
  known, nothing below `lowest_key`, the counter right, one structure in use, no
  node in two lists, the heap order, and `Rooted`: every set of nodes has one
  whose parent is outside, which says that nobody is below itself without a
  recursive definition of "below".
- `QueueRefines`: `Spec => IsKeyedQueue`.  Every step is one of `KeyedQueue` or
  none.  That the root left at the end of a consolidation has the lowest key
  follows from `Rooted`, applied to the set of nodes with a lower key.

`pq.h:36` says that a key without a bucket "will end up in program termination";
the code moves to the heap instead, and never back.

## LM-Cut

`LMCut` is `lm_cut.c`: the full h^max (`Start`, `Pop`, `VisitFull`, `EndFull`),
a cut (`Cut`: goal zone, front, costs lowered, effects queued) and the
incremental h^max (`Pop`, `VisitInc`, `EndInc`) until the goal costs nothing
(`Finish`).  The facts wait in a `KeyedQueue`, so ties come out in any order.
One structure serves call after call for any states of its task.

`lmcut_safety` runs 350 tasks on four facts, with up to three of ten operators
(free ones, a free cycle, joins, one without precondition), for every state and
every order of ties.  The estimates are h^max for the current costs before
every cut (`IncrementalIsFull`, against a definition by inequalities and paid
facts); each cut is a landmark; the estimate is at most the cost of any relaxed
plan; the answer is a dead end or zero exactly if it should be; and every call
returns, with weak fairness of `Step`, the code of the call itself.
Left out: landmarks handed in (no caller does), and the other heuristics that
share the structure of h^max.  `Inf` and `DeadEnd` stand for `INT_MAX` and
`PDDL_COST_DEAD_END`.

### Proofs

`LMCutProofs` proves every safety property of the run for all tasks, states and
sequences of calls, and for every order of ties.  It assumes what
`TaskAssumption` says: facts and operators fit together, the costs of all
operators together are below `Inf` and `DeadEnd`, so no estimate overflows an
`int`, and a task has a goal.  Without a goal the artificial operator `OpGoal`
would have no precondition, no fact would ever visit it, and every state would
be called a dead end.

| theorem | property |
|---|---|
| `LMCutTypeCorrect` | `TypeOK` |
| `IncrementalHMax` | `IncrementalIsFull` |
| `CutsLandmarks` | `CutsAreLandmarks` |
| `LMCutAdmissible` | `Admissible` |
| `LMCutAnswers` | `AnswerRight` |

The invariant `Inv` has these parts:

- `JustOK`: every set of reached facts outside the state has one whose value is
  paid by an operator with preconditions outside of the set.  It takes the place
  of an order in which the facts were reached, and is kept by every offer: a fact
  that got cheaper is justified by the operator that offered it, because what an
  operator costs together with its dearest precondition never grows
  (`JustStep`, `JustNext`).
- `SuppOK`: an operator has a supporter as soon as none of its preconditions is
  missing.  What the supporter is taken to cost is enough for all preconditions,
  and exact unless the supporter waits in the queue or is the fact at work.
- `QueueOK`: a fact waits with its estimate as key.
- `FullOK`, of the full computation: facts come in the order of their
  estimates, `unsat` counts the preconditions to come, and no estimate is above
  the costs of the operators used so far, so none reaches `Inf`.
- `CutOK`: each cut so far is a landmark, and for every relaxed plan the estimate
  and what the plan still costs are together at most what it cost at first.
- `DoneOK`: what the answers say.

With empty queue and nothing to visit these give `IsHMax`.  A cut is a landmark
because the facts that a relaxed plan without its operators reaches can be
followed until the first one in the goal zone (`ZoneFacts`, `FrontFacts`,
`OutOfReach`); it is not empty and costs something because the goal does.
Costs are counted as units, pairs of an operator and a number up to its cost, so
that the sum over a relaxed plan is the size of a set, and no induction over the
operators is needed (`UnitsAdd`, `UnitsLess`, `CutCosts`).  `Terminates` stays
with TLC.

## Symbolic search

`SymbolicSearch` is `symbolic_task.c` with `symbolic_state.c`: nodes with a cost
and a set of states, open nodes in the order of cost, closed nodes; a step pops
a node, takes out what is closed, looks for the goal and for closed or open
nodes of the other direction, closes it and expands it one transition relation
at a time.  Operators of cost 0 count beside the cost, as in `pddl_cost_t`.  The
plan is traced back through merged nodes, one edge at a time, with any state the
BDD library may pick.  A backward step of a bidirectional search may run out of
time in any of its expansions.  The estimates that choose the next direction are
left open, so every order of the two directions is checked.

`symbolic_safety` runs 1276 tasks of five states in all three modes, with time
limits.  Layers are exact (`ClosedExact`), the two nodes where the halves of the
best plan meet go on sharing a state although closed states are taken out of
them (`MeetingHolds`), the plan is a plan, is a cheapest one, "does not exist" is
said rightly even after a time-out, and the search ends under weak fairness of
`Next`, a sequential loop.  `symbolic_limit` is the one thing that does not
hold: after a backward step ran out of time the plan need not be a cheapest one
(`OptimalAfterLimit`), as the node it was expanding is lost while the criterion
for stopping still relies on the backward open list.
`searchPrepareNext` is taken apart by idea: the nodes that keep a state
(`Alive`), those it takes off the open list (`Out`), the cheapest of them that
keep one (`Top`), and what they become (`Stripped`, `MergedTop`).  Costs are
counted with the operators of cost 0 beside, and `PlanCost` counts both.
Left out: potential heuristics, goal splitting, mutex constraints, the encoding
of states as BDDs and the order of their variables.

### Proofs

`SymbolicSearchProofs` proves every safety property of `symbolic_safety` for all
tasks, all modes, every order of the directions, wherever backward steps run out
of time.

| theorem | property |
|---|---|
| `SymbolicTypeCorrect` | `TypeOK` |
| `LayersExact` | `ClosedExact` |
| `HalvesMeet` | `MeetingHolds` |
| `SymbolicPlanCorrect` | `PlanCorrect` |
| `SymbolicAnswer` | `AnswerRight` |

It assumes `TaskAssumption`.  A task brings the costs of cheapest walks in both
directions (`shortest`), which nothing in the search reads.  `AreShortest`
says what they are without a recursion on walks: no arc leads to a state more
cheaply than its cost, and a state that is no source has an arc that leads to it
for exactly its cost.  As every arc costs something, only the true costs satisfy
this.  TLC computes them walk by walk for the tasks of the run and evaluates
`AreShortest` on each.  `CostsFit` says that two walks and an operator together
cost less than `pddl_cost_max`, which the code takes for "no plan yet".

`SymbolicInductive` states the invariant `Inv`.  Its parts, and what they are for:

- `NodesOK`: where a node comes from.  It is a root, or its states are in the
  image of its parent by one relation, or each of its states is in one of the
  nodes it was merged from; and no state costs more than its node.  So the trace
  of a plan always finds a predecessor, although states closed meanwhile were
  taken out of open nodes: parents are not open any more (`Settled`), and only
  open nodes shrink.
- `OpenOK` and `Ready`: in a direction that may step, one open node is cheapest,
  none of its states is closed, and open nodes cost more than closed ones.
- `HandOK`, `ClosedOK`: states of the node at work and of closed nodes have
  exactly its cost, and none is a goal of the direction.
- `FrontOK`: what a closed node leads to is closed, or open at no more than that
  cost, or costs at least the bound (`Followed`).  So a walk that leaves the closed nodes
  leaves them through the open list, which makes the cheapest open node exact and
  proves "does not exist".  After a time-out this is lost for the backward
  direction; what is left is `Lost`, an open node cheap enough for the driver to
  go on, without which "does not exist" could be said of a task with a plan.
- `SeenOK`: closed nodes of the two directions that share a state (`Seen`) or
  are one arc apart (`Bridged`) have lowered the bound to what they allow.  A
  cheapest plan has a last state closed forward; the next one is closed backward,
  or the cheapest open nodes already cost the bound.
- `MeetOK`: one of the two nodes that meet is closed, so it does not shrink, and
  a shared state that was taken out of the other one would have been closed there
  at a lower cost, and that would have lowered the bound (`SeenOK`).
- `PlanOK`, `TraceOK`: the edges traced so far fit together, and what they cost
  with what is left to trace is the cost of a cheapest plan.
- `EndOK`: the extraction never panics, and "does not exist" is right.

The cost of a plan is the size of a set of units, as with LM-Cut, so that no
induction over the plan is needed.  `AnswerRight` does not claim optimality after
a time-out; `symbolic_limit` shows that it cannot.  `Terminates` stays with TLC.

## Critical-path mutexes

`CriticalPath` is `h2.c` with the part of `disambiguation.c` that it calls.
`mark`, `opMark` and `applied` are the tables `fact`, `op` and `op_fact`; `fwPre`
and `bwOp` the copies of the operators that the runs rewrite.  `StartFw` and
`StartBw` are the preparations of a run in the loop of `pddlH2FwBw` (initial
pairs, operators updated, table emptied), `Apply` is one operator of a sweep,
`SweepAgain` and `EndRun` the loop of sweeps and what is concluded from it,
`OutOfTime` either look at the clock.  `Allowed` gives the fixpoint of a
disambiguation as the largest stable set of facts.  `mode` tells `pddlH2`, which
ends after one forward run, from `pddlH2FwBw`.

`h2_safety` runs 540 tasks: three variables of two values, and one of three with
one of two, up to three operators, with and without mutexes and pruned operators
known beforehand.  In them preconditions and goals get extended, operators are
pruned by each way, mutexes appear in both directions, and the forward run is
repeated after the backward one.  `Sound` is checked in every state, so wherever
the time runs out; `FwExact` compares the forward run with h^2 by definition;
`Terminates` holds under weak fairness of `Next`, as the loop has nothing to
wait for.

`CriticalPathProofs` proves, for any finite set of facts and any tasks that
satisfy `TasksAssumption` (operators and states fit together; in reachable states
exactly one fact of each group holds, and what is known beforehand is right):

- `H2Types` (`TypeOK`).
- `H2Sound` (`Sound`): no pair of a state that matters is ever a mutex and no
  operator used there is pruned.  These states are the reachable ones, and in
  `fwbw` the reachable ones from which the goal can be reached.  A pair becomes
  a mutex only when a run ends, and by then the states whose pairs are reached
  must be closed under the operators of that direction.  So the invariant `IInv`
  adds: `OpSound`, that extended preconditions hold wherever the operator is
  used and deletes of a backward operator never hold before it; `Rested`, that no
  operator is marked as reached between two runs; and `SweepInv`, that a sweep
  has the initial pairs and has seen all that `applied` remembers, so that a
  sweep without a new pair leaves a closed set.  The closed set is put into the
  definitions of `Reachable` and `Solvable`, which take the place of an
  induction on paths.
- `H2Exact`: when the forward run ends in time, the pairs that are not mutex are
  the least closed set of pairs, however the operators are ordered.
- `FwExactCorrect` (`FwExact`): that set is the one `H2` computes from the
  definition, round by round.  `RoundsExist` shows that the rounds are defined,
  `H2Least` that as many as there are pairs reach the least closed set, because a
  round that adds no pair is followed by none that does; both look at the first
  round that would be an exception.

Left out: the fallback when the matrix `op_fact` cannot be allocated, facts known
to be unreachable beforehand, mutex groups with less than one fact in some state,
`pddlH2IsDeadEnd`, and h^1, h^3 and h^m.  What `opsUpdateBw` returns is discarded
(`h2.c:667`): an operator that it prunes does not start the forward run again,
which costs mutexes but no soundness.

## What rests on what

Proved for all values of the constants that satisfy the named assumptions: every
safety property that a run checks and that holds, of `PriorityQueue`,
`BestFirstSearch`, `SearchOptimality`, `Subprocess`, `LMCut`, `CriticalPath` and
`SymbolicSearch`.  Checked on small instances only: the liveness properties
(`Termination`, `Returns` and three of name `Terminates`), as fairness and
`ENABLED` are beyond the prover.  The runs that expect a violation show what does
not hold.

## Not modelled

Option parsing, the PDDL front end, translations between representations of
tasks, neural networks, solver adapters, containers and logging are sequential
transformations of data or input and output, without the interleavings, crashes
or limits a model is good for; `PROJECT.json` gives the reason for each.

## Plan

What is left, most important first:

1. `LiftedSearch`: the search over action instances, refining `BestFirstSearch`
   where it does the same, with its own way of reading a plan.
2. `AppOpTree`: the successor generator against applicability.
3. `Datalog`: the weighted canonical model against the least model.
4. h^max with conditional effects and h^add, on `KeyedQueue`; h^3.
5. The answers of `LMCut` over the tasks `SearchOptimality` takes its bounds from,
   so that A* with LM-cut is one specification.
