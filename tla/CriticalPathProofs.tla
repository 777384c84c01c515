------------------------- MODULE CriticalPathProofs -------------------------
(* The h^2 runs are sound for every task: no mutex and no pruned operator    *)
(* excludes anything that a plan may need.                                   *)
EXTENDS CriticalPath, TLAPS, FiniteSetTheorems, NaturalsInduction, WellFoundedInduction

Marks == {"none", "reached", "fw", "bw"}
BwOps == [pre : SUBSET Fact, add : SUBSET Fact, del : SUBSET Fact]

TaskInv == task \in Tasks /\ IsTask(task)

---------------------------------------------------------------------------
(* The reachable and the solvable states.                                    *)
LEMMA ReachableClosed ==
    ASSUME NEW t, IsTask(t)
    PROVE  /\ t.reachable \subseteq t.states
           /\ t.init \in t.reachable
           /\ \A s \in t.reachable, o \in OpsOf(t) :
                t.ops[o].pre \subseteq s => After(t, o, s) \in t.reachable
<1>1. t.reachable = {s \in t.states : \A C \in FwClosed(t) : s \in C}
  BY DEF IsTask, Reachable
<1>2. t.init \in t.reachable
  BY <1>1 DEF IsTask, FwClosed
<1>3. ASSUME NEW s \in t.reachable, NEW o \in OpsOf(t), t.ops[o].pre \subseteq s
      PROVE  After(t, o, s) \in t.reachable
  <2>1. After(t, o, s) \in t.states
    BY <1>1, <1>3 DEF IsTask
  <2>2. \A C \in FwClosed(t) : After(t, o, s) \in C
    BY <1>1, <1>3 DEF FwClosed
  <2> QED BY <1>1, <2>1, <2>2
<1> QED BY <1>1, <1>2, <1>3

LEMMA ReachableLeast ==
    ASSUME NEW t, IsTask(t), NEW C \in FwClosed(t)
    PROVE  t.reachable \subseteq C
BY DEF IsTask, Reachable

LEMMA SolvableClosed ==
    ASSUME NEW t, IsTask(t)
    PROVE  /\ t.solvable \subseteq t.states
           /\ \A s \in t.states : t.goal \subseteq s => s \in t.solvable
           /\ \A s \in t.states, o \in OpsOf(t) :
                t.ops[o].pre \subseteq s /\ After(t, o, s) \in t.solvable => s \in t.solvable
<1>1. t.solvable = {s \in t.states : \A C \in BwClosed(t) : s \in C}
  BY DEF IsTask, Solvable
<1>2. \A s \in t.states : t.goal \subseteq s => s \in t.solvable
  BY <1>1 DEF BwClosed
<1>3. ASSUME NEW s \in t.states, NEW o \in OpsOf(t),
             t.ops[o].pre \subseteq s, After(t, o, s) \in t.solvable
      PROVE  s \in t.solvable
  <2>1. \A C \in BwClosed(t) : s \in C
    BY <1>1, <1>3 DEF BwClosed
  <2> QED BY <1>1, <2>1
<1> QED BY <1>1, <1>2, <1>3

LEMMA SolvableLeast ==
    ASSUME NEW t, IsTask(t), NEW C \in BwClosed(t)
    PROVE  t.solvable \subseteq C
BY DEF IsTask, Solvable
---------------------------------------------------------------------------
(* Types.                                                                    *)
LEMMA OpTypes ==
    ASSUME TaskInv
    PROVE  /\ Last \in Nat
           /\ \A o \in Op : task.ops[o] \in BwOps
           /\ task.goal \subseteq Fact
           /\ task.init \subseteq Fact
<1>0. task.ops \in Seq(BwOps)
  BY DEF TaskInv, IsTask, BwOps
<1>1. Len(task.ops) \in Nat
  BY <1>0
<1>2. \A o \in Op : task.ops[o] \in BwOps
  BY <1>0 DEF Op
<1> QED BY <1>1, <1>2 DEF TaskInv, IsTask, Last

LEMMA SetReachedType ==
    ASSUME NEW m \in [Pairs -> Marks], NEW P
    PROVE  SetReached(m, P) \in [Pairs -> Marks]
BY DEF SetReached, Marks

LEMMA WithEDeletesType ==
    ASSUME NEW b \in BwOps, NEW E \in SUBSET Fact
    PROVE  /\ WithEDeletes(b, E) \in BwOps
           /\ WithEDeletes(b, E).add \cap (WithEDeletes(b, E).pre \cup WithEDeletes(b, E).del) = {}
BY DEF WithEDeletes, BwOps

LEMMA DisambiguatedType ==
    ASSUME NEW S \in SUBSET Fact
    PROVE  Disambiguated(S) \in SUBSET Fact
BY DEF Disambiguated, Extended

LEMMA EDeletesType ==
    ASSUME NEW m, NEW S
    PROVE  EDeletes(m, S) \in SUBSET Fact
BY DEF EDeletes

LEMMA InitType ==
    ASSUME Init
    PROVE  TypeOK /\ TaskInv
<1>1. TaskInv
  BY TasksAssumption DEF Init, TaskInv
<1>2. mark \in [Pairs -> Marks]
  BY DEF Init, InitMark, Marks
<1>3. ASSUME NEW o \in Op
      PROVE  /\ bwOp[o] \in BwOps
             /\ bwOp[o].add \cap (bwOp[o].pre \cup bwOp[o].del) = {}
  <2> DEFINE b == [pre |-> BwPre(o), add |-> task.ops[o].del, del |-> {}]
             E == EDeletes(InitMark, task.ops[o].pre)
  <2>1. bwOp[o] = WithEDeletes(b, E)
    BY <1>3 DEF Init, InitBw
  <2>2. b \in BwOps
    BY <1>1, <1>3, OpTypes DEF BwOps, BwPre
  <2>3. E \in SUBSET Fact
    BY EDeletesType
  <2> HIDE DEF b, E
  <2> QED BY <2>1, <2>2, <2>3, WithEDeletesType
<1>4. bwOp \in [Op -> BwOps]
  BY <1>3 DEF Init
<1>5. fwPre \in [Op -> SUBSET Fact]
  BY <1>1, OpTypes DEF Init, BwOps
<1>6. cur \in 1..(Last + 1)
  BY <1>1, OpTypes DEF Init
<1> QED BY <1>1, <1>2, <1>3, <1>4, <1>5, <1>6 DEF TypeOK, Init, Marks, BwOps

LEMMA NewOpsType ==
    ASSUME TypeOK, TaskInv
    PROVE  /\ NewFwPre \in [Op -> SUBSET Fact]
           /\ NewBwOp \in [Op -> BwOps]
           /\ \A o \in Op : NewBwOp[o].add \cap (NewBwOp[o].pre \cup NewBwOp[o].del) = {}
<1>1. ASSUME NEW o \in Op
      PROVE  NewFwPre[o] \in SUBSET Fact
  <2>1. fwPre[o] \in SUBSET Fact
    BY DEF TypeOK
  <2> QED BY <2>1, DisambiguatedType DEF NewFwPre
<1>2. ASSUME NEW o \in Op
      PROVE  /\ NewBwOp[o] \in BwOps
             /\ NewBwOp[o].add \cap (NewBwOp[o].pre \cup NewBwOp[o].del) = {}
  <2> DEFINE b == [bwOp[o] EXCEPT !.pre = Disambiguated(bwOp[o].pre)]
             E == EDeletes(mark, NewFwPre[o])
  <2>1. CASE opMark[o] = "pruned" \/ o \in FwPruned \cup BwPruned
    BY <2>1 DEF NewBwOp, TypeOK, BwOps
  <2>2. CASE ~(opMark[o] = "pruned" \/ o \in FwPruned \cup BwPruned)
    <3>1. NewBwOp[o] = WithEDeletes(b, E)
      BY <2>2 DEF NewBwOp
    <3>2. bwOp[o] \in BwOps
      BY DEF TypeOK, BwOps
    <3>3. Disambiguated(bwOp[o].pre) \in SUBSET Fact
      BY <3>2, DisambiguatedType DEF BwOps
    <3>4. b \in BwOps
      BY <3>2, <3>3 DEF BwOps
    <3>5. E \in SUBSET Fact
      BY EDeletesType
    <3> HIDE DEF b, E
    <3> QED BY <3>1, <3>4, <3>5, WithEDeletesType
  <2> QED BY <2>1, <2>2
<1> QED BY <1>1, <1>2 DEF NewFwPre, NewBwOp

LEMMA TypeStep ==
    ASSUME TypeOK, TaskInv, [Next]_vars
    PROVE  TypeOK' /\ TaskInv'
<1> USE DEF Marks
<1>0. /\ Last \in Nat
      /\ mark \in [Pairs -> Marks]
  BY OpTypes DEF TypeOK
<1>1. CASE StartFw
  <2>1. task' = task /\ Op' = Op /\ Last' = Last
    BY <1>1 DEF StartFw, Op, Last
  <2>2. mark' \in [Pairs -> Marks]
    BY <1>0, <1>1, SetReachedType DEF StartFw
  <2>3. fwPre' \in [Op -> SUBSET Fact]
    BY <1>1, NewOpsType DEF StartFw
  <2>4. opMark' \in [Op -> {"none", "reached", "pruned"}]
    BY <1>1 DEF StartFw, TypeOK
  <2>5. (updated \in BOOLEAN /\ late \in BOOLEAN /\ updateFw \in BOOLEAN /\ updateBw \in BOOLEAN)'
    BY <1>1 DEF StartFw, BeginSweeps, TypeOK
  <2>6. bwOp' = bwOp /\ mode' = mode
    BY <1>1 DEF StartFw
  <2>7. /\ pc' = "sweep" /\ dir' = "fw"
        /\ cur' \in 1..(Last + 1)
        /\ applied' \in [Op -> SUBSET Fact]
    BY <1>0, <1>1 DEF StartFw, BeginSweeps
  <2> QED BY <2>1, <2>2, <2>3, <2>4, <2>5, <2>6, <2>7 DEF TypeOK, TaskInv
<1>2. CASE StartBw
  <2>1. task' = task /\ Op' = Op /\ Last' = Last
    BY <1>2 DEF StartBw, Op, Last
  <2>2. mark' \in [Pairs -> Marks]
    BY <1>0, <1>2, SetReachedType DEF StartBw
  <2>3. fwPre' \in [Op -> SUBSET Fact]
    BY <1>2, NewOpsType DEF StartBw
  <2>4. /\ bwOp' \in [Op -> BwOps]
        /\ \A o \in Op : bwOp'[o].add \cap (bwOp'[o].pre \cup bwOp'[o].del) = {}
    BY <1>2, NewOpsType DEF StartBw
  <2>5. opMark' \in [Op -> {"none", "reached", "pruned"}]
    BY <1>2 DEF StartBw, TypeOK
  <2>6. (updated \in BOOLEAN /\ late \in BOOLEAN /\ updateFw \in BOOLEAN /\ updateBw \in BOOLEAN)'
    BY <1>2 DEF StartBw, BeginSweeps, TypeOK
  <2> QED BY <1>0, <1>2, <2>1, <2>2, <2>3, <2>4, <2>5, <2>6
          DEF StartBw, BeginSweeps, TypeOK, TaskInv, BwOps
<1>3. CASE Apply
  <2>1. task' = task /\ Op' = Op /\ Last' = Last /\ cur \in Op
    BY <1>0, <1>3 DEF Apply, Op, Last, TypeOK
  <2>2. mark' \in [Pairs -> Marks]
    BY <1>0, <1>3, SetReachedType DEF Apply
  <2>3. opMark' \in [Op -> {"none", "reached", "pruned"}]
    BY <1>3, <2>1 DEF Apply, TypeOK
  <2>4. applied' \in [Op -> SUBSET Fact]
    BY <1>3, <2>1 DEF Apply, TypeOK, NewFacts
  <2>5. cur' \in 1..(Last + 1)
    BY <1>0, <1>3 DEF Apply, TypeOK
  <2>6. (updated \in BOOLEAN /\ late \in BOOLEAN /\ updateFw \in BOOLEAN /\ updateBw \in BOOLEAN)'
    BY <1>3 DEF Apply, TypeOK, updateVars, IsNew
  <2> QED BY <1>3, <2>1, <2>2, <2>3, <2>4, <2>5, <2>6
          DEF Apply, TypeOK, TaskInv, opVars, updateVars
<1>4. CASE SweepAgain
  <2>1. task' = task /\ Op' = Op /\ Last' = Last
    BY <1>4 DEF SweepAgain, Op, Last
  <2>2. cur' \in 1..(Last + 1)
    BY <1>0, <1>4 DEF SweepAgain
  <2>3. /\ (mark' = mark) /\ (opMark' = opMark) /\ (applied' = applied)
        /\ (fwPre' = fwPre) /\ (bwOp' = bwOp)
        /\ (mode' = mode) /\ (pc' = pc) /\ (dir' = dir) /\ (updated' = FALSE)
        /\ (updateFw' = updateFw) /\ (updateBw' = updateBw) /\ (late' = late)
    BY <1>4 DEF SweepAgain, opVars, updateVars
  <2> QED BY <2>1, <2>2, <2>3 DEF TypeOK, TaskInv
<1>5. CASE EndRun
  <2>1. task' = task /\ Op' = Op /\ Last' = Last
    BY <1>5 DEF EndRun, Op, Last
  <2>2. mark' \in [Pairs -> Marks]
    BY <1>0, <1>5 DEF EndRun, TypeOK, Concluded
  <2>3. opMark' \in [Op -> {"none", "reached", "pruned"}]
    BY <1>5 DEF EndRun, TypeOK
  <2>4. (updated \in BOOLEAN /\ late \in BOOLEAN /\ updateFw \in BOOLEAN /\ updateBw \in BOOLEAN)'
    BY <1>5 DEF EndRun, TypeOK, Found
  <2>5. pc' \in {"fw", "bw"}
    BY <1>5 DEF EndRun
  <2> QED BY <1>5, <2>1, <2>2, <2>3, <2>4, <2>5 DEF EndRun, TypeOK, TaskInv, opVars
<1>6. CASE OutOfTime \/ Finish
  <2>1. task' = task /\ Op' = Op /\ Last' = Last
    BY <1>6 DEF OutOfTime, Finish, Op, Last
  <2> QED BY <1>6, <2>1 DEF OutOfTime, Finish, TypeOK, TaskInv, opVars, updateVars
<1>7. CASE UNCHANGED vars
  <2>1. task' = task /\ Op' = Op /\ Last' = Last
    BY <1>7 DEF vars, Op, Last
  <2> QED BY <1>7, <2>1 DEF vars, TypeOK, TaskInv, opVars, updateVars
<1> QED BY <1>1, <1>2, <1>3, <1>4, <1>5, <1>6, <1>7 DEF Next
---------------------------------------------------------------------------
(* The inductive invariant.  What is used of an operator stays right: in a   *)
(* step from s that a plan may go through the precondition holds in s, and   *)
(* the backward operator leads back from the state after it.                 *)
OpSound ==
    \A o \in Op, s \in task.states : Used(o, s) =>
        /\ fwPre[o] \subseteq s
        /\ bwOp[o].pre \subseteq After(task, o, s)
        /\ bwOp[o].del \cap s = {}
        /\ s \cap task.ops[o].del \subseteq bwOp[o].add

(* Between runs no operator is marked; backward runs are for pddlH2FwBw.     *)
Rested ==
    /\ pc \in {"fw", "bw"} => \A o \in Op : opMark[o] # "reached"
    /\ updateBw \/ dir = "bw" => mode = "fwbw"

IsGoalState(s) == task.goal \subseteq s

(* The pairs a run begins with are marked.                                   *)
Seeded ==
    /\ dir = "fw" => \A p \in PairsOf(task.init) : mark[p] # "none"
    /\ dir = "bw" => \A s \in task.states : Relevant(s) /\ IsGoalState(s) =>
                        \A p \in PairsOf(s) : mark[p] # "none"

(* What need not be done again has been done.                                *)
Cached ==
    \A o \in Op :
        /\ opMark[o] = "reached" => \A p \in PairsOf(Add(o)) : mark[p] # "none"
        /\ \A f \in applied[o], a \in Add(o) : mark[{a, f}] # "none"

Saturated(o) ==
    IsApplicable(o) =>
        /\ opMark[o] = "reached"
        /\ \A p \in PairsOf(Add(o)) : mark[p] # "none"
        /\ \A f \in Fact \ (Add(o) \cup Del(o)) :
              Beside(o, f) => \A a \in Add(o) : mark[{a, f}] # "none"

SweepInv ==
    pc = "sweep" => /\ Seeded
                    /\ Cached
                    /\ ~updated => \A o \in Op : o < cur => Saturated(o)

IInv == TypeOK /\ TaskInv /\ MutexSound /\ PruneSound /\ OpSound /\ Rested /\ SweepInv

---------------------------------------------------------------------------
(* States and steps that a plan may go through.                              *)
LEMMA UsedRelevant ==
    ASSUME TaskInv, NEW o \in Op, NEW s \in task.states, Used(o, s)
    PROVE  /\ Relevant(s)
           /\ After(task, o, s) \in task.states
           /\ Relevant(After(task, o, s))
<1>1. IsTask(task) /\ o \in OpsOf(task)
  BY DEF TaskInv, Op, OpsOf
<1>2. After(task, o, s) \in task.reachable
  BY <1>1, ReachableClosed DEF Used
<1>3. task.reachable \subseteq task.states
  BY <1>1, ReachableClosed
<1>4. mode = "fwbw" => s \in task.solvable
  BY <1>1, SolvableClosed DEF Used
<1> QED BY <1>2, <1>3, <1>4 DEF Used, Relevant

(* Disambiguation adds only what holds in every state that a plan may go     *)
(* through, and does not find a contradiction in part of such a state: the   *)
(* state itself is a stable set.                                             *)
LEMMA DisambiguatedSound ==
    ASSUME TaskInv, MutexSound, NEW s \in task.states, Relevant(s), NEW S \in SUBSET s
    PROVE  ~Contradictory(S) /\ Disambiguated(S) \subseteq s
<1>1. s \subseteq Fact
  BY DEF TaskInv, IsTask
<1>2. \A f, g \in s : ~IsMutex(f, g)
  BY DEF MutexSound, PairsOf, IsMutex
<1>3. \A M \in task.groups : \E h \in M : s \cap M = {h}
  BY DEF TaskInv, IsTask, Relevant
<1>4. \A f, g \in s : ~SameGroup(f, g)
  <2>1. SUFFICES ASSUME NEW f \in s, NEW g \in s, f # g,
                        NEW M \in task.groups, {f, g} \subseteq M
                 PROVE  FALSE
    BY DEF SameGroup
  <2>2. PICK h \in M : s \cap M = {h}
    BY <1>3
  <2> QED BY <2>1, <2>2
<1>5. \A f, g \in s : ~Excluded(f, g)
  BY <1>2, <1>4 DEF Excluded
<1>6. s \in SUBSET Compatible(S)
  BY <1>1, <1>5 DEF Compatible
<1>7. IsStable(S, s)
  <2>1. SUFFICES ASSUME NEW M \in OpenGroups(S), NEW f \in s
                 PROVE  \E g \in s \cap M : ~Excluded(f, g)
    BY DEF IsStable
  <2>2. PICK h \in M : s \cap M = {h}
    BY <1>3 DEF OpenGroups
  <2> QED BY <1>5, <2>2
<1>8. s \subseteq Allowed(S)
  BY <1>6, <1>7 DEF Allowed
<1>9. \A M \in OpenGroups(S) : \E h \in s : h \in M \cap Allowed(S)
  BY <1>3, <1>8 DEF OpenGroups
<1>10. ~Contradictory(S)
  BY <1>9 DEF Contradictory
<1>11. Extended(S) \subseteq s
  <2>1. SUFFICES ASSUME NEW f \in Fact, NEW M \in OpenGroups(S), M \cap Allowed(S) = {f}
                 PROVE  f \in s
    BY DEF Extended
  <2> QED BY <1>9, <2>1
<1> QED BY <1>10, <1>11 DEF Disambiguated

(* Marking pairs as reached makes no mutex.                                  *)
LEMMA SetReachedKeeps ==
    ASSUME NEW m \in [Pairs -> Marks], NEW P, NEW p \in Pairs
    PROVE  /\ IsMutexMark(SetReached(m, P)[p]) <=> IsMutexMark(m[p])
           /\ m[p] # "none" => SetReached(m, P)[p] = m[p]
           /\ p \in P => SetReached(m, P)[p] # "none"
           /\ ~(p \in P /\ m[p] = "none") => SetReached(m, P)[p] = m[p]
BY DEF SetReached, IsMutexMark, Marks

LEMMA StatePairs ==
    ASSUME TaskInv, NEW s \in task.states
    PROVE  PairsOf(s) \subseteq Pairs
BY DEF TaskInv, IsTask, PairsOf, Pairs
---------------------------------------------------------------------------
(* The initial state.                                                        *)
LEMMA InitInv ==
    ASSUME Init
    PROVE  IInv
<1>1. TypeOK /\ TaskInv
  BY InitType
<1>2. MutexSound
  <2>1. SUFFICES ASSUME NEW s \in task.states, Relevant(s), NEW p \in PairsOf(s)
                 PROVE  ~IsMutexMark(mark[p])
    BY DEF MutexSound
  <2>2. p \in Pairs /\ p \notin task.known
    BY <1>1, <2>1, StatePairs DEF TaskInv, IsTask, Relevant
  <2> QED BY <2>2 DEF Init, InitMark, IsMutexMark
<1>3. PruneSound
  <2>1. SUFFICES ASSUME NEW o \in Op, NEW s \in task.states, Used(o, s)
                 PROVE  opMark[o] # "pruned"
    BY DEF PruneSound
  <2>2. o \notin task.dead
    BY <1>1, <2>1 DEF Used, TaskInv, IsTask
  <2> QED BY <2>2 DEF Init
<1>4. OpSound
  <2>1. SUFFICES ASSUME NEW o \in Op, NEW s \in task.states, Used(o, s)
                 PROVE  /\ fwPre[o] \subseteq s
                        /\ bwOp[o].pre \subseteq After(task, o, s)
                        /\ bwOp[o].del \cap s = {}
                        /\ s \cap task.ops[o].del \subseteq bwOp[o].add
    BY DEF OpSound
  <2>2. task.ops[o].add \cap task.ops[o].del = {}
    BY <1>1 DEF TaskInv, IsTask, Op, OpsOf
  <2>3. EDeletes(InitMark, task.ops[o].pre) \cap s = {}
    <3>1. SUFFICES ASSUME NEW f \in s, NEW p \in task.ops[o].pre
                   PROVE  ~IsMutexMark(InitMark[{p, f}])
      BY DEF EDeletes
    <3>2. p \in s
      BY <2>1 DEF Used
    <3>3. {p, f} \in PairsOf(s)
      BY <3>2 DEF PairsOf
    <3>4. mark[{p, f}] = InitMark[{p, f}]
      BY DEF Init
    <3>5. Relevant(s)
      BY <1>1, <2>1, UsedRelevant
    <3> QED BY <1>2, <3>3, <3>4, <3>5 DEF MutexSound
  <2>4. /\ fwPre[o] = task.ops[o].pre
        /\ bwOp[o].pre = BwPre(o)
        /\ bwOp[o].add = task.ops[o].del \ BwPre(o)
        /\ bwOp[o].del \subseteq EDeletes(InitMark, task.ops[o].pre)
    BY DEF Init, InitBw, WithEDeletes
  <2> QED BY <2>1, <2>2, <2>3, <2>4 DEF Used, After, BwPre
<1>5. Rested /\ SweepInv
  BY DEF Init, Rested, SweepInv
<1> QED BY <1>1, <1>2, <1>3, <1>4, <1>5 DEF IInv

---------------------------------------------------------------------------
(* The beginning of a run.                                                   *)
LEMMA FwPreSound ==
    ASSUME IInv, NEW o \in Op, NEW s \in task.states, Used(o, s)
    PROVE  /\ o \notin FwPruned
           /\ NewFwPre[o] \subseteq s
<1>1. Relevant(s)
  BY UsedRelevant DEF IInv
<1>2. fwPre[o] \subseteq s
  BY DEF IInv, OpSound
<1>3. ~Contradictory(fwPre[o]) /\ Disambiguated(fwPre[o]) \subseteq s
  BY <1>1, <1>2, DisambiguatedSound DEF IInv
<1> QED BY <1>2, <1>3 DEF FwPruned, NewFwPre

LEMMA BwOpSound ==
    ASSUME IInv, NEW o \in Op, NEW s \in task.states, Used(o, s)
    PROVE  /\ o \notin BwPruned
           /\ NewBwOp[o].pre \subseteq After(task, o, s)
           /\ NewBwOp[o].del \cap s = {}
           /\ s \cap task.ops[o].del \subseteq NewBwOp[o].add
<1> DEFINE u == After(task, o, s)
           E == EDeletes(mark, NewFwPre[o])
           pre == Disambiguated(bwOp[o].pre)
<1>1. Relevant(s) /\ u \in task.states /\ Relevant(u)
  BY UsedRelevant DEF IInv
<1>2. /\ bwOp[o].pre \subseteq u
      /\ bwOp[o].del \cap s = {}
      /\ s \cap task.ops[o].del \subseteq bwOp[o].add
  BY DEF IInv, OpSound
<1>3. ~Contradictory(bwOp[o].pre) /\ pre \subseteq u
  BY <1>1, <1>2, DisambiguatedSound DEF IInv
<1>4. o \notin BwPruned
  BY <1>3 DEF BwPruned
<1>5. E \cap s = {}
  <2>1. SUFFICES ASSUME NEW f \in s, NEW p \in NewFwPre[o]
                 PROVE  ~IsMutexMark(mark[{p, f}])
    BY DEF EDeletes
  <2>2. {p, f} \in PairsOf(s)
    BY FwPreSound DEF PairsOf
  <2> QED BY <1>1, <2>2 DEF IInv, MutexSound
<1>6. pre \cap s \cap task.ops[o].del = {}
  <2>1. task.ops[o].add \cap task.ops[o].del = {}
    BY DEF IInv, TaskInv, IsTask, Op, OpsOf
  <2>2. u \cap task.ops[o].del = {}
    BY <2>1 DEF After
  <2> QED BY <1>3, <2>2
<1>7. CASE opMark[o] = "pruned" \/ o \in FwPruned \cup BwPruned
  BY <1>2, <1>4, <1>7 DEF NewBwOp
<1>8. CASE ~(opMark[o] = "pruned" \/ o \in FwPruned \cup BwPruned)
  <2>1. NewBwOp[o] = WithEDeletes([bwOp[o] EXCEPT !.pre = pre], E)
    BY <1>8 DEF NewBwOp
  <2>2. bwOp[o] \in BwOps
    BY DEF IInv, TypeOK, BwOps
  <2> HIDE DEF pre, E
  <2>3. /\ NewBwOp[o].pre = pre
        /\ NewBwOp[o].add = bwOp[o].add \ pre
        /\ NewBwOp[o].del = (bwOp[o].del \cup E) \ bwOp[o].add
    BY <2>1, <2>2 DEF WithEDeletes, BwOps
  <2> QED BY <1>2, <1>3, <1>4, <1>5, <1>6, <2>3
<1> QED BY <1>7, <1>8

(* Mutexes stay what they are as long as pairs are only marked as reached.   *)
LEMMA MutexKept ==
    ASSUME TypeOK, TaskInv, MutexSound, task' = task, mode' = mode,
           NEW P, mark' = SetReached(mark, P)
    PROVE  /\ MutexSound'
           /\ \A p \in Pairs : mark[p] # "none" => mark'[p] # "none"
           /\ \A p \in Pairs : p \in P => mark'[p] # "none"
<1>1. mark \in [Pairs -> Marks]
  BY DEF TypeOK, Marks
<1>2. ASSUME NEW s \in task.states, Relevant(s), NEW p \in PairsOf(s)
      PROVE  ~IsMutexMark(mark'[p])
  BY <1>1, <1>2, StatePairs, SetReachedKeeps DEF MutexSound
<1>3. MutexSound'
  BY <1>2 DEF MutexSound, Relevant
<1> QED BY <1>1, <1>3, SetReachedKeeps

LEMMA StartFwInv ==
    ASSUME IInv, StartFw, TypeOK', TaskInv'
    PROVE  IInv'
<1>1. /\ (task' = task) /\ (mode' = mode) /\ (bwOp' = bwOp) /\ (Op' = Op)
      /\ mark' = SetReached(mark, PairsOf(task.init))
  BY DEF StartFw, Op
<1>2. MutexSound'
  BY <1>1, MutexKept DEF IInv
<1>3. PruneSound'
  <2>1. SUFFICES ASSUME NEW o \in Op, NEW s \in task.states, Used(o, s)
                 PROVE  opMark'[o] # "pruned"
    BY <1>1 DEF PruneSound, Used
  <2>2. opMark[o] # "pruned" /\ o \notin FwPruned
    BY <2>1, FwPreSound DEF IInv, PruneSound
  <2> QED BY <2>2 DEF StartFw
<1>4. OpSound'
  <2>1. SUFFICES ASSUME NEW o \in Op, NEW s \in task.states, Used(o, s)
                 PROVE  /\ fwPre'[o] \subseteq s
                        /\ bwOp[o].pre \subseteq After(task, o, s)
                        /\ bwOp[o].del \cap s = {}
                        /\ s \cap task.ops[o].del \subseteq bwOp[o].add
    BY <1>1 DEF OpSound, Used
  <2> QED BY <2>1, FwPreSound DEF IInv, OpSound, StartFw
<1>5. Rested'
  BY <1>1 DEF StartFw, BeginSweeps, Rested, IInv
<1>6. Seeded'
  <2>1. task.init \in task.states
    BY DEF IInv, TaskInv, IsTask
  <2>2. \A p \in PairsOf(task.init) : mark'[p] # "none"
    BY <1>1, <2>1, MutexKept, StatePairs DEF IInv
  <2>3. dir' = "fw"
    BY DEF StartFw, BeginSweeps
  <2> QED BY <1>1, <2>2, <2>3 DEF Seeded
<1>7. Cached'
  <2>1. \A o \in Op : opMark'[o] # "reached" /\ applied'[o] = {}
    BY DEF StartFw, BeginSweeps, IInv, Rested
  <2> QED BY <1>1, <2>1 DEF Cached
<1>8. SweepInv'
  <2>1. ~(\E o \in Op : o < cur')
    BY OpTypes DEF StartFw, BeginSweeps, Op, IInv, Last
  <2> QED BY <1>1, <1>6, <1>7, <2>1 DEF SweepInv
<1> QED BY <1>2, <1>3, <1>4, <1>5, <1>8 DEF IInv

LEMMA StartBwInv ==
    ASSUME IInv, StartBw, TypeOK', TaskInv'
    PROVE  IInv'
<1>1. /\ (task' = task) /\ (mode' = mode) /\ (Op' = Op)
      /\ mark' = SetReached(mark, PairsOf(GoalFacts))
  BY DEF StartBw, Op
<1>2. MutexSound'
  BY <1>1, MutexKept DEF IInv
<1>3. PruneSound'
  <2>1. SUFFICES ASSUME NEW o \in Op, NEW s \in task.states, Used(o, s)
                 PROVE  opMark'[o] # "pruned"
    BY <1>1 DEF PruneSound, Used
  <2>2. opMark[o] # "pruned" /\ o \notin FwPruned \cup BwPruned
    BY <2>1, FwPreSound, BwOpSound DEF IInv, PruneSound
  <2> QED BY <2>2 DEF StartBw
<1>4. OpSound'
  <2>1. SUFFICES ASSUME NEW o \in Op, NEW s \in task.states, Used(o, s)
                 PROVE  /\ fwPre'[o] \subseteq s
                        /\ bwOp'[o].pre \subseteq After(task, o, s)
                        /\ bwOp'[o].del \cap s = {}
                        /\ s \cap task.ops[o].del \subseteq bwOp'[o].add
    BY <1>1 DEF OpSound, Used
  <2> QED BY <2>1, FwPreSound, BwOpSound DEF StartBw
<1>5. Rested'
  BY <1>1 DEF StartBw, BeginSweeps, Rested, IInv
<1>6. Seeded'
  <2>1. SUFFICES ASSUME NEW s \in task.states, Relevant(s), IsGoalState(s), NEW p \in PairsOf(s)
                 PROVE  mark'[p] # "none"
    BY <1>1 DEF Seeded, StartBw, BeginSweeps, Relevant, IsGoalState
  <2>2. Disambiguated(task.goal) \subseteq s
    BY <2>1, DisambiguatedSound DEF IsGoalState, IInv
  <2>3. \A f, g \in s : ~IsMutex(f, g)
    BY <2>1 DEF IInv, MutexSound, PairsOf, IsMutex
  <2>4. s \subseteq GoalFacts
    BY <2>2, <2>3 DEF GoalFacts, IInv, TaskInv, IsTask
  <2>5. p \in PairsOf(GoalFacts) /\ p \in Pairs
    BY <2>4, StatePairs DEF PairsOf, IInv
  <2> QED BY <1>1, <2>5, MutexKept DEF IInv
<1>7. Cached'
  <2>1. \A o \in Op : opMark'[o] # "reached" /\ applied'[o] = {}
    BY DEF StartBw, BeginSweeps, IInv, Rested
  <2> QED BY <1>1, <2>1 DEF Cached
<1>8. SweepInv'
  <2>1. ~(\E o \in Op : o < cur')
    BY OpTypes DEF StartBw, BeginSweeps, Op, IInv, Last
  <2> QED BY <1>1, <1>6, <1>7, <2>1 DEF SweepInv
<1> QED BY <1>2, <1>3, <1>4, <1>5, <1>8 DEF IInv
---------------------------------------------------------------------------
(* A sweep.                                                                  *)
LEMMA EffectTypes ==
    ASSUME TypeOK, TaskInv, NEW o \in Op
    PROVE  /\ Pre(o) \subseteq Fact
           /\ Add(o) \subseteq Fact
           /\ Del(o) \subseteq Fact
<1>1. task.ops[o] \in BwOps
  BY OpTypes
<1>2. fwPre[o] \in SUBSET Fact /\ bwOp[o] \in BwOps
  BY DEF TypeOK, BwOps
<1> QED BY <1>1, <1>2 DEF Pre, Add, Del, BwOps

(* Nothing but the marks, the cache and the position changes in a step.      *)
LEMMA ApplyKeeps ==
    ASSUME Apply
    PROVE  /\ (task' = task) /\ (mode' = mode) /\ (pc' = pc) /\ (dir' = dir)
           /\ (fwPre' = fwPre) /\ (bwOp' = bwOp) /\ (Op' = Op) /\ (Last' = Last)
           /\ (updateFw' = updateFw) /\ (updateBw' = updateBw)
           /\ \A o \in Op : (Pre(o)' = Pre(o)) /\ (Add(o)' = Add(o)) /\ (Del(o)' = Del(o))
BY DEF Apply, opVars, updateVars, Op, Last, Pre, Add, Del

LEMMA ApplyInv ==
    ASSUME IInv, Apply, TypeOK', TaskInv'
    PROVE  IInv'
<1> DEFINE P == IF IsApplicable(cur)
                THEN OwnPairs(cur) \cup Cross(Add(cur), NewFacts(cur)) ELSE {}
<1>1. /\ cur \in Op
      /\ cur' = cur + 1
      /\ pc = "sweep"
  BY OpTypes DEF Apply, Op, Last, IInv, TypeOK
<1>2. mark \in [Pairs -> Marks]
  BY DEF IInv, TypeOK, Marks
<1>3. mark' = SetReached(mark, P)
  <2>1. CASE IsApplicable(cur)
    BY <2>1 DEF Apply
  <2>2. CASE ~IsApplicable(cur)
    <3>1. SetReached(mark, {}) = mark
      BY <1>2 DEF SetReached
    <3> QED BY <2>2, <3>1 DEF Apply
  <2> QED BY <2>1, <2>2
<1>4. updated' = (updated \/ IsNew(P))
  <2>1. updated \in BOOLEAN
    BY DEF IInv, TypeOK
  <2>2. ~IsNew({})
    BY DEF IsNew
  <2> QED BY <2>1, <2>2 DEF Apply
<1>5. /\ \A o \in Op : o # cur => (opMark'[o] = opMark[o]) /\ (applied'[o] = applied[o])
      /\ IsApplicable(cur) => /\ opMark'[cur] = "reached"
                              /\ applied'[cur] = applied[cur] \cup NewFacts(cur)
      /\ ~IsApplicable(cur) => (opMark' = opMark) /\ (applied' = applied)
  BY <1>1 DEF Apply, IInv, TypeOK
<1>6. /\ MutexSound'
      /\ \A p \in Pairs : mark[p] # "none" => mark'[p] # "none"
      /\ \A p \in Pairs : p \in P => mark'[p] # "none"
  BY <1>3, ApplyKeeps, MutexKept DEF IInv
<1>7. PruneSound'
  <2>1. SUFFICES ASSUME NEW o \in Op, NEW s \in task.states, Used(o, s)
                 PROVE  opMark'[o] # "pruned"
    BY ApplyKeeps DEF PruneSound, Used
  <2>2. opMark[o] # "pruned"
    BY <2>1 DEF IInv, PruneSound
  <2> QED BY <1>5, <2>2
<1>8. OpSound'
  BY ApplyKeeps DEF IInv, OpSound, Used
<1>9. Rested'
  BY <1>1, ApplyKeeps DEF IInv, Rested
<1>10. Seeded'
  <2>1. /\ dir = "fw" => \A p \in PairsOf(task.init) : mark'[p] # "none"
        /\ dir = "bw" => \A s \in task.states : Relevant(s) /\ IsGoalState(s) =>
                            \A p \in PairsOf(s) : mark'[p] # "none"
    <3>1. task.init \in task.states
      BY DEF IInv, TaskInv, IsTask
    <3>2. Seeded
      BY <1>1 DEF IInv, SweepInv
    <3> QED BY <1>6, <3>1, <3>2, StatePairs DEF IInv, Seeded
  <2> QED BY <2>1, ApplyKeeps DEF Seeded, Relevant, IsGoalState
<1>11. ASSUME NEW o \in Op
       PROVE  /\ opMark'[o] = "reached" => \A p \in PairsOf(Add(o)) : mark'[p] # "none"
              /\ \A f \in applied'[o], a \in Add(o) : mark'[{a, f}] # "none"
  <2>1. /\ opMark[o] = "reached" => \A p \in PairsOf(Add(o)) : mark[p] # "none"
        /\ \A f \in applied[o], a \in Add(o) : mark[{a, f}] # "none"
    BY <1>1 DEF IInv, SweepInv, Cached
  <2>2. /\ PairsOf(Add(o)) \subseteq Pairs
        /\ \A f \in Fact, a \in Add(o) : {a, f} \in Pairs
    BY EffectTypes DEF IInv, PairsOf, Pairs
  <2>3. applied[o] \subseteq Fact /\ NewFacts(o) \subseteq Fact
    BY DEF IInv, TypeOK, NewFacts
  <2>4. CASE o = cur /\ IsApplicable(cur)
    <3>1. ASSUME NEW p \in PairsOf(Add(o))
          PROVE  mark'[p] # "none"
      <4>1. CASE opMark[o] = "reached"
        BY <1>6, <2>1, <2>2, <4>1
      <4>2. CASE opMark[o] # "reached"
        <5>1. p \in P
          BY <2>4, <4>2 DEF OwnPairs
        <5> QED BY <1>6, <2>2, <5>1
      <4> QED BY <4>1, <4>2
    <3>2. ASSUME NEW f \in applied'[o], NEW a \in Add(o)
          PROVE  mark'[{a, f}] # "none"
      <4>1. CASE f \in applied[o]
        BY <1>6, <2>1, <2>2, <2>3, <4>1
      <4>2. CASE f \in NewFacts(o)
        <5>1. {a, f} \in P
          BY <2>4, <4>2 DEF Cross
        <5> QED BY <1>6, <2>2, <2>3, <4>2, <5>1
      <4> QED BY <1>5, <2>4, <4>1, <4>2
    <3> QED BY <3>1, <3>2
  <2>5. CASE ~(o = cur /\ IsApplicable(cur))
    <3>1. opMark'[o] = opMark[o] /\ applied'[o] = applied[o]
      BY <1>5, <2>5
    <3> QED BY <1>6, <2>1, <2>2, <2>3, <3>1
  <2> QED BY <2>4, <2>5
<1>12. Cached'
  BY <1>11, ApplyKeeps DEF Cached
<1>13. ASSUME ~updated', NEW o \in Op, o < cur'
       PROVE  Saturated(o)'
  <2>1. ~updated /\ ~IsNew(P)
    BY <1>4, <1>13
  <2>2. mark' = mark
    BY <1>2, <1>3, <2>1 DEF SetReached, IsNew
  <2>3. CASE o = cur
    <3>1. CASE IsApplicable(cur)
      <4>1. opMark'[o] = "reached"
        BY <1>5, <2>3, <3>1
      <4>2. \A p \in PairsOf(Add(o)) : mark'[p] # "none"
        BY <1>11, <4>1
      <4>3. ASSUME NEW f \in Fact \ (Add(o) \cup Del(o)), Beside(o, f), NEW a \in Add(o)
            PROVE  mark'[{a, f}] # "none"
        <5>1. f \in applied'[o]
          BY <1>5, <2>3, <3>1, <4>3 DEF NewFacts
        <5> QED BY <1>11, <5>1
      <4>4. \A f : Beside(o, f)' <=> Beside(o, f)
        BY <2>2, ApplyKeeps DEF Beside, IsReached
      <4> QED BY <4>1, <4>2, <4>3, <4>4, ApplyKeeps DEF Saturated
    <3>2. CASE ~IsApplicable(cur)
      <4>1. ~IsApplicable(o)'
        BY <1>5, <2>2, <2>3, <3>2, ApplyKeeps DEF IsApplicable, IsReached
      <4> QED BY <4>1 DEF Saturated
    <3> QED BY <3>1, <3>2
  <2>4. CASE o # cur
    <3>1. o < cur
      BY <1>1, <1>13, <2>4 DEF Op
    <3>2. Saturated(o)
      BY <1>1, <2>1, <3>1 DEF IInv, SweepInv
    <3>3. opMark'[o] = opMark[o]
      BY <1>5, <2>4
    <3>4. IsApplicable(o)' <=> IsApplicable(o)
      BY <2>2, <3>3, ApplyKeeps DEF IsApplicable, IsReached
    <3>5. \A f : Beside(o, f)' <=> Beside(o, f)
      BY <2>2, ApplyKeeps DEF Beside, IsReached
    <3> QED BY <2>2, <3>2, <3>3, <3>4, <3>5, ApplyKeeps DEF Saturated
  <2> QED BY <2>3, <2>4
<1>14. SweepInv'
  BY <1>10, <1>12, <1>13, ApplyKeeps DEF SweepInv
<1> QED BY <1>6, <1>7, <1>8, <1>9, <1>14 DEF IInv
---------------------------------------------------------------------------
(* The end of a run: the states all of whose pairs are reached are closed    *)
(* under the steps a plan may go through.                                    *)
AllReached(s) == \A p \in PairsOf(s) : mark[p] = "reached"

Fixpoint ==
    /\ IInv
    /\ Seeded
    /\ \A o \in Op : Saturated(o)

LEMMA EndRunFixpoint ==
    ASSUME IInv, EndRun
    PROVE  Fixpoint
<1>1. \A o \in Op : o < cur
  BY OpTypes DEF EndRun, IInv, TypeOK, Op, Last
<1> QED BY <1>1 DEF EndRun, IInv, SweepInv, Fixpoint

LEMMA MarkedReached ==
    ASSUME IInv, NEW s \in task.states, Relevant(s), \A p \in PairsOf(s) : mark[p] # "none"
    PROVE  AllReached(s)
<1>1. ASSUME NEW p \in PairsOf(s)
      PROVE  mark[p] = "reached"
  <2>1. p \in Pairs
    BY StatePairs DEF IInv
  <2>2. mark[p] \in Marks
    BY <2>1 DEF IInv, TypeOK, Marks
  <2>3. ~IsMutexMark(mark[p])
    BY DEF IInv, MutexSound
  <2> QED BY <2>2, <2>3 DEF Marks, IsMutexMark
<1> QED BY <1>1 DEF AllReached

(* Forward, the pairs of a state lead to those of the state after it.        *)
LEMMA FwStep ==
    ASSUME Fixpoint, dir = "fw", NEW o \in Op, NEW s \in task.states, Used(o, s), AllReached(s)
    PROVE  /\ opMark[o] = "reached"
           /\ AllReached(After(task, o, s))
<1> DEFINE u == After(task, o, s)
<1>1. u \in task.states /\ Relevant(u) /\ s \subseteq Fact
  BY UsedRelevant DEF Fixpoint, IInv, TaskInv, IsTask
<1>2. /\ fwPre[o] \subseteq s
      /\ opMark[o] # "pruned"
  BY DEF Fixpoint, IInv, OpSound, PruneSound
<1>3. \A f, g \in s : mark[{f, g}] = "reached"
  BY DEF AllReached, PairsOf
<1>4. Pre(o) = fwPre[o] /\ Add(o) = task.ops[o].add /\ Del(o) = task.ops[o].del
  BY DEF Pre, Add, Del
<1>5. IsApplicable(o)
  BY <1>2, <1>3, <1>4 DEF IsApplicable, IsReached
<1>6. /\ opMark[o] = "reached"
      /\ \A p \in PairsOf(Add(o)) : mark[p] # "none"
      /\ \A f \in Fact \ (Add(o) \cup Del(o)) :
            Beside(o, f) => \A a \in Add(o) : mark[{a, f}] # "none"
  BY <1>5 DEF Fixpoint, Saturated
<1>7. ASSUME NEW a \in Add(o), NEW g \in u
      PROVE  mark[{a, g}] # "none"
  <2>1. CASE g \in Add(o)
    BY <1>6, <2>1 DEF PairsOf
  <2>2. CASE g \notin Add(o)
    <3>1. g \in s /\ g \in Fact \ (Add(o) \cup Del(o))
      BY <1>1, <1>4, <2>2 DEF After
    <3>2. Beside(o, g)
      BY <1>2, <1>3, <1>4, <3>1 DEF Beside, IsReached
    <3> QED BY <1>6, <3>1, <3>2
  <2> QED BY <2>1, <2>2
<1>8. ASSUME NEW f \in u, NEW g \in u
      PROVE  mark[{f, g}] # "none"
  <2>1. CASE f \in Add(o)
    BY <1>7, <2>1
  <2>2. CASE g \in Add(o)
    <3>1. {f, g} = {g, f}
      OBVIOUS
    <3> QED BY <1>7, <2>2, <3>1
  <2>3. CASE f \notin Add(o) /\ g \notin Add(o)
    BY <1>3, <1>4, <2>3 DEF After
  <2> QED BY <2>1, <2>2, <2>3
<1>9. \A p \in PairsOf(u) : mark[p] # "none"
  BY <1>8 DEF PairsOf
<1> QED BY <1>1, <1>6, <1>9, MarkedReached DEF Fixpoint

(* Backward, the pairs of the state after an operator lead to those of the   *)
(* state before: what is in s and not in the state after is added back, and  *)
(* nothing that is in s is deleted.                                          *)
LEMMA BwStep ==
    ASSUME Fixpoint, dir = "bw", NEW o \in Op, NEW s \in task.states, Used(o, s),
           AllReached(After(task, o, s))
    PROVE  /\ opMark[o] = "reached"
           /\ AllReached(s)
<1> DEFINE u == After(task, o, s)
<1>1. Relevant(s) /\ s \subseteq Fact
  BY UsedRelevant DEF Fixpoint, IInv, TaskInv, IsTask
<1>2. /\ bwOp[o].pre \subseteq u
      /\ bwOp[o].del \cap s = {}
      /\ s \cap task.ops[o].del \subseteq bwOp[o].add
      /\ opMark[o] # "pruned"
  BY DEF Fixpoint, IInv, OpSound, PruneSound
<1>3. \A f, g \in u : mark[{f, g}] = "reached"
  BY DEF AllReached, PairsOf
<1>4. Pre(o) = bwOp[o].pre /\ Add(o) = bwOp[o].add /\ Del(o) = bwOp[o].del
  BY DEF Pre, Add, Del
<1>5. IsApplicable(o)
  BY <1>2, <1>3, <1>4 DEF IsApplicable, IsReached
<1>6. /\ opMark[o] = "reached"
      /\ \A p \in PairsOf(Add(o)) : mark[p] # "none"
      /\ \A f \in Fact \ (Add(o) \cup Del(o)) :
            Beside(o, f) => \A a \in Add(o) : mark[{a, f}] # "none"
  BY <1>5 DEF Fixpoint, Saturated
<1>7. ASSUME NEW g \in s, g \notin Add(o)
      PROVE  g \in u /\ g \in Fact \ (Add(o) \cup Del(o))
  BY <1>1, <1>2, <1>4, <1>7 DEF After
<1>8. ASSUME NEW a \in Add(o), NEW g \in s
      PROVE  mark[{a, g}] # "none"
  <2>1. CASE g \in Add(o)
    BY <1>6, <2>1 DEF PairsOf
  <2>2. CASE g \notin Add(o)
    <3>1. g \in u /\ g \in Fact \ (Add(o) \cup Del(o))
      BY <1>7, <2>2
    <3>2. Beside(o, g)
      BY <1>2, <1>3, <1>4, <3>1 DEF Beside, IsReached
    <3> QED BY <1>6, <3>1, <3>2
  <2> QED BY <2>1, <2>2
<1>9. ASSUME NEW f \in s, NEW g \in s
      PROVE  mark[{f, g}] # "none"
  <2>1. CASE f \in Add(o)
    BY <1>8, <2>1
  <2>2. CASE g \in Add(o)
    <3>1. {f, g} = {g, f}
      OBVIOUS
    <3> QED BY <1>8, <2>2, <3>1
  <2>3. CASE f \notin Add(o) /\ g \notin Add(o)
    BY <1>3, <1>7, <2>3
  <2> QED BY <2>1, <2>2, <2>3
<1>10. \A p \in PairsOf(s) : mark[p] # "none"
  BY <1>9 DEF PairsOf
<1> QED BY <1>1, <1>6, <1>10, MarkedReached DEF Fixpoint

LEMMA FwClosedFixpoint ==
    ASSUME Fixpoint, dir = "fw"
    PROVE  \A s \in task.states : Relevant(s) => AllReached(s)
<1> DEFINE C == {s \in task.reachable : Relevant(s) => AllReached(s)}
<1>1. IsTask(task) /\ Op = OpsOf(task)
  BY DEF Fixpoint, IInv, TaskInv, Op, OpsOf
<1>2. /\ task.reachable \subseteq task.states
      /\ task.init \in task.reachable
      /\ \A s \in task.reachable, o \in OpsOf(task) :
            task.ops[o].pre \subseteq s => After(task, o, s) \in task.reachable
  BY <1>1, ReachableClosed
<1>3. task.init \in C
  <2>1. \A p \in PairsOf(task.init) : mark[p] # "none"
    BY DEF Fixpoint, Seeded
  <2> QED BY <1>2, <2>1, MarkedReached DEF Fixpoint
<1>4. ASSUME NEW s \in C, NEW o \in OpsOf(task), task.ops[o].pre \subseteq s
      PROVE  After(task, o, s) \in C
  <2>1. After(task, o, s) \in task.reachable
    BY <1>2, <1>4
  <2>2. ASSUME Relevant(After(task, o, s))
        PROVE  AllReached(After(task, o, s))
    <3>1. Used(o, s)
      BY <1>4, <2>2 DEF Used, Relevant
    <3>2. s \in task.states /\ o \in Op
      BY <1>1, <1>2, <1>4
    <3>3. Relevant(s)
      BY <3>1, <3>2, UsedRelevant DEF Fixpoint, IInv
    <3> QED BY <1>4, <3>1, <3>2, <3>3, FwStep
  <2> QED BY <2>1, <2>2
<1>5. C \in FwClosed(task)
  <2>1. C \in SUBSET task.states
    BY <1>2
  <2> QED BY <1>3, <1>4, <2>1 DEF FwClosed
<1>6. task.reachable \subseteq C
  BY <1>1, <1>5, ReachableLeast
<1> QED BY <1>6 DEF Relevant

LEMMA BwClosedFixpoint ==
    ASSUME Fixpoint, dir = "bw"
    PROVE  \A s \in task.states : Relevant(s) => AllReached(s)
<1> DEFINE C == {s \in task.solvable : Relevant(s) => AllReached(s)}
<1>1. IsTask(task) /\ Op = OpsOf(task) /\ mode = "fwbw"
  BY DEF Fixpoint, IInv, TaskInv, Rested, Op, OpsOf
<1>2. /\ task.solvable \subseteq task.states
      /\ \A s \in task.states : task.goal \subseteq s => s \in task.solvable
      /\ \A s \in task.states, o \in OpsOf(task) :
            task.ops[o].pre \subseteq s /\ After(task, o, s) \in task.solvable
                => s \in task.solvable
  BY <1>1, SolvableClosed
<1>3. ASSUME NEW s \in task.states, task.goal \subseteq s
      PROVE  s \in C
  <2>1. Relevant(s) => \A p \in PairsOf(s) : mark[p] # "none"
    BY <1>3 DEF Fixpoint, Seeded, IsGoalState
  <2> QED BY <1>2, <1>3, <2>1, MarkedReached DEF Fixpoint
<1>4. ASSUME NEW s \in task.states, NEW o \in OpsOf(task), task.ops[o].pre \subseteq s,
             After(task, o, s) \in C
      PROVE  s \in C
  <2>1. s \in task.solvable
    BY <1>2, <1>4
  <2>2. ASSUME Relevant(s)
        PROVE  AllReached(s)
    <3>1. Used(o, s) /\ o \in Op
      BY <1>1, <1>4, <2>2 DEF Used, Relevant
    <3>2. Relevant(After(task, o, s))
      BY <1>4, <3>1, UsedRelevant DEF Fixpoint, IInv
    <3> QED BY <1>4, <3>1, <3>2, BwStep
  <2> QED BY <2>1, <2>2
<1>5. C \in BwClosed(task)
  <2>1. C \in SUBSET task.states
    BY <1>2
  <2> QED BY <1>3, <1>4, <2>1 DEF BwClosed
<1>6. task.solvable \subseteq C
  BY <1>1, <1>5, SolvableLeast
<1> QED BY <1>1, <1>6 DEF Relevant

LEMMA EndRunInv ==
    ASSUME IInv, EndRun, TypeOK', TaskInv'
    PROVE  IInv'
<1>1. /\ (task' = task) /\ (mode' = mode) /\ (dir' = dir) /\ (Op' = Op)
      /\ (fwPre' = fwPre) /\ (bwOp' = bwOp) /\ (pc' \in {"fw", "bw"})
  BY DEF EndRun, opVars, Op
<1>2. Fixpoint /\ dir \in {"fw", "bw"}
  BY EndRunFixpoint DEF IInv, TypeOK
<1>3. \A s \in task.states : Relevant(s) => AllReached(s)
  BY <1>2, FwClosedFixpoint, BwClosedFixpoint
<1>4. MutexSound'
  <2>1. SUFFICES ASSUME NEW s \in task.states, Relevant(s), NEW p \in PairsOf(s)
                 PROVE  ~IsMutexMark(mark'[p])
    BY <1>1 DEF MutexSound, Relevant
  <2>2. p \in Pairs /\ mark[p] = "reached"
    BY <1>3, <2>1, StatePairs DEF AllReached, IInv
  <2>3. mark'[p] = "none"
    BY <2>2 DEF EndRun, Concluded
  <2> QED BY <2>3 DEF IsMutexMark
<1>5. PruneSound'
  <2>1. SUFFICES ASSUME NEW o \in Op, NEW s \in task.states, Used(o, s)
                 PROVE  opMark'[o] # "pruned"
    BY <1>1 DEF PruneSound, Used
  <2>2. /\ Relevant(s)
        /\ After(task, o, s) \in task.states
        /\ Relevant(After(task, o, s))
    BY <2>1, UsedRelevant DEF IInv
  <2>3. AllReached(s) /\ AllReached(After(task, o, s))
    BY <1>3, <2>2
  <2>4. opMark[o] = "reached"
    BY <1>2, <2>1, <2>3, FwStep, BwStep
  <2> QED BY <2>4 DEF EndRun
<1>6. OpSound'
  BY <1>1 DEF IInv, OpSound, Used
<1>7. Rested'
  <2>1. \A o \in Op : opMark'[o] # "reached"
    BY DEF EndRun
  <2>2. updateBw' => updateBw \/ mode = "fwbw"
    BY DEF EndRun
  <2> QED BY <1>1, <2>1, <2>2 DEF IInv, Rested
<1>8. SweepInv'
  BY <1>1 DEF SweepInv
<1> QED BY <1>4, <1>5, <1>6, <1>7, <1>8 DEF IInv

---------------------------------------------------------------------------
(* The other steps, and the theorems.                                        *)
LEMMA OtherInv ==
    ASSUME IInv, SweepAgain \/ OutOfTime \/ Finish \/ UNCHANGED vars, TypeOK', TaskInv'
    PROVE  IInv'
<1>1. /\ (task' = task) /\ (mode' = mode) /\ (mark' = mark) /\ (opMark' = opMark)
      /\ (applied' = applied) /\ (fwPre' = fwPre) /\ (bwOp' = bwOp) /\ (dir' = dir)
      /\ (updateFw' = updateFw) /\ (updateBw' = updateBw) /\ (Op' = Op) /\ (Last' = Last)
  BY DEF SweepAgain, OutOfTime, Finish, vars, opVars, updateVars, Op, Last
<1>2. MutexSound' /\ PruneSound' /\ OpSound'
  BY <1>1 DEF IInv, MutexSound, PruneSound, OpSound, Relevant, Used
<1>3. Rested'
  BY <1>1 DEF SweepAgain, OutOfTime, Finish, vars, IInv, Rested
<1>4. SweepInv'
  <2>1. CASE pc' = "sweep"
    <3>1. pc = "sweep"
      BY <2>1 DEF SweepAgain, OutOfTime, Finish, vars
    <3>2. Seeded' /\ Cached'
      BY <1>1, <3>1 DEF IInv, SweepInv, Seeded, Cached, Relevant, IsGoalState, Add
    <3>3. ASSUME ~updated', NEW o \in Op, o < cur'
          PROVE  Saturated(o)'
      <4>1. CASE SweepAgain
        BY <3>3, <4>1, OpTypes DEF SweepAgain, Op, IInv, Last
      <4>2. CASE ~SweepAgain
        <5>1. updated' = updated /\ cur' = cur
          BY <2>1, <4>2 DEF OutOfTime, Finish, vars
        <5>2. Saturated(o)
          BY <3>1, <3>3, <5>1 DEF IInv, SweepInv
        <5> QED BY <1>1, <5>2
                DEF Saturated, IsApplicable, Beside, IsReached, Pre, Add, Del
      <4> QED BY <4>1, <4>2
    <3> QED BY <1>1, <3>2, <3>3 DEF SweepInv
  <2>2. CASE pc' # "sweep"
    BY <2>2 DEF SweepInv
  <2> QED BY <2>1, <2>2
<1> QED BY <1>2, <1>3, <1>4 DEF IInv

(* What the runs hold is well formed in every state; backward operators add  *)
(* nothing they require or delete.                                           *)
THEOREM H2Types == Spec => []TypeOK
<1>1. Init => TypeOK /\ TaskInv
  BY InitType
<1>2. (TypeOK /\ TaskInv) /\ [Next]_vars => (TypeOK /\ TaskInv)'
  BY TypeStep
<1> QED BY <1>1, <1>2, PTL DEF Spec

LEMMA InvStep ==
    ASSUME IInv, [Next]_vars
    PROVE  IInv'
<1>1. TypeOK' /\ TaskInv'
  BY TypeStep DEF IInv
<1>2. CASE StartFw
  BY <1>1, <1>2, StartFwInv
<1>3. CASE StartBw
  BY <1>1, <1>3, StartBwInv
<1>4. CASE Apply
  BY <1>1, <1>4, ApplyInv
<1>5. CASE EndRun
  BY <1>1, <1>5, EndRunInv
<1>6. CASE SweepAgain \/ OutOfTime \/ Finish \/ UNCHANGED vars
  BY <1>1, <1>6, OtherInv
<1> QED BY <1>2, <1>3, <1>4, <1>5, <1>6 DEF Next

(* At any time, also when the time runs out, no pair of facts of a state     *)
(* that a plan may go through is a mutex, and no operator that it may use is *)
(* pruned.                                                                   *)
THEOREM H2Sound == Spec => []Sound
<1>1. Init => IInv
  BY InitInv
<1>2. IInv /\ [Next]_vars => IInv'
  BY InvStep
<1>3. IInv => Sound
  BY DEF IInv, Sound
<1> QED BY <1>1, <1>2, <1>3, PTL DEF Spec
---------------------------------------------------------------------------
(* pddlH2 computes h^2, the least set of pairs that is closed under the      *)
(* operators.  What is reached is in every closed set, and once nothing is   *)
(* added any more it is closed itself.                                       *)
H2Closed(R) ==
    /\ PairsOf(task.init) \ task.known \subseteq R
    /\ H2Next(task, R) \subseteq R

NotMutex == {p \in Pairs : ~IsMutexMark(mark[p])}

Exact ==
    /\ H2Closed(NotMutex)
    /\ \A R \in SUBSET Pairs : H2Closed(R) => NotMutex \subseteq R
    /\ \A o \in Op : opMark[o] = "pruned" <=>
          o \in task.dead \/ ~(PairsOf(task.ops[o].pre) \subseteq NotMutex)

ReachedIn(R) == \A p \in Pairs : mark[p] = "reached" => p \in R

Running ==
    /\ \A p \in Pairs : IsMutexMark(mark[p]) <=> p \in task.known
    /\ \A o \in Op : opMark[o] = "pruned" <=> o \in task.dead
    /\ \A o \in Op : opMark[o] = "reached" =>
          \A p \in PairsOf(task.ops[o].pre) : mark[p] = "reached"
    /\ \A R \in SUBSET Pairs : H2Closed(R) => ReachedIn(R)

FwInv ==
    mode = "fw" =>
        /\ dir = "fw" /\ ~updateBw
        /\ \A o \in Op : fwPre[o] = task.ops[o].pre
        /\ pc = "fw" /\ updateFw => Running
        /\ pc = "sweep" => Running /\ ~updateFw
        /\ (pc = "fw" /\ ~updateFw) \/ (pc = "done" /\ ~late) => Exact

LEMMA FwInitInv ==
    ASSUME Init
    PROVE  FwInv
<1>1. Running
  BY DEF Init, InitMark, IsMutexMark, Running, ReachedIn
<1> QED BY <1>1 DEF Init, FwInv

(* Without mutex groups disambiguation changes nothing.                      *)
LEMMA NoGroups ==
    ASSUME mode = "fw", NEW S
    PROVE  ~Contradictory(S) /\ Disambiguated(S) = S
<1>1. OpenGroups(S) = {}
  BY DEF OpenGroups
<1> QED BY <1>1 DEF Contradictory, Disambiguated, Extended

LEMMA StartFwExact ==
    ASSUME IInv, FwInv, StartFw, mode = "fw"
    PROVE  FwInv'
<1>1. /\ (task' = task) /\ (mode' = mode) /\ (Op' = Op) /\ (updateBw' = updateBw)
      /\ (pc' = "sweep") /\ (dir' = "fw") /\ (updateFw' = FALSE)
      /\ mark' = SetReached(mark, PairsOf(task.init))
  BY DEF StartFw, BeginSweeps, Op
<1>2. \A o \in Op : fwPre'[o] = task.ops[o].pre
  BY NoGroups DEF StartFw, NewFwPre, FwInv
<1>3. \A o \in Op : opMark'[o] = opMark[o] /\ opMark[o] # "reached"
  BY NoGroups DEF StartFw, FwPruned, IInv, Rested
<1>4. Running
  BY DEF StartFw, FwInv
<1>5. mark \in [Pairs -> Marks]
  BY DEF IInv, TypeOK, Marks
<1>6. \A p \in Pairs : IsMutexMark(mark'[p]) <=> p \in task.known
  BY <1>1, <1>4, <1>5, SetReachedKeeps DEF Running
<1>7. ASSUME NEW R \in SUBSET Pairs, H2Closed(R), NEW p \in Pairs, mark'[p] = "reached"
      PROVE  p \in R
  <2>1. CASE mark[p] = "reached"
    BY <1>4, <1>7, <2>1 DEF Running, ReachedIn
  <2>2. CASE mark[p] # "reached"
    <3>1. p \in PairsOf(task.init)
      BY <1>1, <1>5, <1>7, <2>2, SetReachedKeeps
    <3>2. p \notin task.known
      BY <1>6, <1>7 DEF IsMutexMark
    <3> QED BY <1>7, <3>1, <3>2 DEF H2Closed
  <2> QED BY <2>1, <2>2
<1>8. Running'
  BY <1>1, <1>3, <1>4, <1>6, <1>7 DEF Running, ReachedIn, H2Closed
<1> QED BY <1>1, <1>2, <1>8 DEF FwInv

(* What an operator makes of pairs in a closed set is in that set.           *)
LEMMA ClosedMakes ==
    ASSUME TaskInv, NEW R \in SUBSET Pairs, H2Closed(R), NEW o \in Op, o \notin task.dead,
           NEW p \in Pairs, p \notin task.known, Makes(task, o, p), Before(task, o, p) \subseteq R
    PROVE  p \in R
<1>1. o \in Live(task)
  BY DEF Live, Op, OpsOf
<1>2. p \in H2Next(task, R)
  BY <1>1 DEF H2Next
<1> QED BY <1>2 DEF H2Closed

LEMMA ApplyExact ==
    ASSUME IInv, FwInv, Apply, mode = "fw"
    PROVE  FwInv'
<1> DEFINE P == OwnPairs(cur) \cup Cross(Add(cur), NewFacts(cur))
<1>1. /\ cur \in Op
      /\ (pc = "sweep") /\ (dir = "fw") /\ ~updateFw /\ ~updateBw
      /\ Running
      /\ fwPre[cur] = task.ops[cur].pre
  BY OpTypes DEF Apply, Op, Last, IInv, TypeOK, FwInv
<1>2. /\ Pre(cur) = task.ops[cur].pre
      /\ Add(cur) = task.ops[cur].add
      /\ Del(cur) = task.ops[cur].del
      /\ Add(cur) \subseteq Fact /\ Pre(cur) \subseteq Fact
      /\ Add(cur) \cap Del(cur) = {}
  BY <1>1, EffectTypes DEF Pre, Add, Del, IInv, TaskInv, IsTask, Op, OpsOf
<1>3. mark \in [Pairs -> Marks]
  BY DEF IInv, TypeOK, Marks
<1>4. CASE ~IsApplicable(cur)
  <2>1. mark' = mark /\ opMark' = opMark
    BY <1>4 DEF Apply
  <2>2. Running'
    BY <1>1, <2>1, ApplyKeeps DEF Running, ReachedIn, H2Closed
  <2> QED BY <1>1, <2>2, ApplyKeeps DEF FwInv
<1>5. CASE IsApplicable(cur)
  <2>1. mark' = SetReached(mark, P)
    BY <1>5 DEF Apply
  <2>2. \A p \in Pairs : (IsMutexMark(mark'[p]) <=> IsMutexMark(mark[p]))
                         /\ (mark[p] = "reached" => mark'[p] = "reached")
    BY <1>3, <2>1, SetReachedKeeps
  <2>3. \A o \in Op : opMark'[o] = IF o = cur THEN "reached" ELSE opMark[o]
    BY <1>1, <1>5 DEF Apply, IInv, TypeOK
  <2>4. cur \notin task.dead /\ opMark[cur] # "pruned"
    BY <1>1, <1>5 DEF Running, IsApplicable
  <2>5. \A p \in PairsOf(task.ops[cur].pre) : p \in Pairs /\ mark[p] = "reached"
    <3>1. CASE opMark[cur] = "reached"
      BY <1>1, <1>2, <3>1 DEF Running, PairsOf, Pairs
    <3>2. CASE opMark[cur] # "reached"
      <4>1. opMark[cur] = "none"
        BY <1>1, <2>4, <3>2 DEF IInv, TypeOK
      <4>2. \A f, g \in Pre(cur) : IsReached(f, g)
        BY <1>5, <4>1 DEF IsApplicable
      <4> QED BY <1>2, <4>2 DEF IsReached, PairsOf, Pairs
    <3> QED BY <3>1, <3>2
  <2>6. ASSUME NEW R \in SUBSET Pairs, H2Closed(R), NEW p \in Pairs, mark'[p] = "reached"
        PROVE  p \in R
    <3>1. ReachedIn(R)
      BY <1>1, <2>6 DEF Running
    <3>2. PairsOf(task.ops[cur].pre) \subseteq R
      BY <2>5, <3>1 DEF ReachedIn
    <3>3. p \notin task.known
      BY <1>1, <2>2, <2>6 DEF Running, IsMutexMark
    <3>4. CASE mark[p] = "reached"
      BY <3>1, <3>4 DEF ReachedIn
    <3>5. CASE p \in PairsOf(Add(cur))
      <4>1. Makes(task, cur, p)
        BY <1>2, <3>5 DEF Makes, PairsOf
      <4>2. p \subseteq task.ops[cur].add
        BY <1>2, <3>5 DEF PairsOf
      <4>3. task.ops[cur].pre \cup (p \ task.ops[cur].add) = task.ops[cur].pre
        BY <4>2
      <4>4. Before(task, cur, p) \subseteq R
        BY <3>2, <4>3 DEF Before
      <4> QED BY <1>1, <2>4, <2>6, <3>3, <4>1, <4>4, ClosedMakes DEF IInv
    <3>6. CASE p \in Cross(Add(cur), NewFacts(cur))
      <4>1. PICK a \in Add(cur), f \in NewFacts(cur) : p = {a, f}
        BY <3>6 DEF Cross
      <4>2. /\ f \in Fact /\ f \notin Add(cur) /\ f \notin Del(cur)
            /\ mark[{f, f}] = "reached"
            /\ \A q \in Pre(cur) : mark[{q, f}] = "reached"
        BY <4>1 DEF NewFacts, Beside, IsReached
      <4>3. Makes(task, cur, p)
        BY <1>2, <4>1, <4>2 DEF Makes
      <4>4. task.ops[cur].pre \cup (p \ task.ops[cur].add) = task.ops[cur].pre \cup {f}
        BY <1>2, <4>1, <4>2
      <4>5. ASSUME NEW q \in task.ops[cur].pre \cup {f}, NEW r \in task.ops[cur].pre \cup {f}
            PROVE  {q, r} \in R
        <5>1. {q, r} \in Pairs
          BY <1>2, <4>2 DEF Pairs
        <5>2. mark[{q, r}] = "reached"
          <6>1. CASE q = f /\ r = f
            BY <4>2, <6>1
          <6>2. CASE q \in task.ops[cur].pre /\ r = f
            BY <1>2, <4>2, <6>2
          <6>3. CASE q = f /\ r \in task.ops[cur].pre
            <7>1. {q, r} = {r, q}
              OBVIOUS
            <7> QED BY <1>2, <4>2, <6>3, <7>1
          <6>4. CASE q \in task.ops[cur].pre /\ r \in task.ops[cur].pre
            BY <2>5, <6>4 DEF PairsOf
          <6> QED BY <6>1, <6>2, <6>3, <6>4
        <5> QED BY <3>1, <5>1, <5>2 DEF ReachedIn
      <4>6. Before(task, cur, p) \subseteq R
        BY <4>4, <4>5 DEF Before, PairsOf
      <4> QED BY <1>1, <2>4, <2>6, <3>3, <4>3, <4>6, ClosedMakes DEF IInv
    <3>7. p \in P \/ mark[p] = "reached"
      BY <1>3, <2>1, <2>6, SetReachedKeeps
    <3> QED BY <3>4, <3>5, <3>6, <3>7 DEF OwnPairs
  <2>7. ASSUME NEW o \in Op, opMark'[o] = "reached", NEW p \in PairsOf(task.ops[o].pre)
        PROVE  mark'[p] = "reached"
    <3>1. p \in Pairs
      <4>1. task.ops[o].pre \subseteq Fact
        BY OpTypes DEF IInv, BwOps
      <4> QED BY <2>7, <4>1 DEF PairsOf, Pairs
    <3>2. mark[p] = "reached"
      BY <1>1, <2>3, <2>5, <2>7 DEF Running
    <3> QED BY <2>2, <3>1, <3>2
  <2>8. Running'
    <3>1. \A o \in Op : opMark'[o] = "pruned" <=> o \in task.dead
      BY <1>1, <2>3, <2>4 DEF Running
    <3> QED BY <1>1, <2>2, <2>6, <2>7, <3>1, ApplyKeeps DEF Running, ReachedIn, H2Closed
  <2> QED BY <1>1, <2>8, ApplyKeeps DEF FwInv
<1> QED BY <1>4, <1>5

LEMMA EndRunExact ==
    ASSUME IInv, FwInv, EndRun, mode = "fw"
    PROVE  FwInv'
<1>1. /\ (task' = task) /\ (mode' = mode) /\ (dir' = dir) /\ (Op' = Op)
      /\ (fwPre' = fwPre) /\ ~updateBw' /\ (pc' = "fw") /\ (late' = late)
      /\ ~updateFw'
  <2>1. (dir = "fw") /\ ~updateBw /\ ~updateFw
    BY DEF EndRun, FwInv
  <2>2. ~updateBw' /\ ~updateFw'
    BY <2>1 DEF EndRun
  <2> QED BY <2>1, <2>2 DEF EndRun, opVars, Op
<1>2. /\ Running /\ dir = "fw" /\ ~updateBw
      /\ \A o \in Op : fwPre[o] = task.ops[o].pre
  BY DEF EndRun, FwInv
<1>3. Fixpoint
  BY EndRunFixpoint
<1>4. mark \in [Pairs -> Marks]
  BY DEF IInv, TypeOK, Marks
<1>5. \A p \in Pairs : p \in NotMutex' <=> mark[p] = "reached"
  BY <1>2, <1>4 DEF NotMutex, EndRun, Concluded, IsMutexMark, Marks
<1>6. \A p \in Pairs : mark[p] = "none" \/ mark[p] = "reached" \/ p \in task.known
  BY <1>2, <1>4 DEF Running, IsMutexMark, Marks
<1>7. PairsOf(task.init) \ task.known \subseteq NotMutex'
  <2>0. PairsOf(task.init) \subseteq Pairs
    BY StatePairs DEF IInv, TaskInv, IsTask
  <2>1. \A p \in PairsOf(task.init) : p \in Pairs /\ mark[p] # "none"
    BY <1>2, <1>3, <2>0 DEF Fixpoint, Seeded
  <2> QED BY <1>5, <1>6, <2>1
<1>8. ASSUME NEW o \in Op, opMark[o] # "pruned", PairsOf(task.ops[o].pre) \subseteq NotMutex'
      PROVE  /\ opMark[o] = "reached"
             /\ \A p \in PairsOf(task.ops[o].add) : mark[p] # "none"
             /\ \A f \in Fact \ (task.ops[o].add \cup task.ops[o].del) :
                   Beside(o, f) => \A a \in task.ops[o].add : mark[{a, f}] # "none"
  <2>1. Pre(o) = task.ops[o].pre /\ Add(o) = task.ops[o].add /\ Del(o) = task.ops[o].del
    BY <1>2 DEF Pre, Add, Del
  <2>2. \A f, g \in Pre(o) : IsReached(f, g)
    <3>1. SUFFICES ASSUME NEW f \in Pre(o), NEW g \in Pre(o)
                   PROVE  mark[{f, g}] = "reached"
      BY DEF IsReached
    <3>2. {f, g} \in PairsOf(task.ops[o].pre)
      BY <2>1 DEF PairsOf
    <3>3. {f, g} \in Pairs
      BY <3>2, <1>8 DEF NotMutex
    <3> QED BY <1>5, <1>8, <3>2, <3>3
  <2>3. IsApplicable(o)
    BY <1>8, <2>2 DEF IsApplicable
  <2> QED BY <1>3, <2>1, <2>3 DEF Fixpoint, Saturated
<1>9. ASSUME NEW p \in Pairs, p \notin task.known, NEW o \in Live(task),
             Makes(task, o, p), Before(task, o, p) \subseteq NotMutex'
      PROVE  p \in NotMutex'
  <2>1. o \in Op /\ opMark[o] # "pruned"
    BY <1>2 DEF Live, Op, OpsOf, Running
  <2>2. PairsOf(task.ops[o].pre) \subseteq NotMutex'
    BY <1>9 DEF Before, PairsOf
  <2>3. PICK f \in task.ops[o].add : f \in p
    BY <1>9 DEF Makes
  <2>4. PICK g \in Fact : p = {f, g}
    BY <2>3 DEF Pairs
  <2>5. mark[p] # "none"
    <3>1. CASE g \in task.ops[o].add
      BY <1>8, <2>1, <2>2, <2>4, <3>1 DEF PairsOf
    <3>2. CASE g \notin task.ops[o].add
      <4>1. g \notin task.ops[o].del
        BY <1>9, <2>4 DEF Makes
      <4>2. g \in p \ task.ops[o].add
        BY <2>4, <3>2
      <4>3. \A q \in task.ops[o].pre \cup {g} : {q, g} \in NotMutex'
        BY <1>9, <4>2 DEF Before, PairsOf
      <4>4. \A q \in task.ops[o].pre \cup {g} : mark[{q, g}] = "reached"
        BY <1>5, <4>3 DEF NotMutex
      <4>5. Beside(o, g)
        <5>1. Pre(o) = task.ops[o].pre
          BY <1>2, <2>1 DEF Pre
        <5>2. mark[{g, g}] = "reached" /\ \A q \in Pre(o) : mark[{q, g}] = "reached"
          BY <4>4, <5>1
        <5> QED BY <5>2 DEF Beside, IsReached
      <4> QED BY <1>8, <2>1, <2>2, <2>3, <2>4, <3>2, <4>1, <4>5
    <3> QED BY <3>1, <3>2
  <2> QED BY <1>5, <1>6, <1>9, <2>5
<1>10. H2Closed(NotMutex')
  <2>1. NotMutex' \subseteq Pairs
    BY DEF NotMutex
  <2>2. H2Next(task, NotMutex') \subseteq NotMutex'
    BY <1>9 DEF H2Next
  <2> QED BY <1>7, <2>2 DEF H2Closed
<1>11. \A R \in SUBSET Pairs : H2Closed(R) => NotMutex' \subseteq R
  <2>1. SUFFICES ASSUME NEW R \in SUBSET Pairs, H2Closed(R), NEW p \in NotMutex'
                 PROVE  p \in R
    OBVIOUS
  <2>2. p \in Pairs
    BY DEF NotMutex
  <2> QED BY <1>2, <1>5, <2>1, <2>2 DEF Running, ReachedIn
<1>12. ASSUME NEW o \in Op
       PROVE  opMark'[o] = "pruned" <=>
                o \in task.dead \/ ~(PairsOf(task.ops[o].pre) \subseteq NotMutex')
  <2>1. PairsOf(task.ops[o].pre) \subseteq Pairs
    BY OpTypes DEF IInv, BwOps, PairsOf, Pairs
  <2>2. opMark'[o] = IF opMark[o] = "reached" THEN "none" ELSE "pruned"
    BY DEF EndRun
  <2>3. CASE opMark[o] = "reached"
    BY <1>2, <1>5, <2>1, <2>2, <2>3 DEF Running
  <2>4. CASE opMark[o] # "reached"
    BY <1>2, <1>8, <2>2, <2>4 DEF Running
  <2> QED BY <2>3, <2>4
<1>13. Exact'
  <2>1. \A R : H2Closed(R)' <=> H2Closed(R)
    BY <1>1 DEF H2Closed
  <2> QED BY <1>1, <1>10, <1>11, <1>12, <2>1 DEF Exact, H2Closed
<1> QED BY <1>1, <1>2, <1>13 DEF FwInv

LEMMA OtherExact ==
    ASSUME IInv, FwInv, SweepAgain \/ OutOfTime \/ Finish \/ UNCHANGED vars, mode = "fw"
    PROVE  FwInv'
<1>1. /\ (task' = task) /\ (mode' = mode) /\ (mark' = mark) /\ (opMark' = opMark)
      /\ (fwPre' = fwPre) /\ (dir' = dir) /\ (Op' = Op)
      /\ (updateFw' = updateFw) /\ (updateBw' = updateBw)
  BY DEF SweepAgain, OutOfTime, Finish, vars, opVars, updateVars, Op
<1>2. Running => Running'
  BY <1>1 DEF Running, ReachedIn, H2Closed
<1>3. Exact => Exact'
  BY <1>1 DEF Exact, NotMutex, H2Closed
<1>4. /\ (pc' = pc /\ late' = late) \/ (pc' = "done" /\ late') \/ (pc = "fw" /\ pc' = "done")
      /\ pc = "fw" /\ pc' = "done" /\ ~late' => ~updateFw
  BY DEF SweepAgain, OutOfTime, Finish, vars
<1> QED BY <1>1, <1>2, <1>3, <1>4 DEF FwInv

(* When pddlH2 ends without running out of time, the pairs that are no       *)
(* mutexes are those of h^2, and the operators pruned are those with a       *)
(* mutex among their preconditions.                                          *)
THEOREM H2Exact == Spec => [](pc = "done" /\ mode = "fw" /\ ~late => Exact)
<1>1. Init => IInv /\ FwInv
  BY InitInv, FwInitInv
<1>2. (IInv /\ FwInv) /\ [Next]_vars => (IInv /\ FwInv)'
  <2>1. SUFFICES ASSUME IInv, FwInv, [Next]_vars
                 PROVE  IInv' /\ FwInv'
    OBVIOUS
  <2>2. IInv'
    BY <2>1, InvStep
  <2>3. CASE mode # "fw"
    <3>1. mode' = mode
      BY <2>1 DEF Next, vars, StartFw, StartBw, Apply, SweepAgain, EndRun, OutOfTime, Finish
    <3> QED BY <2>2, <2>3, <3>1 DEF FwInv
  <2>4. CASE mode = "fw"
    <3>1. ~StartBw
      BY <2>1, <2>4 DEF StartBw, IInv, Rested
    <3> QED BY <2>1, <2>2, <2>4, <3>1, StartFwExact, ApplyExact, EndRunExact, OtherExact
            DEF Next
  <2> QED BY <2>3, <2>4
<1>3. IInv /\ FwInv => (pc = "done" /\ mode = "fw" /\ ~late => Exact)
  BY DEF FwInv
<1> QED BY <1>1, <1>2, <1>3, PTL DEF Spec
---------------------------------------------------------------------------
(* The same of h^2 as it is computed from its definition, one round after    *)
(* the other.  What holds of every round is proved by looking at the first   *)
(* round of which it does not hold.                                          *)

(* A set of naturals has a least element.                                    *)
LEMMA LeastNat ==
    ASSUME NEW S \in SUBSET Nat, S # {}
    PROVE  \E m \in S : \A j \in S : m <= j
<1>1. IsWellFoundedOn(OpToRel(<, Nat), Nat)
  BY NatLessThanWellFounded
<1>2. PICK m \in S : \A j \in S : ~(<<j, m>> \in OpToRel(<, Nat))
  BY <1>1, WFMin
<1>3. ASSUME NEW j \in S PROVE m <= j
  <2>1. ~(j < m)
    BY <1>2 DEF OpToRel
  <2> QED BY <2>1
<1> QED BY <1>3

(* R has the pairs of the first n rounds.                                    *)
Rounds(R, n) ==
    R = [i \in 0..n |-> IF i = 0 THEN PairsOf(task.init) \ task.known
                        ELSE UNION {H2Next(task, Q) : Q \in {R[i - 1]}}]

(* A round adds to the pairs of the one before.                              *)
LEMMA RoundsAre ==
    ASSUME NEW n \in Nat, NEW R, Rounds(R, n)
    PROVE  /\ R[0] = PairsOf(task.init) \ task.known
           /\ \A i \in 1..n : R[i] = H2Next(task, R[i - 1])
<1>1. \A i \in 0..n : R[i] = IF i = 0 THEN PairsOf(task.init) \ task.known
                             ELSE UNION {H2Next(task, Q) : Q \in {R[i - 1]}}
  <2>1. R = [i \in 0..n |-> IF i = 0 THEN PairsOf(task.init) \ task.known
                            ELSE UNION {H2Next(task, Q) : Q \in {R[i - 1]}}]
    BY DEF Rounds
  <2> QED BY <2>1
<1>2. \A S : UNION {H2Next(task, Q) : Q \in {S}} = H2Next(task, S)
  OBVIOUS
<1>3. ASSUME NEW i \in 1..n PROVE R[i] = H2Next(task, R[i - 1])
  <2>1. R[i] = UNION {H2Next(task, Q) : Q \in {R[i - 1]}}
    BY <1>1
  <2> QED BY <1>2, <2>1
<1> QED BY <1>1, <1>3

(* There are such rounds, however many are asked for.                        *)
LEMMA RoundsExist ==
    ASSUME NEW n \in Nat
    PROVE  \E R : Rounds(R, n)
<1> DEFINE D == {i \in 0..n : ~(\E R : Rounds(R, i))}
<1> SUFFICES ASSUME D # {} PROVE FALSE
  OBVIOUS
<1>1. PICK m \in D : \A j \in D : m <= j
  <2>1. D \in SUBSET Nat
    OBVIOUS
  <2> HIDE DEF D
  <2> QED BY <2>1, LeastNat
<1>2. m # 0
  <2> DEFINE R == [i \in 0..0 |-> PairsOf(task.init) \ task.known]
  <2>1. R = [i \in 0..0 |-> IF i = 0 THEN PairsOf(task.init) \ task.known
                            ELSE UNION {H2Next(task, Q) : Q \in {R[i - 1]}}]
    <3>1. \A i \in 0..0 : i = 0
      OBVIOUS
    <3> QED BY <3>1
  <2>2. Rounds(R, 0)
    BY <2>1 DEF Rounds
  <2> QED BY <2>2
<1>3. m \in 0..n /\ m - 1 \in 0..n /\ m - 1 \notin D
  BY <1>1, <1>2
<1>4. PICK R : Rounds(R, m - 1)
  BY <1>3
<1>5. \A i \in 0..(m - 1) : R[i] = IF i = 0 THEN PairsOf(task.init) \ task.known
                                   ELSE UNION {H2Next(task, Q) : Q \in {R[i - 1]}}
  <2>1. R = [i \in 0..(m - 1) |-> IF i = 0 THEN PairsOf(task.init) \ task.known
                                  ELSE UNION {H2Next(task, Q) : Q \in {R[i - 1]}}]
    BY <1>4 DEF Rounds
  <2> QED BY <2>1
<1>6. PICK T : T = [i \in 0..m |-> IF i = m THEN UNION {H2Next(task, Q) : Q \in {R[m - 1]}}
                                           ELSE R[i]]
  OBVIOUS
<1>7. ASSUME NEW i \in 0..m
      PROVE  T[i] = IF i = 0 THEN PairsOf(task.init) \ task.known
                    ELSE UNION {H2Next(task, Q) : Q \in {T[i - 1]}}
  <2>1. CASE i = m
    <3>1. T[m] = UNION {H2Next(task, Q) : Q \in {R[m - 1]}} /\ T[m - 1] = R[m - 1]
      BY <1>2, <1>3, <1>6
    <3> QED BY <1>2, <2>1, <3>1
  <2>2. CASE i # m
    <3>1. i \in 0..(m - 1) /\ T[i] = R[i]
      BY <1>3, <1>6, <2>2
    <3>2. i # 0 => T[i - 1] = R[i - 1]
      BY <1>3, <1>6, <2>2
    <3> QED BY <1>5, <3>1, <3>2
  <2> QED BY <2>1, <2>2
<1>8. T = [i \in 0..m |-> IF i = 0 THEN PairsOf(task.init) \ task.known
                         ELSE UNION {H2Next(task, Q) : Q \in {T[i - 1]}}]
  BY <1>6, <1>7
<1>9. Rounds(T, m)
  BY <1>8 DEF Rounds
<1> QED BY <1>1, <1>9

(* There are finitely many pairs.                                            *)
LEMMA PairsFinite == IsFiniteSet(Pairs)
<1>1. Pairs \in SUBSET (SUBSET Fact)
  BY DEF Pairs
<1> QED BY <1>1, FactAssumption, FS_SUBSET, FS_Subset

(* As many rounds as there are pairs are enough: a round that adds no pair   *)
(* is the last that could.                                                   *)
LEMMA H2Least ==
    ASSUME TaskInv
    PROVE  /\ H2(task) \in SUBSET Pairs /\ H2Closed(H2(task))
           /\ \A C \in SUBSET Pairs : H2Closed(C) => H2(task) \subseteq C
<1> PICK n \in Nat : n = Cardinality(Pairs)
  BY PairsFinite, FS_CardinalityType
<1> DEFINE First == PairsOf(task.init) \ task.known
           R == CHOOSE S : Rounds(S, n)
<1>1. Rounds(R, n)
  BY RoundsExist
<1>2. H2(task) = R[n]
  BY DEF H2, Rounds
<1> HIDE DEF R
<1>3. R[0] = First /\ \A i \in 1..n : R[i] = H2Next(task, R[i - 1])
  BY <1>1, RoundsAre
<1>4. First \in SUBSET Pairs
  BY DEF TaskInv, IsTask, PairsOf, Pairs
<1>5. \A S \in SUBSET Pairs : H2Next(task, S) \in SUBSET Pairs /\ S \subseteq H2Next(task, S)
  BY DEF H2Next
<1>6. \A C \in SUBSET Pairs : \A S \in SUBSET C : H2Closed(C) => H2Next(task, S) \subseteq C
  BY DEF H2Closed, H2Next
<1> DEFINE Good(i) == /\ R[i] \in SUBSET Pairs /\ First \subseteq R[i]
                      /\ \A C \in SUBSET Pairs : H2Closed(C) => R[i] \subseteq C
                      /\ H2Next(task, R[i]) = R[i] \/ Cardinality(R[i]) >= i
           D == {i \in 0..n : ~Good(i)}
<1>7. D = {}
  <2> SUFFICES ASSUME D # {} PROVE FALSE
    OBVIOUS
  <2>1. PICK m \in D : \A j \in D : m <= j
    <3>1. D \in SUBSET Nat
      OBVIOUS
    <3> HIDE DEF D
    <3> QED BY <3>1, LeastNat
  <2>2. m # 0
    <3>1. Cardinality(R[0]) >= 0
      BY <1>3, <1>4, PairsFinite, FS_Subset, FS_CardinalityType
    <3>2. \A C \in SUBSET Pairs : H2Closed(C) => First \subseteq C
      BY DEF H2Closed
    <3> QED BY <1>3, <1>4, <3>1, <3>2
  <2>3. m \in 1..n /\ m - 1 \in 0..n /\ m - 1 \notin D
    BY <2>1, <2>2
  <2>4. R[m] = H2Next(task, R[m - 1])
    BY <1>3, <2>3
  <2>5. Good(m - 1)
    BY <2>3
  <2>6. /\ R[m] \in SUBSET Pairs /\ First \subseteq R[m] /\ R[m - 1] \subseteq R[m]
        /\ \A C \in SUBSET Pairs : H2Closed(C) => R[m] \subseteq C
    BY <1>5, <1>6, <2>4, <2>5
  <2>7. CASE H2Next(task, R[m - 1]) = R[m - 1]
    BY <2>1, <2>4, <2>6, <2>7
  <2>8. CASE H2Next(task, R[m - 1]) # R[m - 1]
    <3>1. Cardinality(R[m - 1]) >= m - 1
      BY <2>5, <2>8
    <3>2. /\ Cardinality(R[m - 1]) \in Nat /\ Cardinality(R[m]) \in Nat
          /\ Cardinality(R[m - 1]) <= Cardinality(R[m])
          /\ Cardinality(R[m]) = Cardinality(R[m - 1]) => R[m] = R[m - 1]
      <4>1. IsFiniteSet(R[m])
        BY <2>6, PairsFinite, FS_Subset
      <4>2. R[m - 1] \in SUBSET R[m]
        BY <2>6
      <4> QED BY <4>1, <4>2, FS_Subset, FS_CardinalityType
    <3>3. Cardinality(R[m]) >= m
      BY <2>3, <2>4, <2>8, <3>1, <3>2
    <3> QED BY <2>1, <2>6, <3>3
  <2> QED BY <2>7, <2>8
<1>8. Good(n)
  BY <1>7
<1>9. H2Next(task, R[n]) = R[n]
  <2>1. CASE Cardinality(R[n]) >= n
    <3>1. Cardinality(R[n]) <= n /\ Cardinality(R[n]) \in Nat
      BY <1>8, PairsFinite, FS_Subset, FS_CardinalityType
    <3>2. Cardinality(Pairs) = Cardinality(R[n])
      BY <2>1, <3>1
    <3>3. R[n] = Pairs
      BY <1>8, <3>2, PairsFinite, FS_Subset
    <3> QED BY <1>5, <3>3
  <2> QED BY <1>8, <2>1
<1> QED BY <1>2, <1>8, <1>9 DEF H2Closed

(* So when pddlH2 ends in time, in whatever order it took the operators, its *)
(* mutexes are the pairs that h^2 excludes (h2.c:445).                       *)
THEOREM FwExactCorrect == Spec => []FwExact
<1>1. TaskInv /\ (pc = "done" /\ mode = "fw" /\ ~late => Exact) => FwExact
  <2> SUFFICES ASSUME TaskInv, pc = "done", mode = "fw", ~late, Exact
               PROVE  FwExact
    BY DEF FwExact
  <2>1. NotMutex = H2(task)
    BY H2Least DEF Exact, NotMutex
  <2>2. \A p \in Pairs : IsMutexMark(mark[p]) <=> p \notin NotMutex
    BY DEF NotMutex
  <2> QED BY <2>1, <2>2 DEF FwExact, Exact
<1>2. Spec => []TaskInv
  <2>1. Init => TypeOK /\ TaskInv
    BY InitType
  <2>2. (TypeOK /\ TaskInv) /\ [Next]_vars => (TypeOK /\ TaskInv)'
    BY TypeStep
  <2> QED BY <2>1, <2>2, PTL DEF Spec
<1> QED BY <1>1, <1>2, H2Exact, PTL
=============================================================================
