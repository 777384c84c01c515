---------------------------- MODULE CriticalPath ----------------------------
(* The h^2 mutexes of src/h2.c: a fixpoint over pairs of facts, forward from *)
(* the initial state (pddlH2), or forward and backward in turns until        *)
(* neither finds anything more (pddlH2FwBw).  The backward operators delete  *)
(* what is mutex with the preconditions, and preconditions are extended by   *)
(* mutex groups (src/disambiguation.c).  The time may run out before every   *)
(* sweep; what was found until then is handed out.                           *)
(*                                                                           *)
(* A pair of facts is a set, of one element for the fact itself.  Left out:  *)
(* the matrix op_fact failing to be allocated, facts known to be unreachable *)
(* beforehand, and the label of pairs known beforehand.                      *)
EXTENDS Naturals, Sequences, FiniteSets

CONSTANTS Fact,    \* the facts
          Tasks    \* init, goal; ops: a sequence of pre, add, del; groups: the
                   \* mutex groups of which exactly one fact holds; known: mutex
                   \* pairs, and dead: operators, known beforehand; states, and of
                   \* them the reachable and the solvable ones

ASSUME FactAssumption == IsFiniteSet(Fact)

VARIABLES
    task,
    mode,      \* "fw": pddlH2, or "fwbw": pddlH2FwBw
    mark,      \* h2->fact: what is known of each pair
    opMark,    \* h2->op: what is known of each operator
    applied,   \* h2->op_fact: facts that an operator was combined with
    fwPre,     \* the preconditions of ops_fw
    bwOp,      \* ops_bw
    pc,        \* whose turn it is in the loop, or "sweep" or "done"
    dir,       \* the direction of the run
    cur,       \* the next operator of the sweep
    updated,   \* whether the sweep has reached a new pair
    updateFw, updateBw,   \* whether a direction has to run
    late       \* the time ran out

opVars == <<fwPre, bwOp>>
updateVars == <<updateFw, updateBw>>
vars == <<task, mode, mark, opMark, applied, opVars, pc, dir, cur, updated, updateVars, late>>

Pairs == {{f, g} : f, g \in Fact}
PairsOf(S) == {{f, g} : f, g \in S}
Cross(S, T) == {{f, g} : f \in S, g \in T}

Op == 1..Len(task.ops)
Last == Len(task.ops)

IsMutexMark(m) == m \in {"fw", "bw"}
IsMutex(f, g) == IsMutexMark(mark[{f, g}])
IsReached(f, g) == mark[{f, g}] = "reached"

(* setReached: what is marked already stays as it is.                        *)
SetReached(m, P) == [p \in Pairs |-> IF p \in P /\ m[p] = "none" THEN "reached" ELSE m[p]]

---------------------------------------------------------------------------
(* The backward operator of an operator.                                     *)
(* opSetEDeletes: nothing holds before the operator that is mutex with its   *)
(* precondition.  Adds that are preconditions are dropped, and deletes that  *)
(* are added.  Mutant: they are not.                                         *)
WithEDeletesRaw(b, E) == [b EXCEPT !.del = @ \cup E]

WithEDeletes(b, E) == [pre |-> b.pre, add |-> b.add \ b.pre, del |-> (b.del \cup E) \ b.add]

EDeletes(m, pre) == {f \in Fact : \E p \in pre : IsMutexMark(m[{p, f}])}

(* Mutant: a precondition that is deleted is required afterwards.            *)
BwPreKept(o) == task.ops[o].pre \cup task.ops[o].add

BwPre(o) == (task.ops[o].pre \ task.ops[o].del) \cup task.ops[o].add

InitMark == [p \in Pairs |-> IF p \in task.known THEN "fw" ELSE "none"]

InitBw(o) == WithEDeletes([pre |-> BwPre(o), add |-> task.ops[o].del, del |-> {}],
                          EDeletes(InitMark, task.ops[o].pre))

Init ==
    /\ task \in Tasks
    /\ mode \in {"fw", "fwbw"}
    /\ mark = InitMark
    /\ opMark = [o \in Op |-> IF o \in task.dead THEN "pruned" ELSE "none"]
    /\ applied = [o \in Op |-> {}]
    /\ fwPre = [o \in Op |-> task.ops[o].pre]
    /\ bwOp = [o \in Op |-> InitBw(o)]
    /\ pc = "fw"
    /\ dir = "fw"
    /\ cur = 1
    /\ updated = FALSE
    /\ updateFw = TRUE
    /\ updateBw = (mode = "fwbw")
    /\ late = FALSE

---------------------------------------------------------------------------
(* pddlDisambiguateSet: of every mutex group that has no fact in S one fact  *)
(* has to hold; facts that are mutex with S, or with all that is left of a   *)
(* group, are not allowed.  pddlH2 has no mutex groups.                      *)
SameGroup(f, g) == f # g /\ \E M \in task.groups : {f, g} \subseteq M

Excluded(f, g) == SameGroup(f, g) \/ IsMutex(f, g)

OpenGroups(S) == {M \in task.groups : mode = "fwbw" /\ M \cap S = {}}

Compatible(S) == {f \in Fact : \A g \in S : ~Excluded(f, g)}

IsStable(S, A) ==
    \A M \in OpenGroups(S) :
        M \subseteq A \/ \A f \in A : \E g \in A \cap M : ~Excluded(f, g)

Allowed(S) == UNION {A \in SUBSET Compatible(S) : IsStable(S, A)}

Contradictory(S) == \E M \in OpenGroups(S) : M \cap Allowed(S) = {}

Extended(S) == S \cup {f \in Fact : \E M \in OpenGroups(S) : M \cap Allowed(S) = {f}}

(* A set that cannot hold is left as it is, and the operator is pruned.      *)
Disambiguated(S) == IF Contradictory(S) THEN S ELSE Extended(S)

FwPruned == {o \in Op : opMark[o] # "pruned" /\ Contradictory(fwPre[o])}

NewFwPre == [o \in Op |-> IF opMark[o] = "pruned" THEN fwPre[o] ELSE Disambiguated(fwPre[o])]

---------------------------------------------------------------------------
(* The forward run begins with the pairs of the initial state.               *)
BeginSweeps(d) ==
    /\ pc' = "sweep"
    /\ dir' = d
    /\ cur' = 1
    /\ updated' = FALSE
    /\ applied' = [o \in Op |-> {}]

StartFw ==
    /\ pc = "fw"
    /\ updateFw
    /\ updateFw' = FALSE
    /\ mark' = SetReached(mark, PairsOf(task.init))
    /\ fwPre' = NewFwPre
    /\ opMark' = [o \in Op |-> IF o \in FwPruned THEN "pruned" ELSE opMark[o]]
    /\ BeginSweeps("fw")
    /\ UNCHANGED <<task, mode, bwOp, updateBw, late>>

(* The backward run begins with all pairs that may hold beside the goal.     *)
GoalFacts ==
    {f \in Fact : ~IsMutex(f, f) /\ \A g \in Disambiguated(task.goal) : ~IsMutex(f, g)}

BwPruned ==
    {o \in Op : opMark[o] # "pruned" /\ o \notin FwPruned /\ Contradictory(bwOp[o].pre)}

NewBwOp ==
    [o \in Op |->
        IF opMark[o] = "pruned" \/ o \in FwPruned \cup BwPruned THEN bwOp[o]
        ELSE WithEDeletes([bwOp[o] EXCEPT !.pre = Disambiguated(bwOp[o].pre)],
                          EDeletes(mark, NewFwPre[o]))]

StartBw ==
    /\ pc \in {"fw", "bw"}
    /\ pc = "fw" => ~updateFw
    /\ updateBw
    /\ updateBw' = FALSE
    /\ updateFw' = (updateFw \/ FwPruned # {})
    /\ mark' = SetReached(mark, PairsOf(GoalFacts))
    /\ fwPre' = NewFwPre
    /\ bwOp' = NewBwOp
    /\ opMark' = [o \in Op |-> IF o \in FwPruned \cup BwPruned THEN "pruned" ELSE opMark[o]]
    /\ BeginSweeps("bw")
    /\ UNCHANGED <<task, mode, late>>

---------------------------------------------------------------------------
(* applyOp: the pairs of an operator that is reached, and of its effects     *)
(* with every fact that can hold beside its precondition.                    *)
Pre(o) == IF dir = "fw" THEN fwPre[o] ELSE bwOp[o].pre
Add(o) == IF dir = "fw" THEN task.ops[o].add ELSE bwOp[o].add
Del(o) == IF dir = "fw" THEN task.ops[o].del ELSE bwOp[o].del

IsApplicable(o) ==
    /\ opMark[o] # "pruned"
    /\ opMark[o] = "none" => \A f, g \in Pre(o) : IsReached(f, g)

(* Mutant: the fact need not hold together with the precondition.            *)
BesideAlone(o, f) == IsReached(f, f)

Beside(o, f) == IsReached(f, f) /\ \A p \in Pre(o) : IsReached(p, f)

OwnPairs(o) == IF opMark[o] = "reached" THEN {} ELSE PairsOf(Add(o))

NewFacts(o) == {f \in Fact \ (Add(o) \cup Del(o) \cup applied[o]) : Beside(o, f)}

IsNew(P) == \E p \in P : mark[p] = "none"

Apply ==
    /\ pc = "sweep"
    /\ cur <= Last
    /\ IF IsApplicable(cur)
       THEN LET P == OwnPairs(cur) \cup Cross(Add(cur), NewFacts(cur))
            IN  /\ mark' = SetReached(mark, P)
                /\ updated' = (updated \/ IsNew(P))
                /\ opMark' = [opMark EXCEPT ![cur] = "reached"]
                /\ applied' = [applied EXCEPT ![cur] = @ \cup NewFacts(cur)]
       ELSE UNCHANGED <<mark, updated, opMark, applied>>
    /\ cur' = cur + 1
    /\ UNCHANGED <<task, mode, opVars, pc, dir, updateVars, late>>

SweepAgain ==
    /\ pc = "sweep"
    /\ cur > Last
    /\ updated
    /\ cur' = 1
    /\ updated' = FALSE
    /\ UNCHANGED <<task, mode, mark, opMark, applied, opVars, pc, dir, updateVars, late>>

(* The fixpoint: pairs that were not reached are mutex from now on, and      *)
(* operators that were not are pruned.                                       *)
Concluded(m) == IF m = "none" THEN dir ELSE IF m = "reached" THEN "none" ELSE m

(* Mutant: operators that were pruned before count again.                    *)
FoundAgain == \/ \E p \in Pairs : mark[p] = "none"
              \/ \E o \in Op : opMark[o] # "reached"

Found == \/ \E p \in Pairs : mark[p] = "none"
         \/ \E o \in Op : opMark[o] = "none"

EndRun ==
    /\ pc = "sweep"
    /\ cur > Last
    /\ ~updated
    /\ mark' = [p \in Pairs |-> Concluded(mark[p])]
    /\ opMark' = [o \in Op |-> IF opMark[o] = "reached" THEN "none" ELSE "pruned"]
    /\ updateBw' = (updateBw \/ (dir = "fw" /\ mode = "fwbw" /\ Found))
    /\ updateFw' = (updateFw \/ (dir = "bw" /\ Found))
    /\ pc' = IF dir = "fw" /\ updateBw' THEN "bw" ELSE "fw"
    /\ UNCHANGED <<task, mode, applied, opVars, dir, cur, updated, late>>

(* The time is looked at before every round of the loop and every sweep.     *)
OutOfTime ==
    /\ \/ /\ pc = "fw" /\ mode = "fwbw"
          /\ updateFw \/ updateBw
       \/ pc = "sweep" /\ cur = 1
    /\ pc' = "done"
    /\ late' = TRUE
    /\ UNCHANGED <<task, mode, mark, opMark, applied, opVars, dir, cur, updated, updateVars>>

Finish ==
    /\ pc = "fw"
    /\ ~updateFw /\ ~updateBw
    /\ pc' = "done"
    /\ UNCHANGED <<task, mode, mark, opMark, applied, opVars, dir, cur, updated, updateVars,
                   late>>

Next == StartFw \/ StartBw \/ Apply \/ SweepAgain \/ EndRun \/ OutOfTime \/ Finish

Spec == Init /\ [][Next]_vars /\ WF_vars(Next)

---------------------------------------------------------------------------
(* The states of a task: those that the initial state leads to, and those    *)
(* that lead to the goal, as what every closed set of states contains.       *)
OpsOf(t) == 1..Len(t.ops)

After(t, o, s) == (s \ t.ops[o].del) \cup t.ops[o].add

FwClosed(t) == {C \in SUBSET t.states :
                   /\ t.init \in C
                   /\ \A s \in C, o \in OpsOf(t) :
                         t.ops[o].pre \subseteq s => After(t, o, s) \in C}

BwClosed(t) == {C \in SUBSET t.states :
                   /\ \A s \in t.states : t.goal \subseteq s => s \in C
                   /\ \A s \in t.states, o \in OpsOf(t) :
                         t.ops[o].pre \subseteq s /\ After(t, o, s) \in C => s \in C}

Reachable(t) == LET closed == FwClosed(t) IN {s \in t.states : \A C \in closed : s \in C}
Solvable(t) == LET closed == BwClosed(t) IN {s \in t.states : \A C \in closed : s \in C}

(* The states and the uses of operators that mutexes must not exclude: the   *)
(* reachable ones, and if the run goes backward too those of plans.          *)
Relevant(s) == /\ s \in task.reachable
               /\ mode = "fwbw" => s \in task.solvable

Used(o, s) == /\ task.ops[o].pre \subseteq s
              /\ s \in task.reachable
              /\ mode = "fwbw" => After(task, o, s) \in task.solvable

(* What a task has to be, the mutex groups and what is known beforehand      *)
(* right included.                                                           *)
IsTask(t) ==
    /\ t.states \subseteq SUBSET Fact
    /\ t.reachable = Reachable(t) /\ t.solvable = Solvable(t)
    /\ t.init \in t.states
    /\ t.goal \subseteq Fact
    /\ t.ops \in Seq([pre : SUBSET Fact, add : SUBSET Fact, del : SUBSET Fact])
    /\ \A o \in OpsOf(t) :
          /\ t.ops[o].add \cap (t.ops[o].pre \cup t.ops[o].del) = {}
          /\ \A s \in t.states : t.ops[o].pre \subseteq s => After(t, o, s) \in t.states
    /\ t.groups \subseteq SUBSET Fact
    /\ \A s \in t.reachable :
          /\ \A M \in t.groups : \E f \in M : s \cap M = {f}
          /\ PairsOf(s) \cap t.known = {}
          /\ \A o \in t.dead : ~(t.ops[o].pre \subseteq s)

ASSUME TasksAssumption == \A t \in Tasks : IsTask(t)

---------------------------------------------------------------------------
(* The pairs reached by h^2 as it is defined: those of the initial state,    *)
(* and those that an operator makes true, partly or as a whole, from pairs   *)
(* reached before.  Pairs and operators excluded beforehand stay so.         *)
Makes(t, o, P) ==
    /\ P \cap t.ops[o].add # {}
    /\ P \cap t.ops[o].del = {}

Before(t, o, P) == PairsOf(t.ops[o].pre \cup (P \ t.ops[o].add))

Live(t) == OpsOf(t) \ t.dead

H2Next(t, R) ==
    R \cup {P \in Pairs \ t.known :
              \E o \in Live(t) : Makes(t, o, P) /\ Before(t, o, P) \subseteq R}

H2(t) ==
    LET R[n \in 0..Cardinality(Pairs)] ==
            IF n = 0 THEN PairsOf(t.init) \ t.known
            ELSE UNION {H2Next(t, Q) : Q \in {R[n - 1]}}
    IN R[Cardinality(Pairs)]

---------------------------------------------------------------------------
(* Types, and that a backward operator adds nothing that it requires or      *)
(* deletes.                                                                  *)
TypeOK ==
    /\ mark \in [Pairs -> {"none", "reached", "fw", "bw"}]
    /\ opMark \in [Op -> {"none", "reached", "pruned"}]
    /\ applied \in [Op -> SUBSET Fact]
    /\ fwPre \in [Op -> SUBSET Fact]
    /\ bwOp \in [Op -> [pre : SUBSET Fact, add : SUBSET Fact, del : SUBSET Fact]]
    /\ \A o \in Op : bwOp[o].add \cap (bwOp[o].pre \cup bwOp[o].del) = {}
    /\ mode \in {"fw", "fwbw"}
    /\ pc \in {"fw", "bw", "sweep", "done"}
    /\ dir \in {"fw", "bw"}
    /\ cur \in 1..(Last + 1)
    /\ updated \in BOOLEAN /\ late \in BOOLEAN
    /\ updateFw \in BOOLEAN /\ updateBw \in BOOLEAN

(* No pair that holds in a reachable state is a mutex, and no operator that  *)
(* is applicable in one is pruned; if the run goes backward, in a state and  *)
(* a step that a plan may go through.  At any time, so also if the time runs *)
(* out: what the runs hand out may be used to drop facts and operators.      *)
MutexSound == \A s \in task.states : Relevant(s) => \A p \in PairsOf(s) : ~IsMutexMark(mark[p])

PruneSound == \A o \in Op, s \in task.states : Used(o, s) => opMark[o] # "pruned"

Sound == MutexSound /\ PruneSound

(* The forward run on its own finds all that h^2 excludes and nothing else,  *)
(* in whatever order the operators are, with its memory of the facts that an *)
(* operator was combined with.                                               *)
FwExact ==
    pc = "done" /\ mode = "fw" /\ ~late =>
        LET reached == H2(task)
        IN  /\ \A p \in Pairs : IsMutexMark(mark[p]) <=> p \notin reached
            /\ \A o \in Op : opMark[o] = "pruned" <=>
                  o \in task.dead \/ ~(PairsOf(task.ops[o].pre) \subseteq reached)

(* The runs in turns come to an end.                                         *)
Terminates == <>(pc = "done")
=============================================================================
