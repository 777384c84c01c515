------------------------------- MODULE LMCut -------------------------------
(* The LM-Cut heuristic of src/lm_cut.c: h^max is computed once in full,     *)
(* then a disjunctive landmark is cut and h^max is corrected incrementally   *)
(* until the goal costs nothing.  The structure is used again and again for  *)
(* states of one task.                                                       *)
(*                                                                           *)
(* Left out: ldms_in, which every caller leaves empty.  The counters         *)
(* supp_cnt are derived from the supporters they count; cost is the cost of  *)
(* an operator after getCost.                                                *)
EXTENDS Naturals, Sequences, FiniteSets, FiniteSetsExt

CONSTANTS Tasks,     \* tasks: facts, ops (a sequence of pre, eff, cost), goal
          Inf,       \* INT_MAX, the value of a fact that is not reached
          DeadEnd,   \* PDDL_COST_DEAD_END
          None       \* nothing was popped

ASSUME InfAssumption == Inf \in Nat /\ DeadEnd \in Nat

(* The units of cost of the operators of O, to be counted: c gives the costs. *)
Units(c, O) == UNION {{o} \X (1..c[o]) : o \in O}

(* A task has a goal, and the sum of its costs fits an int.                  *)
IsTask(t) ==
    /\ t.facts \in Nat
    /\ t.ops \in Seq([pre : SUBSET (1..t.facts), eff : SUBSET (1..t.facts), cost : Nat])
    /\ t.goal \subseteq 1..t.facts /\ t.goal # {}
    /\ LET o == DOMAIN t.ops
       IN  Cardinality(Units([i \in o |-> t.ops[i].cost], o)) \in (0..Inf-1) \cap (0..DeadEnd-1)

ASSUME TaskAssumption == \A t \in Tasks : IsTask(t)

VARIABLES
    task,      \* what the structure was built for
    pc,        \* where lmCut has got to
    state,     \* the facts of the state
    value,     \* the current estimate of each fact
    queue,     \* the keys of the facts in the priority queue
    popped,    \* the fact that was last popped, with its key
    todo,      \* the operators of that fact that are still to be visited
    unsat,     \* per operator: preconditions that are not reached
    supp,      \* per operator: its supporter
    suppCost,  \* per operator: the value of the supporter
    cost,      \* per operator: its current cost
    ldms,      \* the landmarks found
    heur       \* the estimate

hmaxVars == <<value, queue, popped, todo, unsat, supp, suppCost>>
vars == <<task, pc, state, hmaxVars, cost, ldms, heur>>

(* The task with an artificial fact and operator for the goal, and a fact    *)
(* that is the precondition of operators without one.                        *)
Goal == task.facts + 1
NoPre == task.facts + 2
Fact == 1..NoPre
OpGoal == Len(task.ops) + 1
Op == 1..OpGoal

Pre(o) == IF o = OpGoal THEN task.goal
          ELSE IF task.ops[o].pre = {} THEN {NoPre} ELSE task.ops[o].pre
Eff(o) == IF o = OpGoal THEN {Goal} ELSE task.ops[o].eff
OpCost(o) == IF o = OpGoal THEN 0 ELSE task.ops[o].cost

PreOps(f) == {o \in Op : f \in Pre(o)}
EffOps(f) == {o \in Op : f \in Eff(o)}

NoSupp == 0

Reached(f) == value[f] # Inf
IsSupp(f) == \E o \in Op : supp[o] = f

(* The facts wait in the queue of src/pq.c; ties come out in any order.      *)
Queue == INSTANCE KeyedQueue WITH Elem <- Nat, Key <- Nat, keyOf <- queue

Waiting == DOMAIN queue

TypeOK ==
    /\ pc \in {"idle", "full", "cut", "inc", "panic", "done"}
    /\ state \subseteq Fact
    /\ value \in [Fact -> 0..Inf]
    /\ Waiting \subseteq Fact /\ \A f \in Waiting : queue[f] \in 0..Inf-1
    /\ popped = None \/ popped \in Fact \X (0..Inf)
    /\ todo \subseteq Op
    /\ unsat \in [Op -> Nat]
    /\ supp \in [Op -> Fact \cup {NoSupp}]
    /\ suppCost \in [Op -> 0..Inf]
    /\ cost \in [Op -> Nat]
    /\ ldms \subseteq SUBSET Op
    /\ heur \in Nat

Init ==
    /\ task \in Tasks
    /\ pc = "idle"
    /\ state = {}
    /\ value = [f \in Fact |-> Inf]
    /\ queue = [f \in {} |-> 0]
    /\ popped = None
    /\ todo = {}
    /\ unsat = [o \in Op |-> 0]
    /\ supp = [o \in Op |-> NoSupp]
    /\ suppCost = [o \in Op |-> Inf]
    /\ cost = [o \in Op |-> 0]
    /\ ldms = {}
    /\ heur = 0

---------------------------------------------------------------------------
(* h^max in full.                                                            *)
(* Mutant: the costs a call has worn down are kept for the next one.         *)
StartCostKept == IF pc = "done" THEN cost ELSE [o \in Op |-> OpCost(o)]

StartCost == [o \in Op |-> OpCost(o)]

(* A call for the state s: everything is initialised, and the facts of the   *)
(* state are reached for nothing.                                            *)
Start(s) ==
    /\ pc \in {"idle", "done"}
    /\ pc' = "full"
    /\ state' = s \cup {NoPre}
    /\ value' = [f \in Fact |-> IF f \in state' THEN 0 ELSE Inf]
    /\ queue' = [f \in state' |-> 0]
    /\ popped' = None
    /\ todo' = {}
    /\ unsat' = [o \in Op |-> Cardinality(Pre(o))]
    /\ supp' = [o \in Op |-> NoSupp]
    /\ suppCost' = [o \in Op |-> Inf]
    /\ cost' = StartCost
    /\ ldms' = {}
    /\ heur' = 0
    /\ UNCHANGED task

(* The next fact of the queue, whose operators are visited then.             *)
Pop ==
    /\ pc \in {"full", "inc"}
    /\ todo = {}
    /\ \E f \in Waiting : Queue!Pop(f) /\ todo' = PreOps(f)
    /\ UNCHANGED <<task, pc, state, value, unsat, supp, suppCost, cost, ldms, heur>>

(* enqueueOpEffects: the effects of the operators in O become cheaper.       *)
Offer(O, c, base) == [f \in Fact |->
    Min({value[f]} \cup {c[o] + base[o] : o \in {x \in O : f \in Eff(x)}})]

Enqueue(O, c, base) ==
    /\ value' = Offer(O, c, base)
    /\ LET lower == {f \in Fact : value'[f] < value[f]}
       IN  queue' = [f \in Waiting \cup lower |-> value'[f]]

Visited(o) == o = Min(todo) /\ todo' = todo \ {o}

(* The last precondition to be reached is the supporter.                     *)
VisitFull ==
    /\ pc = "full"
    /\ \E o \in todo :
          /\ Visited(o)
          /\ unsat' = [unsat EXCEPT ![o] = @ - 1]
          /\ IF unsat[o] = 1
             THEN /\ supp' = [supp EXCEPT ![o] = popped[1]]
                  /\ suppCost' = [suppCost EXCEPT ![o] = value[popped[1]]]
                  /\ Enqueue({o}, cost, [x \in {o} |-> popped[2]])
             ELSE UNCHANGED <<supp, suppCost, value, queue>>
    /\ UNCHANGED <<task, pc, state, popped, cost, ldms, heur>>

EndFull ==
    /\ pc = "full"
    /\ todo = {} /\ Waiting = {}
    /\ IF Reached(Goal)
       THEN pc' = "cut" /\ UNCHANGED heur
       ELSE pc' = "done" /\ heur' = DeadEnd
    /\ UNCHANGED <<task, state, hmaxVars, cost, ldms>>

---------------------------------------------------------------------------
(* A cut.                                                                    *)
(* The least set with the facts of S and what Adds gives for its facts.      *)
Closure(S, Adds(_)) ==
    {f \in Fact : \A Y \in SUBSET (Fact \ S) :
                      f \in S \cup Y \/ ~(Adds(S \cup Y) \subseteq S \cup Y)}

EffOf(O) == UNION {Eff(o) : o \in O}

(* markGoalZone: the facts from which the goal costs nothing more, along     *)
(* supporters.  What an operator costs that leads into the zone makes it a   *)
(* candidate.                                                                *)
LeadsInto(Z, o) == supp[o] # NoSupp /\ Eff(o) \cap Z # {}

Zone ==
    Closure({Goal}, LAMBDA Z : {supp[o] : o \in {x \in Op : LeadsInto(Z, x) /\ cost[x] = 0}})

Candidates(Z) == {o \in Op : LeadsInto(Z, o) /\ cost[o] > 0}

(* findCut: the facts met on the way from the state along supporters, short  *)
(* of the zone and of the candidates.  What supports nothing is not followed.*)
OnWay(Z, C, F) == {f \in EffOf({o \in Op \ C : supp[o] \in F}) : IsSupp(f)} \ Z

(* Mutant: what needs no precondition is forgotten.                          *)
FrontFromFacts(Z, C) == Closure((state \ Z) \ {NoPre}, LAMBDA F : OnWay(Z, C, F))

Front(Z, C) == Closure(state \ Z, LAMBDA F : OnWay(Z, C, F))

TheCut(Z) == {o \in Candidates(Z) : supp[o] \in Front(Z, Candidates(Z))}

(* Mutants: the smallest cost is sought from 0, or the largest one taken.    *)
CutCostFromZero(C) == Min({cost[o] : o \in C} \cup {0})
CutCostMax(C) == Max({cost[o] : o \in C})

CutCost(C) == Min({cost[o] : o \in C})

(* applyCutCost.  Mutant: only the cheapest operators of the cut pay.        *)
CheapestPay(C, m) == [o \in Op |-> IF o \in C /\ cost[o] = m THEN 0 ELSE cost[o]]

Lowered(C, m) == [o \in Op |-> IF o \in C THEN cost[o] - m ELSE cost[o]]

(* The cut costs what its cheapest operator costs, every operator gets       *)
(* cheaper by that, and hMaxInc begins with their effects.  PANIC ends the   *)
(* program at a cut that is empty or costs nothing.                          *)
Cut ==
    /\ pc = "cut"
    /\ value[Goal] > 0
    /\ \E Z \in {Zone} : \E C \in {TheCut(Z)} :
          IF C = {} \/ CutCost(C) = 0
          THEN /\ pc' = "panic"
               /\ UNCHANGED <<heur, cost, ldms, value, queue>>
          ELSE /\ pc' = "inc"
               /\ heur' = heur + CutCost(C)
               /\ cost' = Lowered(C, CutCost(C))
               /\ ldms' = ldms \cup {C}
               /\ Enqueue(C, cost', suppCost)
    /\ UNCHANGED <<task, state, popped, todo, unsat, supp, suppCost>>

Finish ==
    /\ pc = "cut"
    /\ value[Goal] = 0
    /\ pc' = "done"
    /\ UNCHANGED <<task, state, hmaxVars, cost, ldms, heur>>

---------------------------------------------------------------------------
(* h^max incrementally, after costs went down.                               *)
(* Among the most expensive preconditions one that supports an operator      *)
(* already is preferred.                                                     *)
BestSupp(o) ==
    LET reached == {f \in Pre(o) : Reached(f)}
        best == {f \in reached : \A g \in reached : value[g] <= value[f]}
        used == {f \in best : IsSupp(f)}
    IN  IF used # {} THEN Min(used) ELSE Min(best)

(* Mutant: the supporter is not changed, only its value.                     *)
NewSuppSame(o) == supp[o]

NewSupp(o) == BestSupp(o)

(* The value of an operator's supporter went down.                           *)
Loses(o) == supp[o] = popped[1] /\ unsat[o] = 0 /\ suppCost[o] > popped[2]

VisitInc ==
    /\ pc = "inc"
    /\ \E o \in todo :
          /\ Visited(o)
          /\ IF Loses(o)
             THEN LET s == NewSupp(o)
                  IN  /\ supp' = [supp EXCEPT ![o] = s]
                      /\ suppCost' = [suppCost EXCEPT ![o] = value[s]]
                      /\ IF value[s] # suppCost[o]
                         THEN Enqueue({o}, cost, [x \in {o} |-> value[s]])
                         ELSE UNCHANGED <<value, queue>>
             ELSE UNCHANGED <<supp, suppCost, value, queue>>
    /\ UNCHANGED <<task, pc, state, popped, unsat, cost, ldms, heur>>

EndInc ==
    /\ pc = "inc"
    /\ todo = {} /\ Waiting = {}
    /\ pc' = "cut"
    /\ UNCHANGED <<task, state, hmaxVars, cost, ldms, heur>>

Step == \/ Pop \/ VisitFull \/ EndFull
        \/ Cut \/ Finish
        \/ VisitInc \/ EndInc

Next == \/ \E s \in SUBSET (1..task.facts) : Start(s)
        \/ Step

Spec == Init /\ [][Next]_vars /\ WF_vars(Step)

---------------------------------------------------------------------------
(* What the relaxed task is, without the algorithm.                          *)

(* The operators in O reach the goal from the state without deletes: every   *)
(* set of facts around the state that they do not leave holds the goal.      *)
Leaves(O, X) == \E o \in O : Pre(o) \subseteq X /\ ~(Eff(o) \subseteq X)

RelaxedPlan(O) ==
    \A Y \in SUBSET (1..task.facts \ state) :
        Leaves(O, state \cup Y) \/ task.goal \subseteq state \cup Y

RealOps == Op \ {OpGoal}

PlanCost(O) == Cardinality(Units([o \in O |-> OpCost(o)], O))

(* v is h^max for the costs c: no operator offers less, and every set of     *)
(* facts has one whose value is paid by facts outside of it.                 *)
IsHMax(v, c) ==
    LET Open(o) == Pre(o) # {} /\ \A p \in Pre(o) : v[p] # Inf
        Paid(o) == c[o] + Max({v[p] : p \in Pre(o)})
    IN  /\ \A f \in state : v[f] = 0
        /\ \A o \in Op : Open(o) => \A f \in Eff(o) : v[f] <= Paid(o)
        /\ \A Z \in SUBSET {f \in Fact \ state : v[f] # Inf} : Z # {} =>
              \E f \in Z : \E o \in EffOps(f) :
                  Open(o) /\ Pre(o) \cap Z = {} /\ v[f] = Paid(o)

(* The estimates are h^max for the current costs whenever the next cut is    *)
(* looked for, although only what changed is computed again (lm_cut.c:391).  *)
IncrementalIsFull == pc = "cut" => IsHMax(value, cost)

(* Every cut is a disjunctive landmark: each relaxed plan, so each plan,     *)
(* contains one of its operators; and it costs what they all can pay.        *)
(* Action schema networks feed them to their policy.                         *)
CutsAreLandmarks ==
    pc = "done" => \A L \in ldms : ~RelaxedPlan(RealOps \ L)

(* The landmarks share the costs of the operators: the estimate is not above *)
(* the cost of any relaxed plan.                                             *)
Admissible ==
    pc = "done" /\ heur # DeadEnd =>
        \A O \in SUBSET RealOps : RelaxedPlan(O) => heur <= PlanCost(O)

(* The answer is a dead end where the goal is out of reach only, zero only   *)
(* where it can be had for nothing, and a cut is never empty (lm_cut.c:497). *)
AnswerRight ==
    /\ pc # "panic"
    /\ pc = "done" =>
         /\ heur = DeadEnd <=> ~RelaxedPlan(RealOps)
         /\ heur = 0 <=> RelaxedPlan({o \in RealOps : OpCost(o) = 0})

(* Every call comes to an end.                                               *)
Terminates == pc = "full" ~> pc = "done"
=============================================================================
