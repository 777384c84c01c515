---------------------------- MODULE LMCutProofs ----------------------------
(* LM-Cut answers right, for every task and every sequence of calls.         *)
EXTENDS LMCut, FiniteSetTheorems, WellFoundedInduction, TLAPS

---------------------------------------------------------------------------
(* The inductive invariant.                                                  *)

(* What a call starts from, and what it never changes.                       *)
TaskOK ==
    /\ task \in Tasks
    /\ pc # "panic"
    /\ state \subseteq 1..task.facts \cup {NoPre}
    /\ pc # "idle" => NoPre \in state /\ \A f \in state : value[f] = 0

(* The queue holds facts with their estimates, and nothing outside of the    *)
(* two computations of h^max; the fact at work is none of them.              *)
QueueOK ==
    /\ \A f \in Waiting : queue[f] = value[f]
    /\ pc \notin {"full", "inc"} => Waiting = {} /\ todo = {}
    /\ todo # {} => /\ popped \in Fact \X (0..Inf-1)
                    /\ popped[1] \notin Waiting
                    /\ value[popped[1]] = popped[2]
                    /\ todo \subseteq PreOps(popped[1])

(* An operator has a supporter as soon as its preconditions were all seen;   *)
(* what the supporter is taken to cost is never too little, is paid for the  *)
(* effects, and is right unless the supporter waits or is at work.           *)
Settled(o) == suppCost[o] = value[supp[o]]

Supported(o) ==
    /\ supp[o] \in Pre(o)
    /\ \A p \in Pre(o) : Reached(p) /\ value[p] <= suppCost[o]
    /\ \A f \in Eff(o) : Reached(f) /\ value[f] <= cost[o] + suppCost[o]
    /\ Settled(o) \/ supp[o] \in Waiting \/ (o \in todo /\ supp[o] = popped[1])

SuppOK == pc # "idle" => \A o \in Op :
    /\ supp[o] = NoSupp <=> unsat[o] # 0
    /\ supp[o] # NoSupp => Supported(o)

(* The estimates are not too low: every set of facts has one that is paid    *)
(* from outside of it.                                                       *)
Enabled(v, o) == \A p \in Pre(o) : v[p] # Inf

Earned(v, c, f, o) == Enabled(v, o) /\ \A p \in Pre(o) : v[f] >= c[o] + v[p]

Just(v, c) == \A Z \in SUBSET {f \in Fact \ state : v[f] # Inf} : Z # {} =>
    \E f \in Z : \E o \in EffOps(f) : Pre(o) \cap Z = {} /\ Earned(v, c, f, o)

JustOK == pc # "idle" => Just(value, cost)

(* While h^max is computed in full, facts come in the order of their         *)
(* estimates, unsat counts the preconditions that are still to come, and no  *)
(* fact costs more than all the operators that were used.                    *)
Settles(f) == Reached(f) /\ f \notin Waiting

Missing(o) == {p \in Pre(o) : ~Settles(p) \/ (o \in todo /\ p = popped[1])}

Fired == {o \in Op : supp[o] # NoSupp}

FullOK == pc = "full" =>
    /\ cost = [o \in Op |-> OpCost(o)]
    /\ heur = 0 /\ ldms = {}
    /\ \A f \in Fact, g \in Waiting : Settles(f) => value[f] <= value[g]
    /\ todo # {} => \A f \in Fact : Settles(f) => value[f] <= popped[2]
    /\ \A o \in Op : unsat[o] = Cardinality(Missing(o))
    /\ \A f \in Fact : Reached(f) => value[f] <= Cardinality(Units(cost, Fired))

(* After that: what is reached is closed under the operators, and the costs  *)
(* that were taken off are in the estimate.                                  *)
Cutting == pc \in {"cut", "inc", "done"}

CutOK == Cutting =>
    /\ \A o \in Op : Enabled(value, o) => supp[o] # NoSupp
    /\ \A o \in Op : cost[o] <= OpCost(o)
    /\ pc # "done" => Reached(Goal)
    /\ \A L \in ldms : ~RelaxedPlan(RealOps \ L)
    /\ heur = 0 => cost = [o \in Op |-> OpCost(o)]
    /\ Reached(Goal) => \A O \in SUBSET RealOps : RelaxedPlan(O) =>
                            heur + Cardinality(Units(cost, O)) <= PlanCost(O)

DoneOK == pc = "done" => /\ Reached(Goal) => value[Goal] = 0
                         /\ ~Reached(Goal) => heur = DeadEnd

Inv == TypeOK /\ TaskOK /\ QueueOK /\ SuppOK /\ JustOK /\ FullOK /\ CutOK /\ DoneOK

---------------------------------------------------------------------------
(* Least and greatest elements.                                              *)

(* A set of naturals has a least element, and Min is it.                     *)
LEMMA MinOfNat ==
    ASSUME NEW S \in SUBSET Nat, S # {}
    PROVE  Min(S) \in S /\ \A x \in S : Min(S) <= x
<1>1. \E x \in S : \A y \in S : ~(<<y, x>> \in OpToRel(<, Nat))
  <2>1. IsWellFoundedOn(OpToRel(<, Nat), Nat)
    BY NatLessThanWellFounded
  <2> QED  BY <2>1, WFMin
<1>2. PICK x \in S : \A y \in S : ~(<<y, x>> \in OpToRel(<, Nat))
  BY <1>1
<1>3. \A y \in S : x <= y
  <2>1. ASSUME NEW y \in S PROVE x <= y
    <3>1. ~(y < x)
      BY <1>2 DEF OpToRel
    <3> QED  BY <3>1
  <2> QED  BY <2>1
<1>4. QED  BY <1>3 DEF Min

(* A bounded function takes a greatest value.                                *)
LEMMA GreatestValue ==
    ASSUME NEW S, S # {}, NEW n \in Nat, NEW w, \A x \in S : w[x] \in 0..n
    PROVE  \E x \in S : \A y \in S : w[y] <= w[x]
<1> DEFINE D == {n - w[x] : x \in S}
<1>1. D \in SUBSET Nat /\ D # {}
  OBVIOUS
<1>2. Min(D) \in D /\ \A d \in D : Min(D) <= d
  BY <1>1, MinOfNat
<1>3. PICK x \in S : Min(D) = n - w[x]
  BY <1>2
<1>4. \A y \in S : n - w[x] <= n - w[y]
  BY <1>2, <1>3
<1>5. \A y \in S : w[y] <= w[x]
  BY <1>4
<1> QED  BY <1>5

(* Max is the value that no other exceeds.                                   *)
LEMMA MaxIs ==
    ASSUME NEW S \in SUBSET Nat, NEW m \in S, \A x \in S : x <= m
    PROVE  Max(S) = m
<1>1. \A x \in S : m >= x
  OBVIOUS
<1>2. Max(S) \in S /\ \A x \in S : Max(S) >= x
  BY <1>1 DEF Max
<1>3. Max(S) <= m /\ m <= Max(S) /\ Max(S) \in Nat /\ m \in Nat
  BY <1>2
<1> QED  BY <1>3

---------------------------------------------------------------------------
(* The task.                                                                 *)

(* The artificial facts and the operator of the goal, and what the operators *)
(* range over.                                                               *)
LEMMA TaskFacts ==
    ASSUME task \in Tasks
    PROVE  /\ task.facts \in Nat
           /\ task.goal \subseteq 1..task.facts /\ task.goal # {}
           /\ Fact = 1..task.facts \cup {Goal, NoPre} /\ Fact \subseteq Nat \ {0}
           /\ Goal \notin 1..task.facts /\ NoPre \notin 1..task.facts /\ Goal # NoPre
           /\ Op \subseteq Nat /\ OpGoal \in Op /\ RealOps = DOMAIN task.ops
           /\ \A o \in Op : Pre(o) \subseteq Fact /\ Pre(o) # {} /\ Eff(o) \subseteq Fact
           /\ Pre(OpGoal) = task.goal /\ Eff(OpGoal) = {Goal}
           /\ \A o \in RealOps : Goal \notin Pre(o) /\ Eff(o) \subseteq 1..task.facts
           /\ \A o \in Op : OpCost(o) \in Nat
           /\ OpCost(OpGoal) = 0
           /\ Inf \in Nat \ {0} /\ DeadEnd \in Nat \ {0}
<1>1. IsTask(task)
  BY TaskAssumption
<1>a. Inf \in Nat \ {0} /\ DeadEnd \in Nat \ {0}
  <2>1. \E n : n \in (0..Inf-1) \cap (0..DeadEnd-1)
    BY <1>1 DEF IsTask
  <2> QED  BY <2>1, InfAssumption
<1>2. task.facts \in Nat /\ task.goal \subseteq 1..task.facts /\ task.goal # {}
  BY <1>1 DEF IsTask
<1> DEFINE Oper == [pre : SUBSET (1..task.facts), eff : SUBSET (1..task.facts), cost : Nat]
<1>3. Len(task.ops) \in Nat /\ DOMAIN task.ops = 1..Len(task.ops)
      /\ \A o \in 1..Len(task.ops) : task.ops[o] \in Oper
  <2>1. task.ops \in Seq(Oper)
    BY <1>1 DEF IsTask
  <2> HIDE DEF Oper
  <2> QED  BY <2>1
<1>4. Fact = 1..task.facts \cup {Goal, NoPre} /\ Fact \subseteq Nat \ {0}
      /\ Goal \notin 1..task.facts /\ NoPre \notin 1..task.facts /\ Goal # NoPre
  BY <1>2 DEF Fact, Goal, NoPre
<1>5. Op \subseteq Nat /\ OpGoal \in Op /\ RealOps = DOMAIN task.ops
  BY <1>3 DEF Op, OpGoal, RealOps
<1>6. Pre(OpGoal) = task.goal /\ Eff(OpGoal) = {Goal} /\ OpCost(OpGoal) = 0
  BY DEF Pre, Eff, OpCost
<1>7. ASSUME NEW o \in RealOps
      PROVE  /\ Pre(o) \subseteq Fact /\ Pre(o) # {} /\ Goal \notin Pre(o)
             /\ Eff(o) \subseteq 1..task.facts /\ OpCost(o) \in Nat
  <2>1. o # OpGoal /\ task.ops[o].pre \subseteq 1..task.facts
        /\ task.ops[o].eff \subseteq 1..task.facts /\ task.ops[o].cost \in Nat
    BY <1>3, <1>5 DEF RealOps
  <2> QED  BY <2>1, <1>4 DEF Pre, Eff, OpCost
<1>8. \A o \in Op : o = OpGoal \/ o \in RealOps
  BY DEF RealOps
<1> QED  BY <1>a, <1>2, <1>4, <1>5, <1>6, <1>7, <1>8

(* A step that keeps the task keeps what is made of it.                      *)
LEMMA SameTask ==
    ASSUME UNCHANGED task
    PROVE  /\ UNCHANGED <<Fact, Op, Goal, NoPre, OpGoal, RealOps>>
           /\ \A o : Pre(o)' = Pre(o) /\ Eff(o)' = Eff(o) /\ OpCost(o)' = OpCost(o)
           /\ \A f : PreOps(f)' = PreOps(f) /\ EffOps(f)' = EffOps(f)
BY DEF Fact, Op, Goal, NoPre, OpGoal, RealOps, Pre, Eff, OpCost, PreOps, EffOps

---------------------------------------------------------------------------
(* Justification.                                                            *)

(* It survives a step in which costs go down and every estimate that goes    *)
(* down is paid by an operator whose preconditions were reached before.      *)
LEMMA JustStep ==
    ASSUME task \in Tasks,
           NEW v \in [Fact -> 0..Inf], NEW w \in [Fact -> 0..Inf],
           NEW c \in [Op -> Nat], NEW d \in [Op -> Nat],
           Just(v, c),
           \A o \in Op : d[o] <= c[o],
           \A f \in Fact : w[f] <= v[f],
           \A f \in Fact : w[f] = v[f] \/ \E o \in EffOps(f) :
               Enabled(v, o) /\ \A p \in Pre(o) : d[o] + v[p] <= w[f]
    PROVE  Just(w, d)
<1> USE InfAssumption
<1>t. /\ \A o \in Op : Pre(o) \subseteq Fact
      /\ \A f : EffOps(f) \subseteq Op
  BY TaskFacts DEF EffOps
<1> SUFFICES ASSUME NEW Z \in SUBSET {f \in Fact \ state : w[f] # Inf}, Z # {}
             PROVE  \E f \in Z : \E o \in EffOps(f) :
                        Pre(o) \cap Z = {} /\ Earned(w, d, f, o)
  BY DEF Just
<1> DEFINE V == {w[f] : f \in Z}
<1>1. Min(V) \in V /\ \A x \in V : Min(V) <= x
  <2>1. V \in SUBSET Nat /\ V # {}
    OBVIOUS
  <2> QED  BY <2>1, MinOfNat
<1>2. PICK low \in Z : \A f \in Z : w[low] <= w[f]
  BY <1>1
<1> DEFINE Old == {f \in Z : v[f] = w[low]}
<1>3. CASE Old = {}
  <2>1. w[low] # v[low]
    BY <1>3
  <2>2. PICK o \in EffOps(low) : Enabled(v, o) /\ \A p \in Pre(o) : d[o] + v[p] <= w[low]
    BY <2>1
  <2>3. o \in Op /\ Pre(o) \subseteq Fact
    BY <1>t
  <2>4. ASSUME NEW p \in Pre(o) PROVE v[p] <= w[low] /\ w[p] # Inf /\ d[o] + w[p] <= w[low]
    <3>1. d[o] \in Nat /\ v[p] \in 0..Inf /\ w[p] \in 0..Inf /\ w[p] <= v[p] /\ d[o] + v[p] <= w[low]
          /\ w[low] \in 0..Inf
      BY <2>2, <2>3
    <3>2. v[p] # Inf
      BY <2>2 DEF Enabled
    <3> QED  BY <3>1, <3>2
  <2>5. ASSUME NEW p \in Pre(o), p \in Z PROVE FALSE
    <3>1. v[p] <= w[low] /\ w[low] <= w[p] /\ w[p] <= v[p]
      BY <2>3, <2>4, <2>5, <1>2
    <3>2. v[p] \in Nat /\ w[p] \in Nat /\ w[low] \in Nat
      BY <2>3
    <3>3. v[p] = w[low]
      BY <3>1, <3>2
    <3> QED  BY <3>3, <2>5, <1>3
  <2>6. Earned(w, d, low, o)
    BY <2>4 DEF Earned, Enabled
  <2> QED  BY <2>2, <2>5, <2>6
<1>4. CASE Old # {}
  <2>1. Old \in SUBSET {f \in Fact \ state : v[f] # Inf}
    OBVIOUS
  <2>2. PICK f \in Old : \E o \in EffOps(f) : Pre(o) \cap Old = {} /\ Earned(v, c, f, o)
    BY <2>1, <1>4 DEF Just
  <2>3. PICK o \in EffOps(f) : Pre(o) \cap Old = {} /\ Earned(v, c, f, o)
    BY <2>2
  <2>4. o \in Op /\ Pre(o) \subseteq Fact /\ f \in Z /\ f \in Fact /\ v[f] = w[low]
    BY <1>t
  <2>5. w[f] = w[low]
    <3>1. w[f] <= v[f] /\ w[low] <= w[f] /\ w[f] \in Nat /\ w[low] \in Nat
      BY <2>4, <1>2
    <3> QED  BY <3>1, <2>4
  <2>6. ASSUME NEW p \in Pre(o)
        PROVE  v[p] <= w[low] /\ w[p] <= v[p] /\ w[p] # Inf /\ d[o] + w[p] <= w[f]
    <3>1. d[o] \in Nat /\ c[o] \in Nat /\ v[p] \in 0..Inf /\ w[p] \in 0..Inf /\ w[p] <= v[p]
          /\ d[o] <= c[o] /\ w[low] \in 0..Inf
      BY <2>4
    <3>2. v[p] # Inf /\ c[o] + v[p] <= w[low]
      BY <2>3, <2>4 DEF Earned, Enabled
    <3> QED  BY <3>1, <3>2, <2>5
  <2>7. ASSUME NEW p \in Pre(o), p \in Z PROVE FALSE
    <3>1. v[p] <= w[low] /\ w[low] <= w[p] /\ w[p] <= v[p]
      BY <2>6, <2>7, <1>2
    <3>2. v[p] \in Nat /\ w[p] \in Nat /\ w[low] \in Nat
      BY <2>4
    <3>3. v[p] = w[low]
      BY <3>1, <3>2
    <3> QED  BY <3>3, <2>7, <2>3
  <2>8. Earned(w, d, f, o)
    BY <2>6 DEF Earned, Enabled
  <2> QED  BY <2>3, <2>4, <2>7, <2>8
<1> QED  BY <1>3, <1>4

(* What the next estimates and costs are for this state they are for the     *)
(* next one.                                                                 *)
LEMMA JustNext ==
    ASSUME UNCHANGED <<task, state>>, Just(value', cost')
    PROVE  Just(value, cost)'
<1>1. ASSUME NEW Z \in SUBSET {f \in Fact \ state : value'[f] # Inf}, Z # {}
      PROVE  \E f \in Z : \E o \in EffOps(f)' :
                Pre(o)' \cap Z = {} /\ Earned(value, cost, f, o)'
  <2>0. PICK f \in Z : \E o \in EffOps(f) : Pre(o) \cap Z = {} /\ Earned(value', cost', f, o)
    BY <1>1 DEF Just
  <2>1. PICK o \in EffOps(f) : Pre(o) \cap Z = {} /\ Earned(value', cost', f, o)
    BY <2>0
  <2>2. EffOps(f)' = EffOps(f) /\ Pre(o)' = Pre(o)
    BY SameTask
  <2>3. Earned(value, cost, f, o)'
    BY <2>1, <2>2 DEF Earned, Enabled
  <2> QED  BY <2>1, <2>2, <2>3
<1>2. Fact' = Fact
  BY SameTask
<1> QED  BY <1>1, <1>2 DEF Just

---------------------------------------------------------------------------
(* Units of cost.                                                            *)

(* The operators of a finite set have finitely many.                         *)
LEMMA UnitsFinite ==
    ASSUME NEW O, IsFiniteSet(O), NEW c, \A o \in O : c[o] \in Nat
    PROVE  IsFiniteSet(Units(c, O)) /\ Cardinality(Units(c, O)) \in Nat
<1> DEFINE u == [o \in O |-> {o} \X (1..c[o])]
           T == {{o} \X (1..c[o]) : o \in O}
<1>1. u \in Surjection(O, T)
  BY DEF Surjection
<1>2. IsFiniteSet(T)
  BY <1>1, FS_Surjection
<1>3. ASSUME NEW o \in O PROVE IsFiniteSet({o} \X (1..c[o]))
  <2>1. c[o] \in Int /\ 1 \in Int
    OBVIOUS
  <2>2. IsFiniteSet(1..c[o])
    BY <2>1, FS_Interval
  <2>3. IsFiniteSet({o})
    BY FS_Singleton
  <2> QED  BY <2>2, <2>3, FS_Product
<1>4. \A X \in T : IsFiniteSet(X)
  BY <1>3
<1>5. IsFiniteSet(UNION T)
  BY <1>2, <1>4, FS_UNION
<1> QED  BY <1>5, FS_CardinalityType DEF Units

(* As many units of one operator as the set of their numbers has.            *)
LEMMA UnitsOfOne ==
    ASSUME NEW o, NEW J, IsFiniteSet(J)
    PROVE  IsFiniteSet({o} \X J) /\ Cardinality({o} \X J) = Cardinality(J)
<1>1. IsFiniteSet({o}) /\ Cardinality({o}) = 1
  BY FS_Singleton
<1>2. IsFiniteSet({o} \X J) /\ Cardinality({o} \X J) = Cardinality({o}) * Cardinality(J)
  BY <1>1, FS_Product
<1>3. Cardinality(J) \in Nat
  BY FS_CardinalityType
<1> QED  BY <1>1, <1>2, <1>3

(* Another operator adds its cost.                                           *)
LEMMA UnitsAdd ==
    ASSUME NEW O, IsFiniteSet(O), NEW o, o \notin O, NEW c,
           \A x \in O \cup {o} : c[x] \in Nat
    PROVE  Cardinality(Units(c, O \cup {o})) = Cardinality(Units(c, O)) + c[o]
<1> DEFINE D == {o} \X (1..c[o])
<1>1. IsFiniteSet(Units(c, O)) /\ Cardinality(Units(c, O)) \in Nat
  BY UnitsFinite
<1>2. IsFiniteSet(D) /\ Cardinality(D) = c[o]
  <2> DEFINE J == 1..c[o]
  <2>1. IsFiniteSet(J) /\ Cardinality(J) = c[o]
    BY FS_Interval
  <2> HIDE DEF J
  <2>2. IsFiniteSet({o} \X J) /\ Cardinality({o} \X J) = c[o]
    BY <2>1, UnitsOfOne
  <2> QED  BY <2>2 DEF J
<1>3. Units(c, O \cup {o}) = Units(c, O) \cup D
  BY DEF Units
<1>4. Cardinality(Units(c, O) \cap D) = 0
  <2>1. Units(c, O) \cap D = {}
    BY DEF Units
  <2> QED  BY <2>1, FS_EmptySet
<1>5. Cardinality(Units(c, O) \cup D) = Cardinality(Units(c, O)) + c[o] - Cardinality(Units(c, O) \cap D)
  BY <1>1, <1>2, FS_Union
<1>6. Cardinality(Units(c, O \cup {o})) = Cardinality(Units(c, O) \cup D)
  BY <1>3
<1>7. c[o] \in Nat
  OBVIOUS
<1> QED  BY <1>1, <1>4, <1>5, <1>6, <1>7

(* More operators have no fewer units.                                       *)
LEMMA UnitsMore ==
    ASSUME NEW P, IsFiniteSet(P), NEW O \in SUBSET P, NEW c, \A o \in P : c[o] \in Nat
    PROVE  Cardinality(Units(c, O)) <= Cardinality(Units(c, P))
<1>1. IsFiniteSet(Units(c, P))
  BY UnitsFinite
<1>2. Units(c, O) \in SUBSET Units(c, P)
  BY DEF Units
<1> QED  BY <1>1, <1>2, FS_Subset

(* What one operator loses the units lose.                                   *)
LEMMA UnitsLess ==
    ASSUME NEW O, IsFiniteSet(O), NEW o \in O, NEW c, NEW d, NEW m \in Nat,
           \A x \in O : c[x] \in Nat /\ d[x] \in Nat /\ d[x] <= c[x],
           d[o] + m = c[o]
    PROVE  Cardinality(Units(d, O)) + m <= Cardinality(Units(c, O))
<1> DEFINE D == {o} \X (d[o]+1..d[o]+m)
<1>1. IsFiniteSet(Units(c, O)) /\ IsFiniteSet(Units(d, O))
      /\ Cardinality(Units(c, O)) \in Nat /\ Cardinality(Units(d, O)) \in Nat
  BY UnitsFinite
<1>2. IsFiniteSet(D) /\ Cardinality(D) = m
  <2> DEFINE J == d[o]+1..d[o]+m
  <2>1. IsFiniteSet(J) /\ Cardinality(J) = m
    <3>1. d[o]+1 \in Int /\ d[o]+m \in Int /\ (d[o]+m) - (d[o]+1) + 1 = m
          /\ (d[o]+1 > d[o]+m => m = 0)
      OBVIOUS
    <3> QED  BY <3>1, FS_Interval
  <2> HIDE DEF J
  <2>2. IsFiniteSet({o} \X J) /\ Cardinality({o} \X J) = m
    BY <2>1, UnitsOfOne
  <2> QED  BY <2>2 DEF J
<1>3. Units(d, O) \cup D \in SUBSET Units(c, O)
  <2>1. ASSUME NEW x \in O PROVE {x} \X (1..d[x]) \subseteq {x} \X (1..c[x])
    <3>1. 1..d[x] \subseteq 1..c[x]
      OBVIOUS
    <3> QED  BY <3>1
  <2>2. D \subseteq {o} \X (1..c[o])
    <3>1. d[o]+1..d[o]+m \subseteq 1..c[o]
      OBVIOUS
    <3> QED  BY <3>1
  <2> QED  BY <2>1, <2>2 DEF Units
<1>4. Cardinality(Units(d, O) \cap D) = 0
  <2>1. Units(d, O) \cap D = {}
    BY DEF Units
  <2> QED  BY <2>1, FS_EmptySet
<1>5. Cardinality(Units(d, O) \cup D) = Cardinality(Units(d, O)) + m - Cardinality(Units(d, O) \cap D)
  BY <1>1, <1>2, FS_Union
<1>6. Cardinality(Units(d, O) \cup D) <= Cardinality(Units(c, O))
  BY <1>1, <1>3, FS_Subset
<1> HIDE DEF D
<1> QED  BY <1>1, <1>4, <1>5, <1>6

(* Only the costs of the operators in the set count.                         *)
LEMMA UnitsSame ==
    ASSUME NEW O, NEW c, NEW d, \A o \in O : c[o] = d[o]
    PROVE  Units(c, O) = Units(d, O)
BY DEF Units

(* The plans of a state stay what they are while the state does.              *)
LEMMA SamePlans ==
    ASSUME UNCHANGED <<task, state>>
    PROVE  \A O : RelaxedPlan(O)' = RelaxedPlan(O) /\ PlanCost(O)' = PlanCost(O)
BY SameTask DEF RelaxedPlan, Leaves, PlanCost, Units

(* There are finitely many operators, and all of them together cost less     *)
(* than what stands for no value.                                            *)
LEMMA TotalCost ==
    ASSUME task \in Tasks
    PROVE  /\ IsFiniteSet(Op) /\ IsFiniteSet(RealOps)
           /\ \A o \in Op : IsFiniteSet(Pre(o))
           /\ LET total == Cardinality(Units([o \in Op |-> OpCost(o)], Op))
              IN  total \in Nat /\ total < Inf /\ total < DeadEnd
<1> DEFINE c == [o \in Op |-> OpCost(o)]
           t == [o \in DOMAIN task.ops |-> task.ops[o].cost]
<1>1. IsTask(task)
  BY TaskAssumption
<1>2. Cardinality(Units(t, DOMAIN task.ops)) \in (0..Inf-1) \cap (0..DeadEnd-1)
  BY <1>1 DEF IsTask
<1>3. Units(c, Op) = Units(t, DOMAIN task.ops)
  <2>1. Op = RealOps \cup {OpGoal} /\ RealOps = DOMAIN task.ops /\ OpGoal \notin RealOps
    BY TaskFacts DEF RealOps
  <2>2. 1..c[OpGoal] = {}
    BY TaskFacts
  <2>3. \A o \in RealOps : c[o] = t[o]
    BY <2>1, TaskFacts DEF OpCost
  <2> HIDE DEF c, t
  <2> QED  BY <2>1, <2>2, <2>3 DEF Units
<1>4. IsFiniteSet(Op)
  <2>1. Len(task.ops) + 1 \in Int
    BY TaskFacts DEF Op, OpGoal
  <2> QED  BY <2>1, FS_Interval DEF Op, OpGoal
<1>5. IsFiniteSet(RealOps)
  BY <1>4, FS_Subset DEF RealOps
<1>6. ASSUME NEW o \in Op PROVE IsFiniteSet(Pre(o))
  <2>1. NoPre \in Int
    BY TaskFacts DEF NoPre
  <2>2. IsFiniteSet(Fact)
    BY <2>1, FS_Interval DEF Fact
  <2> QED  BY <2>2, TaskFacts, FS_Subset
<1>7. Cardinality(Units(c, Op)) \in (0..Inf-1) \cap (0..DeadEnd-1)
  BY <1>2, <1>3
<1> HIDE DEF c
<1>8. Cardinality(Units(c, Op)) \in Nat /\ Cardinality(Units(c, Op)) < Inf
      /\ Cardinality(Units(c, Op)) < DeadEnd
  BY <1>7, InfAssumption
<1> QED  BY <1>4, <1>5, <1>6, <1>8 DEF c

---------------------------------------------------------------------------
(* Offers.                                                                   *)

(* What is offered to the effects of operators makes no fact dearer, none    *)
(* dearer than the offer, and none cheaper without one.                      *)
Offered(w, O, c, base) ==
    /\ w \in [Fact -> 0..Inf]
    /\ \A f \in Fact : w[f] <= value[f]
    /\ \A o \in O : \A f \in Eff(o) : w[f] <= c[o] + base[o]
    /\ \A f \in Fact : w[f] = value[f] \/
           \E o \in O : f \in Eff(o) /\ w[f] = c[o] + base[o]

(* What Offer computes is offered in this sense.                              *)
LEMMA OfferFacts ==
    ASSUME task \in Tasks, value \in [Fact -> 0..Inf],
           NEW O \in SUBSET Op, NEW c \in [Op -> Nat], NEW base, \A o \in O : base[o] \in Nat,
           NEW w, w = Offer(O, c, base)
    PROVE  Offered(w, O, c, base)
<1> DEFINE offers(f) == {value[f]} \cup {c[o] + base[o] : o \in {x \in O : f \in Eff(x)}}
<1> USE InfAssumption
<1>1. ASSUME NEW f \in Fact
      PROVE  /\ w[f] \in offers(f) /\ \A x \in offers(f) : w[f] <= x
             /\ w[f] \in 0..Inf /\ w[f] <= value[f]
  <2>1. w[f] = Min(offers(f))
    BY DEF Offer
  <2>2. offers(f) \in SUBSET Nat /\ value[f] \in offers(f)
    OBVIOUS
  <2>3. Min(offers(f)) \in offers(f) /\ \A x \in offers(f) : Min(offers(f)) <= x
    <3> HIDE DEF offers
    <3> QED  BY <2>2, MinOfNat
  <2>4. w[f] \in offers(f) /\ \A x \in offers(f) : w[f] <= x
    BY <2>1, <2>3
  <2>5. w[f] <= value[f] /\ w[f] \in Nat /\ value[f] \in 0..Inf
    BY <2>2, <2>4
  <2> QED  BY <2>4, <2>5
<1>2. w = [f \in Fact |-> w[f]]
  BY DEF Offer
<1>3. w \in [Fact -> 0..Inf]
  BY <1>1, <1>2
<1>4. \A o \in O : \A f \in Eff(o) : w[f] <= c[o] + base[o]
  <2>1. ASSUME NEW o \in O, NEW f \in Eff(o) PROVE w[f] <= c[o] + base[o]
    <3>1. f \in Fact
      BY TaskFacts
    <3> QED  BY <1>1, <3>1
  <2> QED  BY <2>1
<1>5. \A f \in Fact : w[f] = value[f] \/ \E o \in O : f \in Eff(o) /\ w[f] = c[o] + base[o]
  BY <1>1
<1> QED  BY <1>1, <1>3, <1>4, <1>5 DEF Offered

(* They are put in the queue with their new estimates.                       *)
LEMMA EnqueueFacts ==
    ASSUME TypeOK, task \in Tasks, \A f \in Waiting : queue[f] = value[f],
           NEW O \in SUBSET Op, NEW c \in [Op -> Nat], NEW base, \A o \in O : base[o] \in Nat,
           Enqueue(O, c, base)
    PROVE  /\ Offered(value', O, c, base)
           /\ Waiting' = Waiting \cup {f \in Fact : value'[f] # value[f]}
           /\ Waiting' \subseteq Fact
           /\ \A f \in Waiting' : queue'[f] = value'[f] /\ queue'[f] \in 0..Inf-1
<1> USE InfAssumption
<1>1. value \in [Fact -> 0..Inf]
  BY DEF TypeOK
<1>2. value' = Offer(O, c, base)
  BY DEF Enqueue
<1>3. /\ Offered(value', O, c, base)
      /\ value' \in [Fact -> 0..Inf] /\ \A f \in Fact : value'[f] <= value[f]
  <2>1. Offered(value', O, c, base)
    BY <1>1, <1>2, OfferFacts
  <2> QED  BY <2>1 DEF Offered
<1> DEFINE lower == {f \in Fact : value'[f] < value[f]}
<1>4. queue' = [f \in Waiting \cup lower |-> value'[f]]
  BY DEF Enqueue
<1>5. Waiting' = Waiting \cup lower /\ \A f \in Waiting' : queue'[f] = value'[f]
  BY <1>4 DEF Waiting
<1>6. lower = {f \in Fact : value'[f] # value[f]}
  <2>1. ASSUME NEW f \in Fact PROVE value'[f] < value[f] <=> value'[f] # value[f]
    BY <1>1, <1>3
  <2> QED  BY <2>1
<1>7. ASSUME NEW f \in Waiting' PROVE f \in Fact /\ value'[f] \in 0..Inf-1
  <2>1. f \in Fact
    BY <1>5 DEF TypeOK
  <2>2. value'[f] \in 0..Inf /\ value[f] \in 0..Inf /\ value'[f] <= value[f]
    BY <1>1, <1>3, <2>1
  <2>3. f \in lower \/ value[f] \in 0..Inf-1
    BY <1>5 DEF TypeOK
  <2> QED  BY <2>1, <2>2, <2>3
<1> HIDE DEF lower
<1> QED  BY <1>3, <1>5, <1>6, <1>7

---------------------------------------------------------------------------
(* The invariant, action by action.                                          *)

(* The invariant holds before the first call.                                 *)
LEMMA InvInit == Init => Inv
<1> SUFFICES ASSUME Init PROVE Inv
  OBVIOUS
<1>1. task \in Tasks /\ pc = "idle" /\ state = {} /\ Waiting = {} /\ todo = {}
  BY DEF Init, Waiting
<1>2. TypeOK
  BY <1>1, TaskFacts, InfAssumption DEF TypeOK, Init
<1>3. TaskOK /\ QueueOK /\ SuppOK /\ JustOK /\ FullOK /\ CutOK /\ DoneOK
  BY <1>1 DEF TaskOK, QueueOK, SuppOK, JustOK, FullOK, CutOK, DoneOK, Cutting
<1> QED  BY <1>2, <1>3 DEF Inv

(* A call starts with the facts of the state in the queue and no supporters. *)
LEMMA InvStart ==
    ASSUME Inv, NEW s \in SUBSET (1..task.facts), Start(s)
    PROVE  Inv'
<1>1. task \in Tasks /\ UNCHANGED task /\ TypeOK
  BY DEF Inv, TaskOK, Start
<1>t. /\ UNCHANGED <<Fact, Op, NoPre>>
      /\ \A o : Pre(o)' = Pre(o) /\ Eff(o)' = Eff(o) /\ OpCost(o)' = OpCost(o)
  BY <1>1, SameTask
<1>2. /\ pc' = "full" /\ todo' = {} /\ popped' = None /\ heur' = 0 /\ ldms' = {}
      /\ state' = s \cup {NoPre} /\ Waiting' = state' /\ state' \subseteq Fact
      /\ value' = [f \in Fact |-> IF f \in state' THEN 0 ELSE Inf]
      /\ queue' = [f \in state' |-> 0]
      /\ unsat' = [o \in Op |-> Cardinality(Pre(o))]
      /\ supp' = [o \in Op |-> NoSupp]
      /\ suppCost' = [o \in Op |-> Inf]
      /\ cost' = [o \in Op |-> OpCost(o)]
  BY <1>1, TaskFacts DEF Start, StartCost, Waiting
<1>3. \A o \in Op : Cardinality(Pre(o)) \in Nat /\ Cardinality(Pre(o)) # 0
  <2>1. ASSUME NEW o \in Op PROVE Cardinality(Pre(o)) \in Nat /\ Cardinality(Pre(o)) # 0
    <3>1. IsFiniteSet(Pre(o)) /\ Pre(o) # {}
      BY <1>1, TotalCost, TaskFacts
    <3> QED  BY <3>1, FS_CardinalityType, FS_EmptySet
  <2> QED  BY <2>1
<1>4. TypeOK'
  BY <1>1, <1>t, <1>2, <1>3, TaskFacts DEF TypeOK, NoSupp
<1>5. TaskOK'
  BY <1>1, <1>t, <1>2 DEF TaskOK
<1>6. QueueOK'
  BY <1>2 DEF QueueOK
<1>7. SuppOK'
  BY <1>t, <1>2, <1>3 DEF SuppOK
<1>8. JustOK'
  BY <1>t, <1>2 DEF JustOK, Just
<1>9. FullOK'
  <2>1. ASSUME NEW o \in Op PROVE Missing(o)' = Pre(o)
    <3>1. \A p \in Fact : ~Settles(p)'
      BY <1>2 DEF Settles, Reached
    <3>2. Pre(o) \subseteq Fact /\ Pre(o)' = Pre(o)
      BY <1>1, <1>t, TaskFacts
    <3> QED  BY <3>1, <3>2 DEF Missing
  <2>2. Fired' = {}
    BY <1>t, <1>2 DEF Fired
  <2>3. Cardinality(Units(cost', {})) = 0
    BY FS_EmptySet DEF Units
  <2>4. \A f \in Fact : Reached(f)' => value'[f] = 0 /\ f \in Waiting'
    BY <1>2 DEF Reached
  <2>5. Cardinality(Units(cost, Fired))' = 0
    <3>1. Units(cost, Fired)' = Units(cost', Fired')
      BY DEF Units
    <3> QED  BY <2>2, <2>3, <3>1
  <2>6. \A f \in Fact' : Reached(f)' => value'[f] <= Cardinality(Units(cost, Fired))'
    BY <2>4, <2>5, <1>t
  <2>7. \A f \in Fact', g \in Waiting' : Settles(f)' => value'[f] <= value'[g]
    BY <2>4, <1>t DEF Settles
  <2>8. cost' = [o \in Op' |-> OpCost(o)']
    BY <1>t, <1>2
  <2>9. \A o \in Op' : unsat'[o] = Cardinality(Missing(o))'
    BY <2>1, <1>t, <1>2
  <2> QED  BY <1>2, <2>6, <2>7, <2>8, <2>9 DEF FullOK
<1>10. CutOK' /\ DoneOK'
  BY <1>2 DEF CutOK, DoneOK, Cutting
<1> QED  BY <1>4, <1>5, <1>6, <1>7, <1>8, <1>9, <1>10 DEF Inv

(* A fact that leaves the queue is at work: it counts as missing until its   *)
(* operators were visited.                                                   *)
LEMMA InvPop ==
    ASSUME Inv, Pop
    PROVE  Inv'
<1>1. /\ task \in Tasks /\ UNCHANGED task /\ TypeOK /\ QueueOK
      /\ pc \in {"full", "inc"} /\ todo = {}
      /\ UNCHANGED <<pc, state, value, unsat, supp, suppCost, cost, ldms, heur>>
  BY DEF Inv, TaskOK, Pop
<1>t. /\ UNCHANGED <<Fact, Op, Goal, NoPre, RealOps>>
      /\ \A o : Pre(o)' = Pre(o) /\ Eff(o)' = Eff(o) /\ OpCost(o)' = OpCost(o)
      /\ \A f : PreOps(f)' = PreOps(f) /\ EffOps(f)' = EffOps(f)
  BY <1>1, SameTask
<1>2. PICK f \in Waiting : Queue!Pop(f) /\ todo' = PreOps(f)
  BY DEF Pop
<1>3. /\ \A g \in Waiting : value[f] <= value[g]
      /\ popped' = <<f, value[f]>> /\ popped'[1] = f /\ popped'[2] = value[f]
      /\ Waiting' = Waiting \ {f} /\ \A g \in Waiting' : queue'[g] = queue[g]
  BY <1>1, <1>2 DEF Queue!Pop, Queue!Lowest, Queue!Queued, QueueOK, Waiting
<1>4. f \in Fact /\ value[f] \in 0..Inf-1 /\ Reached(f) /\ todo' \subseteq Op
  <2>1. f \in Fact /\ value[f] \in 0..Inf-1
    BY <1>1, <1>2 DEF QueueOK, TypeOK
  <2> QED  BY <2>1, <1>2, InfAssumption DEF Reached, PreOps
<1>5. TypeOK'
  <2>1. popped' \in Fact \X (0..Inf)
    BY <1>3, <1>4, InfAssumption
  <2> QED  BY <1>1, <1>t, <1>3, <1>4, <2>1 DEF TypeOK
<1>6. TaskOK'
  BY <1>1, <1>t DEF Inv, TaskOK
<1>7. QueueOK'
  <2>1. popped' \in Fact \X (0..Inf-1)
    BY <1>3, <1>4
  <2> QED  BY <1>1, <1>t, <1>2, <1>3, <2>1 DEF QueueOK
<1>8. SuppOK'
  <2>1. ASSUME NEW o \in Op, supp[o] # NoSupp PROVE Supported(o)'
    <3>1. Supported(o)
      BY <1>1, <2>1 DEF Inv, SuppOK
    <3>2. supp[o] \in Pre(o) /\ (Settled(o) \/ supp[o] \in Waiting)
      BY <1>1, <3>1 DEF Supported
    <3>3. Settled(o)' \/ supp'[o] \in Waiting' \/ (o \in todo' /\ supp'[o] = popped'[1])
      BY <1>1, <1>2, <1>3, <3>2 DEF Settled, PreOps
    <3> QED  BY <1>1, <1>t, <3>1, <3>3 DEF Supported, Reached
  <2> QED  BY <1>1, <1>t, <2>1 DEF Inv, SuppOK
<1>9. JustOK'
  BY <1>1, JustNext DEF Inv, JustOK
<1>10. FullOK'
  <2> SUFFICES ASSUME pc = "full" PROVE FullOK'
    BY <1>1 DEF FullOK
  <2>1. \A g : Settles(g)' <=> (Settles(g) \/ g = f)
    BY <1>1, <1>2, <1>3, <1>4 DEF Settles, Reached
  <2>2. ASSUME NEW o \in Op PROVE Missing(o)' = Missing(o)
    <3>1. f \in Pre(o) <=> o \in todo'
      BY <1>2 DEF PreOps
    <3>2. ~Settles(f)
      BY <1>2 DEF Settles
    <3> QED  BY <1>1, <1>t, <1>3, <2>1, <3>1, <3>2 DEF Missing
  <2>3. \A g \in Fact : Settles(g)' => value[g] <= value[f]
    <3>1. ASSUME NEW g \in Fact, Settles(g)' PROVE value[g] <= value[f]
      BY <1>2, <1>4, <2>1, <3>1 DEF Inv, FullOK
    <3> QED  BY <3>1
  <2>4. \A g \in Fact, h \in Waiting' : Settles(g)' => value[g] <= value[h]
    <3>1. ASSUME NEW g \in Fact, NEW h \in Waiting', Settles(g)' PROVE value[g] <= value[h]
      BY <1>3, <2>1, <3>1 DEF Inv, FullOK
    <3> QED  BY <3>1
  <2>5. Units(cost, Fired)' = Units(cost, Fired)
    BY <1>1, <1>t DEF Units, Fired
  <2> QED  BY <1>1, <1>t, <1>3, <2>2, <2>3, <2>4, <2>5 DEF Inv, FullOK, Reached
<1>11. CutOK'
  <2>1. \A O : /\ RelaxedPlan(O)' = RelaxedPlan(O)
               /\ PlanCost(O)' = PlanCost(O)
               /\ Units(cost, O)' = Units(cost, O)
    BY <1>1, SamePlans DEF Units
  <2> QED  BY <1>1, <1>t, <2>1 DEF Inv, CutOK, Cutting, Enabled, Reached
<1>12. DoneOK'
  BY <1>1 DEF DoneOK
<1> QED  BY <1>5, <1>6, <1>7, <1>8, <1>9, <1>10, <1>11, <1>12 DEF Inv

(* The fact at work is a missing precondition of the operators that are      *)
(* still to be visited, and dearer than what was seen before.                *)
LEMMA AtWork ==
    ASSUME Inv, pc = "full", NEW o \in todo
    PROVE  /\ o \in Op /\ popped[1] \in Pre(o) /\ popped[1] \in Fact
           /\ popped[2] \in 0..Inf-1 /\ value[popped[1]] = popped[2]
           /\ Settles(popped[1])
           /\ \A f \in Fact : Settles(f) => value[f] <= popped[2]
           /\ \A g \in Waiting : popped[2] <= value[g]
           /\ supp[o] = NoSupp
           /\ unsat[o] = Cardinality(Missing(o)) /\ unsat[o] \in Nat \ {0}
           /\ popped[1] \in Missing(o)
           /\ Cardinality(Missing(o) \ {popped[1]}) = unsat[o] - 1
           /\ unsat[o] = 1 => Missing(o) = {popped[1]}
<1>1. TypeOK /\ QueueOK /\ SuppOK /\ FullOK /\ task \in Tasks
  BY DEF Inv, TaskOK
<1>2. /\ o \in Op /\ popped \in Fact \X (0..Inf-1) /\ popped[1] \notin Waiting
      /\ value[popped[1]] = popped[2] /\ popped[1] \in Pre(o)
  BY <1>1 DEF TypeOK, QueueOK, PreOps
<1>3. popped[1] \in Fact /\ popped[2] \in 0..Inf-1
  BY <1>2
<1>4. Settles(popped[1])
  BY <1>2, <1>3, InfAssumption DEF Settles, Reached
<1>5. popped[1] \in Missing(o) /\ Missing(o) \subseteq Pre(o)
  BY <1>2 DEF Missing
<1>6. IsFiniteSet(Missing(o))
  BY <1>1, <1>2, <1>5, TotalCost, FS_Subset
<1>7. unsat[o] = Cardinality(Missing(o)) /\ Cardinality(Missing(o)) \in Nat
  BY <1>1, <1>2, <1>6, FS_CardinalityType DEF FullOK
<1>8. Cardinality(Missing(o)) # 0 /\ Cardinality(Missing(o) \ {popped[1]}) = Cardinality(Missing(o)) - 1
  BY <1>5, <1>6, FS_EmptySet, FS_RemoveElement
<1>9. Cardinality(Missing(o)) = 1 => Missing(o) = {popped[1]}
  BY <1>5, <1>6, FS_Singleton
<1>10. supp[o] = NoSupp
  BY <1>1, <1>2, <1>7, <1>8 DEF SuppOK
<1>11. \A g \in Waiting : popped[2] <= value[g]
  BY <1>1, <1>2, <1>3, <1>4 DEF FullOK
<1>12. \A f \in Fact : Settles(f) => value[f] <= popped[2]
  BY <1>1 DEF FullOK
<1> QED  BY <1>2, <1>3, <1>4, <1>5, <1>7, <1>8, <1>9, <1>10, <1>11, <1>12

(* What is offered at a fact's key or above reaches no fact that came before *)
(* it, and whoever is not visited keeps its support.                         *)
LEMMA SupportKept ==
    ASSUME TypeOK, task \in Tasks, UNCHANGED <<task, popped>>,
           NEW x \in Op, Supported(x),
           value' \in [Fact -> 0..Inf], \A f \in Fact : value'[f] <= value[f],
           Waiting' = Waiting \cup {f \in Fact : value'[f] # value[f]},
           supp'[x] = supp[x], suppCost'[x] = suppCost[x],
           x \in todo => x \in todo' \/ Settled(x) \/ supp[x] # popped[1],
           \A f \in Eff(x) : value'[f] <= cost'[x] + suppCost[x]
    PROVE  Supported(x)'
<1> USE InfAssumption
<1>1. /\ Pre(x)' = Pre(x) /\ Eff(x)' = Eff(x)
      /\ Pre(x) \subseteq Fact /\ Eff(x) \subseteq Fact
  BY SameTask, TaskFacts
<1>2. value \in [Fact -> 0..Inf] /\ suppCost[x] \in 0..Inf
  BY DEF TypeOK
<1>3. ASSUME NEW f \in Fact, Reached(f) PROVE Reached(f)'
  <2>1. value[f] \in 0..Inf /\ value'[f] \in 0..Inf /\ value'[f] <= value[f] /\ value[f] # Inf
    BY <1>2, <1>3 DEF Reached
  <2> QED  BY <2>1 DEF Reached
<1>4. ASSUME NEW p \in Pre(x) PROVE Reached(p)' /\ value'[p] <= suppCost[x]
  <2>1. value[p] \in 0..Inf /\ value'[p] \in 0..Inf /\ value'[p] <= value[p]
        /\ value[p] <= suppCost[x] /\ Reached(p) /\ p \in Fact
    BY <1>1, <1>2 DEF Supported
  <2> QED  BY <2>1, <1>2, <1>3
<1>5. \A f \in Eff(x) : Reached(f)'
  BY <1>1, <1>3 DEF Supported
<1>6. Settled(x)' \/ supp'[x] \in Waiting' \/ (x \in todo' /\ supp'[x] = popped'[1])
  <2>1. Settled(x) \/ supp[x] \in Waiting \/ (x \in todo' /\ supp[x] = popped[1])
    BY DEF Supported
  <2>2. CASE Settled(x)
    <3>1. supp[x] \in Fact
      BY <1>1 DEF Supported
    <3> QED  BY <2>2, <3>1 DEF Settled
  <2> QED  BY <2>1, <2>2
<1>7. supp'[x] \in Pre(x)
  BY DEF Supported
<1> QED  BY <1>1, <1>4, <1>5, <1>6, <1>7 DEF Supported

(* A visit that leaves preconditions missing takes one off.                  *)
LEMMA InvVisitFullMore ==
    ASSUME Inv, pc = "full", NEW o \in todo, Visited(o), unsat[o] # 1,
           unsat' = [unsat EXCEPT ![o] = @ - 1],
           UNCHANGED <<task, pc, state, value, queue, popped, supp, suppCost, cost, ldms, heur>>
    PROVE  Inv'
<1>1. /\ TypeOK /\ TaskOK /\ QueueOK /\ SuppOK /\ JustOK /\ FullOK /\ task \in Tasks
      /\ todo' = todo \ {o} /\ Waiting' = Waiting
  BY DEF Inv, TaskOK, Visited, Waiting
<1>t. /\ UNCHANGED <<Fact, Op, Goal, NoPre, RealOps>>
      /\ \A x : Pre(x)' = Pre(x) /\ Eff(x)' = Eff(x) /\ OpCost(x)' = OpCost(x)
      /\ \A f : PreOps(f)' = PreOps(f)
  BY SameTask
<1>2. /\ o \in Op /\ supp[o] = NoSupp /\ unsat[o] \in Nat \ {0}
      /\ popped[1] \in Pre(o) /\ Settles(popped[1])
      /\ Cardinality(Missing(o) \ {popped[1]}) = unsat[o] - 1
  BY AtWork
<1>3. /\ unsat'[o] = unsat[o] - 1 /\ unsat' \in [Op -> Nat] /\ unsat'[o] # 0
      /\ \A x \in Op : x # o => unsat'[x] = unsat[x]
  BY <1>1, <1>2 DEF TypeOK
<1>4. TypeOK'
  BY <1>1, <1>t, <1>3 DEF TypeOK
<1>5. TaskOK' /\ QueueOK'
  BY <1>1, <1>t DEF TaskOK, QueueOK
<1>6. SuppOK'
  <2>1. ASSUME NEW x \in Op, supp[x] # NoSupp PROVE Supported(x)'
    <3>1. Supported(x) /\ x # o
      BY <1>1, <1>2, <2>1 DEF SuppOK
    <3> QED  BY <1>1, <1>t, <3>1 DEF Supported, Settled, Reached
  <2> QED  BY <1>1, <1>t, <1>2, <1>3, <2>1 DEF SuppOK
<1>7. JustOK'
  BY <1>1, JustNext DEF JustOK
<1>8. FullOK'
  <2>1. \A f : Settles(f)' <=> Settles(f)
    BY <1>1 DEF Settles, Reached
  <2>2. ASSUME NEW x \in Op, x # o PROVE Missing(x)' = Missing(x)
    BY <1>1, <1>t, <2>1, <2>2 DEF Missing
  <2>3. Missing(o)' = Missing(o) \ {popped[1]}
    BY <1>1, <1>t, <1>2, <2>1 DEF Missing
  <2>4. \A x \in Op : unsat'[x] = Cardinality(Missing(x))'
    BY <1>1, <1>2, <1>3, <2>2, <2>3 DEF FullOK
  <2>5. Units(cost, Fired)' = Units(cost, Fired)
    BY <1>t DEF Units, Fired
  <2> QED  BY <1>1, <1>t, <2>1, <2>4, <2>5 DEF FullOK, Reached
<1> QED  BY <1>4, <1>5, <1>6, <1>7, <1>8 DEF Inv, CutOK, DoneOK, Cutting

(* The last precondition is reached: the operator fires.                     *)
LEMMA InvVisitFullLast ==
    ASSUME Inv, pc = "full", NEW o \in todo, Visited(o), unsat[o] = 1,
           unsat' = [unsat EXCEPT ![o] = @ - 1],
           supp' = [supp EXCEPT ![o] = popped[1]],
           suppCost' = [suppCost EXCEPT ![o] = value[popped[1]]],
           Enqueue({o}, cost, [x \in {o} |-> popped[2]]),
           UNCHANGED <<task, pc, state, popped, cost, ldms, heur>>
    PROVE  Inv'
<1> USE InfAssumption
<1>1. /\ TypeOK /\ TaskOK /\ QueueOK /\ SuppOK /\ JustOK /\ FullOK /\ task \in Tasks
      /\ todo' = todo \ {o} /\ NoPre \in state /\ \A f \in state : value[f] = 0
  BY DEF Inv, TaskOK, Visited
<1>t. /\ UNCHANGED <<Fact, Op, Goal, NoPre, RealOps>>
      /\ \A x : Pre(x)' = Pre(x) /\ Eff(x)' = Eff(x) /\ OpCost(x)' = OpCost(x)
      /\ \A f : PreOps(f)' = PreOps(f)
  BY SameTask
<1>2. /\ o \in Op /\ supp[o] = NoSupp
      /\ popped[1] \in Pre(o) /\ popped[1] \in Fact /\ Settles(popped[1])
      /\ popped[2] \in 0..Inf-1 /\ value[popped[1]] = popped[2]
      /\ \A f \in Fact : Settles(f) => value[f] <= popped[2]
      /\ \A g \in Waiting : popped[2] <= value[g]
      /\ Missing(o) = {popped[1]}
  BY AtWork
<1>3. /\ value \in [Fact -> 0..Inf] /\ cost \in [Op -> Nat] /\ Pre(o) \subseteq Fact
      /\ Waiting \subseteq Fact
      /\ \A x \in Op : Eff(x) \subseteq Fact
  BY <1>1, <1>2, TaskFacts DEF TypeOK
<1> DEFINE k == popped[2]
           base == [x \in {o} |-> k]
<1>4. /\ Offered(value', {o}, cost, base)
      /\ Waiting' = Waiting \cup {f \in Fact : value'[f] # value[f]}
      /\ Waiting' \subseteq Fact
      /\ \A f \in Waiting' : queue'[f] = value'[f] /\ queue'[f] \in 0..Inf-1
  <2>1. {o} \in SUBSET Op /\ \A x \in {o} : base[x] \in Nat
    BY <1>2
  <2>2. \A f \in Waiting : queue[f] = value[f]
    BY <1>1 DEF QueueOK
  <2> HIDE DEF base
  <2>3. Enqueue({o}, cost, base)
    BY DEF base
  <2> QED  BY <1>1, <1>3, <2>1, <2>2, <2>3, EnqueueFacts
<1>5. /\ value' \in [Fact -> 0..Inf]
      /\ \A f \in Fact : value'[f] <= value[f]
      /\ \A f \in Eff(o) : value'[f] <= cost[o] + k
      /\ \A f \in Fact : value'[f] = value[f] \/ (f \in Eff(o) /\ value'[f] = cost[o] + k)
  BY <1>4 DEF Offered
<1>6. \A f \in Fact : value'[f] = value[f] \/ k <= value'[f]
  <2>1. cost[o] \in Nat /\ k \in Nat
    BY <1>2, <1>3
  <2> QED  BY <1>5, <2>1
<1>7. ASSUME NEW f \in Fact PROVE Settles(f)' <=> Settles(f)
  <2>1. value[f] \in 0..Inf /\ value'[f] \in 0..Inf /\ value'[f] <= value[f] /\ k \in Nat
    BY <1>2, <1>3, <1>5
  <2>2. CASE value'[f] = value[f]
    BY <1>4, <2>2 DEF Settles, Reached
  <2>3. CASE value'[f] # value[f]
    <3>1. f \in Waiting' /\ value[f] > k
      BY <1>4, <1>6, <2>1, <2>3
    <3>2. ~Settles(f)
      BY <1>2, <2>1, <3>1
    <3> QED  BY <3>1, <3>2 DEF Settles
  <2> QED  BY <2>2, <2>3
<1>8. \A f \in Fact : Settles(f) => value'[f] = value[f]
  BY <1>4, <1>7 DEF Settles
<1>9. \A p \in Pre(o) : p \in Fact /\ Settles(p) /\ value[p] <= k /\ Reached(p)
  <2>1. ASSUME NEW p \in Pre(o) PROVE p \in Fact /\ Settles(p)
    BY <1>2, <1>3 DEF Missing
  <2> QED  BY <1>2, <2>1 DEF Settles
<1>10. /\ supp' \in [Op -> Fact \cup {NoSupp}] /\ supp'[o] = popped[1]
       /\ \A x \in Op : x # o => supp'[x] = supp[x] /\ suppCost'[x] = suppCost[x]
       /\ suppCost' \in [Op -> 0..Inf] /\ suppCost'[o] = k
       /\ unsat' \in [Op -> Nat] /\ unsat'[o] = 0
       /\ \A x \in Op : x # o => unsat'[x] = unsat[x]
  BY <1>1, <1>2, <1>3 DEF TypeOK
<1>11. TypeOK'
  BY <1>1, <1>t, <1>4, <1>5, <1>10 DEF TypeOK
<1>12. TaskOK'
  <2>1. \A f \in state : f \in Fact /\ Reached(f)
    BY <1>1, TaskFacts DEF Reached, TypeOK
  <2>2. ASSUME NEW f \in state PROVE value'[f] = 0
    <3>1. value[f] = 0 /\ value'[f] \in Nat /\ value'[f] <= value[f]
      BY <1>1, <1>5, <2>1
    <3> QED  BY <3>1
  <2> QED  BY <1>1, <1>t, <2>2 DEF TaskOK
<1>13. QueueOK'
  <2>1. todo # {}
    OBVIOUS
  <2>2. value'[popped[1]] = popped[2] /\ popped[1] \notin Waiting'
    BY <1>2, <1>7, <1>8 DEF Settles
  <2> QED  BY <1>1, <1>t, <1>4, <2>1, <2>2 DEF QueueOK
(* The values that the operators that fired can pay.                         *)
<1>14. /\ Fired' = Fired \cup {o} /\ o \notin Fired /\ Fired \subseteq Op
       /\ IsFiniteSet(Op) /\ IsFiniteSet(Fired)
  <2>1. IsFiniteSet(Op)
    BY <1>1, TotalCost
  <2>2. popped[1] # NoSupp
    BY <1>1, <1>2, TaskFacts DEF NoSupp
  <2>3. Fired' = Fired \cup {o}
    BY <1>t, <1>2, <1>10, <2>2 DEF Fired
  <2> QED  BY <1>2, <2>1, <2>3, FS_Subset DEF Fired
<1> DEFINE spent == Cardinality(Units(cost, Fired))
           total == Cardinality(Units(cost, Op))
<1>15. /\ Cardinality(Units(cost, Fired)') = spent + cost[o]
       /\ spent \in Nat /\ spent + cost[o] < Inf /\ k <= spent
  <2>1. \A x \in Fired \cup {o} : cost[x] \in Nat
    BY <1>2, <1>3, <1>14
  <2>2. spent \in Nat /\ Cardinality(Units(cost, Fired \cup {o})) = spent + cost[o]
    BY <1>14, <2>1, UnitsFinite, UnitsAdd
  <2>3. Cardinality(Units(cost, Fired \cup {o})) <= total
    <3>1. Fired \cup {o} \in SUBSET Op
      BY <1>2, <1>14
    <3> QED  BY <1>3, <1>14, <3>1, UnitsMore
  <2>4. total \in Nat /\ total < Inf
    <3>1. cost = [x \in Op |-> OpCost(x)]
      BY <1>1 DEF FullOK
    <3> QED  BY <1>1, <3>1, TotalCost
  <2>5. k <= spent
    <3>1. Reached(popped[1])
      BY <1>2 DEF Settles
    <3> QED  BY <1>1, <1>2, <3>1 DEF FullOK
  <2>6. Units(cost, Fired)' = Units(cost, Fired \cup {o})
    BY <1>14 DEF Units
  <2>7. cost[o] \in Nat
    BY <1>2, <1>3
  <2> HIDE DEF spent, total, k
  <2> QED  BY <2>2, <2>3, <2>4, <2>5, <2>6, <2>7
<1>16. ASSUME NEW f \in Fact, Reached(f)' PROVE value'[f] <= spent + cost[o]
  <2>1. cost[o] \in Nat /\ k \in Nat /\ spent \in Nat /\ k <= spent
    BY <1>2, <1>3, <1>15
  <2>2. CASE value'[f] = value[f]
    <3>1. value[f] <= spent /\ value[f] \in 0..Inf
      BY <1>1, <1>3, <1>16, <2>2 DEF FullOK, Reached
    <3> HIDE DEF spent
    <3> QED  BY <2>1, <2>2, <3>1
  <2>3. CASE value'[f] # value[f]
    <3>1. value'[f] = cost[o] + k
      BY <1>5, <2>3
    <3> HIDE DEF spent
    <3> QED  BY <2>1, <3>1
  <2> QED  BY <2>2, <2>3
<1>17. ASSUME NEW f \in Eff(o) PROVE Reached(f)'
  <2>1. cost[o] \in Nat /\ k \in Nat /\ spent \in Nat /\ k <= spent /\ spent + cost[o] < Inf
    BY <1>2, <1>3, <1>15
  <2>2. f \in Fact /\ value'[f] <= cost[o] + k /\ value'[f] \in Nat
    BY <1>2, <1>3, <1>5
  <2>3. value'[f] < Inf
    <3> HIDE DEF spent, k
    <3> QED  BY <2>1, <2>2
  <2> QED  BY <2>2, <2>3 DEF Reached
<1>18. SuppOK'
  <2>1. ASSUME NEW x \in Op, x # o, supp[x] # NoSupp PROVE Supported(x)'
    <3>1. Supported(x)
      BY <1>1, <2>1 DEF SuppOK
    <3>2. x \in todo => x \in todo'
      BY <1>1, <2>1
    <3>3. ASSUME NEW f \in Eff(x) PROVE value'[f] <= cost'[x] + suppCost[x]
      <4>1. f \in Fact /\ value[f] <= cost[x] + suppCost[x] /\ value[f] \in 0..Inf
            /\ value'[f] \in 0..Inf /\ value'[f] <= value[f]
            /\ cost[x] \in Nat /\ suppCost[x] \in 0..Inf
        BY <1>1, <1>3, <1>5, <3>1 DEF Supported, TypeOK
      <4> QED  BY <4>1
    <3> QED  BY <1>1, <1>4, <1>5, <1>10, <2>1, <3>1, <3>2, <3>3, SupportKept
  <2>2. Supported(o)'
    <3>1. Settled(o)'
      BY <1>2, <1>8, <1>10 DEF Settled
    <3>2. ASSUME NEW p \in Pre(o) PROVE Reached(p)' /\ value'[p] <= suppCost'[o]
      <4>1. p \in Fact /\ value'[p] = value[p] /\ value[p] <= k /\ Reached(p)
        BY <1>8, <1>9
      <4> QED  BY <1>10, <4>1 DEF Reached
    <3>3. \A f \in Eff(o) : Reached(f)' /\ value'[f] <= cost'[o] + suppCost'[o]
      BY <1>5, <1>10, <1>17
    <3> QED  BY <1>t, <1>2, <1>10, <3>1, <3>2, <3>3 DEF Supported
  <2>3. popped[1] # NoSupp
    BY <1>1, <1>2, TaskFacts DEF NoSupp
  <2> QED  BY <1>1, <1>t, <1>10, <2>1, <2>2, <2>3 DEF SuppOK
<1>19. JustOK'
  <2>1. \A f \in Fact : value'[f] = value[f] \/ \E x \in EffOps(f) :
            Enabled(value, x) /\ \A p \in Pre(x) : cost'[x] + value[p] <= value'[f]
    <3>1. ASSUME NEW f \in Fact, value'[f] # value[f]
          PROVE  o \in EffOps(f) /\ Enabled(value, o)
                 /\ \A p \in Pre(o) : cost'[o] + value[p] <= value'[f]
      <4>1. f \in Eff(o) /\ value'[f] = cost[o] + k
        BY <1>5, <3>1
      <4>2. ASSUME NEW p \in Pre(o) PROVE cost[o] + value[p] <= cost[o] + k
        <5>1. value[p] \in 0..Inf /\ cost[o] \in Nat /\ k \in Nat /\ value[p] <= k
          BY <1>2, <1>3, <1>9
        <5> QED  BY <5>1
      <4>3. Enabled(value, o)
        BY <1>9 DEF Enabled, Reached
      <4> QED  BY <1>2, <4>1, <4>2, <4>3 DEF EffOps
    <3> QED  BY <3>1
  <2>2. \A x \in Op : cost'[x] <= cost[x]
    BY <1>3
  <2>3. Just(value, cost)
    BY <1>1 DEF JustOK
  <2>4. Just(value', cost')
    BY <1>1, <1>3, <1>5, <2>1, <2>2, <2>3, JustStep
  <2> QED  BY <2>4, JustNext DEF JustOK
<1>20. FullOK'
  <2>1. ASSUME NEW x \in Op, x # o PROVE Missing(x)' = Missing(x)
    <3>1. Pre(x) \subseteq Fact
      BY <1>1, TaskFacts
    <3> QED  BY <1>1, <1>t, <1>7, <2>1, <3>1 DEF Missing
  <2>2. Missing(o)' = {}
    BY <1>1, <1>t, <1>7, <1>9 DEF Missing
  <2>3. \A x \in Op : unsat'[x] = Cardinality(Missing(x))'
    <3>1. Cardinality(Missing(o))' = 0
      BY <2>2, FS_EmptySet
    <3>2. ASSUME NEW x \in Op, x # o PROVE unsat'[x] = Cardinality(Missing(x))'
      BY <1>1, <1>10, <2>1, <3>2 DEF FullOK
    <3> QED  BY <1>10, <3>1, <3>2
  <2>4. ASSUME NEW f \in Fact, NEW g \in Waiting', Settles(f)' PROVE value'[f] <= value'[g]
    <3>1. Settles(f) /\ value'[f] = value[f] /\ value[f] <= k /\ g \in Fact
      BY <1>2, <1>4, <1>7, <1>8, <2>4
    <3>2. k <= value'[g]
      BY <1>2, <1>4, <1>6
    <3>3. value[f] \in Nat /\ value'[g] \in Nat /\ k \in Nat
      BY <1>2, <1>3, <1>5, <3>1
    <3> QED  BY <3>1, <3>2, <3>3
  <2>5. \A f \in Fact : Settles(f)' => value'[f] <= popped'[2]
    BY <1>2, <1>7, <1>8
  <2> QED  BY <1>1, <1>t, <1>15, <1>16, <2>3, <2>4, <2>5 DEF FullOK
<1> QED  BY <1>11, <1>12, <1>13, <1>18, <1>19, <1>20 DEF Inv, CutOK, DoneOK, Cutting

(* A visit of the full computation keeps the invariant.                       *)
LEMMA InvVisitFull ==
    ASSUME Inv, VisitFull
    PROVE  Inv'
<1>1. PICK o \in todo : /\ Visited(o)
                        /\ unsat' = [unsat EXCEPT ![o] = @ - 1]
                        /\ IF unsat[o] = 1
                           THEN /\ supp' = [supp EXCEPT ![o] = popped[1]]
                                /\ suppCost' = [suppCost EXCEPT ![o] = value[popped[1]]]
                                /\ Enqueue({o}, cost, [x \in {o} |-> popped[2]])
                           ELSE UNCHANGED <<supp, suppCost, value, queue>>
  BY DEF VisitFull
<1>2. pc = "full" /\ UNCHANGED <<task, pc, state, popped, cost, ldms, heur>>
  BY DEF VisitFull
<1>3. CASE unsat[o] = 1
  BY <1>1, <1>2, <1>3, InvVisitFullLast
<1>4. CASE unsat[o] # 1
  BY <1>1, <1>2, <1>4, InvVisitFullMore
<1> QED  BY <1>3, <1>4

(* When the queue has run dry nothing that is enabled is left out, so a goal *)
(* that was not reached cannot be.                                           *)
LEMMA InvEndFull ==
    ASSUME Inv, EndFull
    PROVE  Inv'
<1>1. /\ TypeOK /\ TaskOK /\ QueueOK /\ SuppOK /\ JustOK /\ FullOK /\ task \in Tasks
      /\ pc = "full" /\ todo = {} /\ Waiting = {}
      /\ UNCHANGED <<task, state, value, queue, popped, todo, unsat, supp, suppCost, cost, ldms>>
      /\ pc' = IF Reached(Goal) THEN "cut" ELSE "done"
      /\ heur' = IF Reached(Goal) THEN heur ELSE DeadEnd
  BY DEF Inv, TaskOK, EndFull, hmaxVars
<1>t. /\ UNCHANGED <<Fact, Op, Goal, NoPre, RealOps>>
      /\ \A o : Pre(o)' = Pre(o) /\ Eff(o)' = Eff(o) /\ OpCost(o)' = OpCost(o)
      /\ \A f : PreOps(f)' = PreOps(f)
  BY <1>1, SameTask
<1>2. TypeOK' /\ TaskOK' /\ QueueOK'
  <2>1. TypeOK'
    BY <1>1, <1>t, InfAssumption DEF TypeOK, Waiting
  <2>2. TaskOK'
    BY <1>1, <1>t DEF TaskOK
  <2>3. QueueOK'
    BY <1>1, <1>t DEF QueueOK, Waiting
  <2> QED  BY <2>1, <2>2, <2>3
<1>3. SuppOK'
  BY <1>1, <1>t DEF SuppOK, Supported, Settled, Waiting, Reached
<1>4. JustOK'
  BY <1>1, JustNext DEF JustOK
<1>5. FullOK' /\ DoneOK'
  BY <1>1, <1>t DEF FullOK, DoneOK, Reached
<1>6. CutOK'
  <2>1. ASSUME NEW o \in Op, Enabled(value, o) PROVE supp[o] # NoSupp
    <3>1. Missing(o) = {}
      BY <1>1, <2>1 DEF Missing, Settles, Enabled, Reached
    <3>2. unsat[o] = 0
      BY <1>1, <3>1, FS_EmptySet DEF FullOK
    <3> QED  BY <1>1, <3>2 DEF SuppOK
  <2>2. cost = [o \in Op |-> OpCost(o)] /\ heur = 0 /\ ldms = {}
    BY <1>1 DEF FullOK
  <2>3. \A o \in Op : cost[o] <= OpCost(o)
    BY <1>1, <2>2, TaskFacts
  <2>4. ASSUME NEW O \in SUBSET RealOps
        PROVE  0 + Cardinality(Units(cost, O)) <= PlanCost(O)
    <3>1. \A o \in O : cost[o] = [x \in O |-> OpCost(x)][o]
      BY <2>2 DEF RealOps
    <3>2. Units(cost, O) = Units([x \in O |-> OpCost(x)], O)
      BY <3>1, UnitsSame
    <3>3. IsFiniteSet(O) /\ \A o \in O : cost[o] \in Nat
      BY <1>1, TotalCost, FS_Subset DEF TypeOK, RealOps
    <3>4. Cardinality(Units(cost, O)) \in Nat
      BY <3>3, UnitsFinite
    <3> QED  BY <3>2, <3>4 DEF PlanCost
  <2>5. \A O : /\ RelaxedPlan(O)' = RelaxedPlan(O)
               /\ PlanCost(O)' = PlanCost(O)
               /\ Units(cost, O)' = Units(cost, O)
    BY <1>1, SamePlans DEF Units
  <2>6. pc' # "done" => Reached(Goal)'
    BY <1>1, <1>t DEF Reached
  <2>7. Reached(Goal)' => Reached(Goal) /\ heur' = 0
    BY <1>1, <1>t, <2>2 DEF Reached
  <2> QED  BY <1>1, <1>t, <2>1, <2>2, <2>3, <2>4, <2>5, <2>6, <2>7 DEF CutOK, Enabled
<1> QED  BY <1>2, <1>3, <1>4, <1>5, <1>6 DEF Inv

(* The estimates are corrected, or the goal costs nothing: only pc changes.  *)
LEMMA InvPhase ==
    ASSUME Inv, EndInc \/ Finish
    PROVE  Inv'
<1>1. /\ TypeOK /\ TaskOK /\ QueueOK /\ SuppOK /\ JustOK /\ CutOK /\ task \in Tasks
      /\ Waiting = {} /\ todo = {} /\ pc # "idle" /\ Cutting
      /\ UNCHANGED <<task, state, value, queue, popped, todo, unsat, supp, suppCost, cost, ldms, heur>>
      /\ pc' = "cut" \/ (pc' = "done" /\ value[Goal] = 0)
      /\ Reached(Goal)
  BY DEF Inv, TaskOK, EndInc, Finish, hmaxVars, QueueOK, Cutting, CutOK
<1>t. /\ UNCHANGED <<Fact, Op, Goal, NoPre, RealOps>>
      /\ \A o : Pre(o)' = Pre(o) /\ Eff(o)' = Eff(o) /\ OpCost(o)' = OpCost(o)
      /\ \A f : PreOps(f)' = PreOps(f)
  BY <1>1, SameTask
<1>2. TypeOK' /\ TaskOK' /\ QueueOK'
  BY <1>1, <1>t DEF TypeOK, TaskOK, QueueOK, Waiting
<1>3. SuppOK'
  BY <1>1, <1>t DEF SuppOK, Supported, Settled, Waiting, Reached
<1>4. JustOK'
  BY <1>1, JustNext DEF JustOK
<1>5. FullOK' /\ DoneOK'
  BY <1>1, <1>t DEF FullOK, DoneOK, Reached
<1>6. CutOK'
  <2>1. \A O : /\ RelaxedPlan(O)' = RelaxedPlan(O)
               /\ PlanCost(O)' = PlanCost(O)
               /\ Units(cost, O)' = Units(cost, O)
    BY <1>1, SamePlans DEF Units
  <2> QED  BY <1>1, <1>t, <2>1 DEF CutOK, Enabled, Reached
<1> QED  BY <1>2, <1>3, <1>4, <1>5, <1>6 DEF Inv

(* A visit in the incremental computation: an operator whose supporter lost  *)
(* value gets the dearest of its preconditions, and offers again if that is  *)
(* cheaper.                                                                  *)
LEMMA InvVisitIncLoses ==
    ASSUME Inv, pc = "inc", NEW o \in todo, Visited(o), Loses(o),
           NEW s, s = NewSupp(o),
           supp' = [supp EXCEPT ![o] = s],
           suppCost' = [suppCost EXCEPT ![o] = value[s]],
           IF value[s] # suppCost[o]
           THEN Enqueue({o}, cost, [x \in {o} |-> value[s]])
           ELSE UNCHANGED <<value, queue>>,
           UNCHANGED <<task, pc, state, popped, unsat, cost, ldms, heur>>
    PROVE  Inv'
<1> USE InfAssumption
<1>1. /\ TypeOK /\ TaskOK /\ QueueOK /\ SuppOK /\ JustOK /\ CutOK /\ task \in Tasks
      /\ todo' = todo \ {o} /\ \A f \in state : value[f] = 0
  BY DEF Inv, TaskOK, Visited
<1>t. /\ UNCHANGED <<Fact, Op, Goal, NoPre, RealOps>>
      /\ \A x : Pre(x)' = Pre(x) /\ Eff(x)' = Eff(x) /\ OpCost(x)' = OpCost(x)
      /\ \A f : PreOps(f)' = PreOps(f)
  BY SameTask
<1>2. /\ o \in Op /\ popped[1] \in Pre(o) /\ popped[1] \in Fact
      /\ value[popped[1]] = popped[2] /\ popped[1] \notin Waiting
      /\ value \in [Fact -> 0..Inf] /\ cost \in [Op -> Nat]
      /\ suppCost \in [Op -> 0..Inf] /\ supp \in [Op -> Fact \cup {NoSupp}]
      /\ Pre(o) \subseteq Fact /\ Pre(o) # {} /\ Waiting \subseteq Fact
      /\ \A x \in Op : Eff(x) \subseteq Fact
      /\ todo \subseteq PreOps(popped[1]) /\ popped \in Fact \X (0..Inf-1)
  BY <1>1, TaskFacts DEF TypeOK, QueueOK, PreOps
<1>3. Supported(o)
  BY <1>1, <1>2, TaskFacts DEF SuppOK, Loses
(* The new supporter.                                                        *)
<1>4. /\ s \in Pre(o) /\ s \in Fact /\ Reached(s)
      /\ \A p \in Pre(o) : value[p] <= value[s]
      /\ value[s] <= suppCost[o]
  <2> DEFINE reached == {f \in Pre(o) : Reached(f)}
             best == {f \in reached : \A g \in reached : value[g] <= value[f]}
             used == {f \in best : IsSupp(f)}
  <2>1. reached = Pre(o)
    BY <1>3 DEF Supported
  <2>2. best # {}
    <3>1. \A f \in Pre(o) : value[f] \in 0..Inf
      BY <1>2
    <3>2. \E f \in Pre(o) : \A g \in Pre(o) : value[g] <= value[f]
      BY <1>2, <3>1, GreatestValue
    <3> QED  BY <2>1, <3>2
  <2>3. best \in SUBSET Nat /\ used \in SUBSET Nat
    BY <1>1, <1>2, <2>1, TaskFacts
  <2>4. s = IF used # {} THEN Min(used) ELSE Min(best)
    BY DEF NewSupp, BestSupp
  <2>5. s \in best
    <3> HIDE DEF best
    <3> QED  BY <2>2, <2>3, <2>4, MinOfNat
  <2> QED  BY <1>2, <1>3, <2>1, <2>5 DEF Supported
<1> DEFINE k == value[s]
           base == [x \in {o} |-> k]
<1>5. k \in 0..Inf /\ cost[o] \in Nat /\ suppCost[o] \in 0..Inf
  BY <1>2, <1>4
<1>6. /\ value' \in [Fact -> 0..Inf]
      /\ \A f \in Fact : value'[f] <= value[f]
      /\ \A f \in Eff(o) : value'[f] <= cost[o] + k
      /\ \A f \in Fact : value'[f] = value[f] \/ (f \in Eff(o) /\ value'[f] = cost[o] + k)
      /\ Waiting' = Waiting \cup {f \in Fact : value'[f] # value[f]}
      /\ Waiting' \subseteq Fact
      /\ \A f \in Waiting' : queue'[f] = value'[f] /\ queue'[f] \in 0..Inf-1
  <2>1. CASE value[s] # suppCost[o]
    <3>1. {o} \in SUBSET Op /\ \A x \in {o} : base[x] \in Nat
      BY <1>2, <1>5
    <3>2. \A f \in Waiting : queue[f] = value[f]
      BY <1>1 DEF QueueOK
    <3>3. /\ Offered(value', {o}, cost, base)
          /\ Waiting' = Waiting \cup {f \in Fact : value'[f] # value[f]}
          /\ Waiting' \subseteq Fact
          /\ \A f \in Waiting' : queue'[f] = value'[f] /\ queue'[f] \in 0..Inf-1
      <4> HIDE DEF base
      <4>1. Enqueue({o}, cost, base)
        BY <2>1 DEF base
      <4> QED  BY <1>1, <1>2, <3>1, <3>2, <4>1, EnqueueFacts
    <3> QED  BY <3>3 DEF Offered
  <2>2. CASE value[s] = suppCost[o]
    <3>1. UNCHANGED <<value, queue>> /\ Waiting' = Waiting
      BY <2>2 DEF Waiting
    <3>2. \A f \in Eff(o) : value[f] <= cost[o] + k
      BY <1>3, <2>2 DEF Supported
    <3>3. \A f \in Waiting : queue[f] = value[f] /\ queue[f] \in 0..Inf-1
      BY <1>1 DEF QueueOK, TypeOK
    <3>4. \A f \in Fact : value[f] <= value[f]
      BY <1>2
    <3> QED  BY <1>2, <3>1, <3>2, <3>3, <3>4
  <2> QED  BY <2>1, <2>2
<1>7. ASSUME NEW f \in Fact PROVE Reached(f)' <=> Reached(f)
  <2>1. value[f] \in 0..Inf /\ value'[f] \in 0..Inf /\ value'[f] <= value[f]
    BY <1>2, <1>6
  <2>2. value'[f] = value[f] \/ Reached(f)
    BY <1>3, <1>6 DEF Supported
  <2> QED  BY <2>1, <2>2 DEF Reached
<1>8. ASSUME NEW p \in Pre(o) PROVE value'[p] = value[p]
  <2>1. p \in Fact /\ value[p] \in 0..Inf /\ value'[p] \in 0..Inf /\ value'[p] <= value[p]
        /\ value[p] <= k
    BY <1>2, <1>4, <1>6
  <2>2. value'[p] = value[p] \/ value'[p] = cost[o] + k
    BY <1>6, <2>1
  <2> QED  BY <1>5, <2>1, <2>2
<1>9. /\ supp' \in [Op -> Fact \cup {NoSupp}] /\ supp'[o] = s /\ s # NoSupp
      /\ \A x \in Op : x # o => supp'[x] = supp[x] /\ suppCost'[x] = suppCost[x]
      /\ suppCost' \in [Op -> 0..Inf] /\ suppCost'[o] = k
  BY <1>1, <1>2, <1>4, <1>5, TaskFacts DEF NoSupp
<1>10. TypeOK'
  BY <1>1, <1>t, <1>6, <1>9 DEF TypeOK
<1>11. TaskOK'
  <2>1. ASSUME NEW f \in state PROVE value'[f] = 0
    <3>1. f \in Fact
      BY <1>1 DEF TypeOK
    <3>2. value[f] = 0 /\ value'[f] \in Nat /\ value'[f] <= value[f]
      BY <1>1, <1>6, <3>1
    <3> QED  BY <3>2
  <2> QED  BY <1>1, <1>t, <2>1 DEF TaskOK
<1>12. QueueOK'
  <2>1. value'[popped[1]] = popped[2] /\ popped[1] \notin Waiting'
    BY <1>2, <1>6, <1>8
  <2> QED  BY <1>1, <1>t, <1>2, <1>6, <2>1 DEF QueueOK
<1>13. SuppOK'
  <2>1. ASSUME NEW x \in Op, x # o, supp[x] # NoSupp PROVE Supported(x)'
    <3>1. Supported(x)
      BY <1>1, <2>1 DEF SuppOK
    <3>2. x \in todo => x \in todo'
      BY <1>1, <2>1
    <3>3. ASSUME NEW f \in Eff(x) PROVE value'[f] <= cost'[x] + suppCost[x]
      <4>1. f \in Fact /\ value[f] <= cost[x] + suppCost[x] /\ value[f] \in 0..Inf
            /\ value'[f] \in 0..Inf /\ value'[f] <= value[f]
            /\ cost[x] \in Nat /\ suppCost[x] \in 0..Inf
        BY <1>2, <1>6, <3>1 DEF Supported
      <4> QED  BY <4>1
    <3> QED  BY <1>1, <1>6, <1>9, <2>1, <3>1, <3>2, <3>3, SupportKept
  <2>2. Supported(o)'
    <3>1. Settled(o)'
      BY <1>4, <1>8, <1>9 DEF Settled
    <3>2. \A p \in Pre(o) : Reached(p)' /\ value'[p] <= suppCost'[o]
      BY <1>2, <1>3, <1>4, <1>7, <1>8, <1>9 DEF Supported
    <3>3. \A f \in Eff(o) : Reached(f)' /\ value'[f] <= cost'[o] + suppCost'[o]
      BY <1>2, <1>3, <1>6, <1>7, <1>9 DEF Supported
    <3> QED  BY <1>t, <1>4, <1>9, <3>1, <3>2, <3>3 DEF Supported
  <2>3. unsat[o] = 0
    BY DEF Loses
  <2> QED  BY <1>1, <1>t, <1>9, <2>1, <2>2, <2>3 DEF SuppOK
<1>14. JustOK'
  <2>1. \A f \in Fact : value'[f] = value[f] \/ \E x \in EffOps(f) :
            Enabled(value, x) /\ \A p \in Pre(x) : cost'[x] + value[p] <= value'[f]
    <3>1. ASSUME NEW f \in Fact, value'[f] # value[f]
          PROVE  o \in EffOps(f) /\ Enabled(value, o)
                 /\ \A p \in Pre(o) : cost'[o] + value[p] <= value'[f]
      <4>1. f \in Eff(o) /\ value'[f] = cost[o] + k
        BY <1>6, <3>1
      <4>2. ASSUME NEW p \in Pre(o) PROVE cost[o] + value[p] <= cost[o] + k
        <5>1. value[p] \in 0..Inf /\ value[p] <= k
          BY <1>2, <1>4
        <5> QED  BY <1>5, <5>1
      <4>3. Enabled(value, o)
        BY <1>3 DEF Enabled, Reached, Supported
      <4> QED  BY <1>2, <4>1, <4>2, <4>3 DEF EffOps
    <3> QED  BY <3>1
  <2>2. \A x \in Op : cost'[x] <= cost[x]
    BY <1>2
  <2>3. Just(value, cost)
    BY <1>1 DEF JustOK
  <2>4. Just(value', cost')
    BY <1>1, <1>2, <1>6, <2>1, <2>2, <2>3, JustStep
  <2> QED  BY <2>4, JustNext DEF JustOK
<1>15. CutOK'
  <2>1. ASSUME NEW x \in Op, Enabled(value', x) PROVE supp'[x] # NoSupp
    <3>1. Enabled(value, x)
      BY <1>1, <1>7, <2>1, TaskFacts DEF Enabled, Reached
    <3> QED  BY <1>1, <1>9, <3>1 DEF CutOK, Cutting
  <2>2. \A O : /\ RelaxedPlan(O)' = RelaxedPlan(O)
               /\ PlanCost(O)' = PlanCost(O)
               /\ Units(cost, O)' = Units(cost, O)
    BY SamePlans DEF Units
  <2>3. Reached(Goal)' /\ Reached(Goal)
    BY <1>1, <1>t, <1>7, TaskFacts DEF CutOK, Cutting, Reached
  <2> QED  BY <1>1, <1>t, <2>1, <2>2, <2>3 DEF CutOK, Cutting, Enabled
<1>16. FullOK' /\ DoneOK'
  BY DEF FullOK, DoneOK
<1> QED  BY <1>10, <1>11, <1>12, <1>13, <1>14, <1>15, <1>16 DEF Inv

(* An operator whose supporter lost nothing is right already.                *)
LEMMA InvVisitIncKeeps ==
    ASSUME Inv, pc = "inc", NEW o \in todo, Visited(o), ~Loses(o),
           UNCHANGED <<task, pc, state, value, queue, popped, unsat, supp, suppCost, cost, ldms, heur>>
    PROVE  Inv'
<1>1. /\ TypeOK /\ TaskOK /\ QueueOK /\ SuppOK /\ JustOK /\ CutOK /\ task \in Tasks
      /\ todo' = todo \ {o} /\ Waiting' = Waiting
  BY DEF Inv, TaskOK, Visited, Waiting
<1>t. /\ UNCHANGED <<Fact, Op, Goal, NoPre, RealOps>>
      /\ \A x : Pre(x)' = Pre(x) /\ Eff(x)' = Eff(x) /\ OpCost(x)' = OpCost(x)
      /\ \A f : PreOps(f)' = PreOps(f)
  BY SameTask
<1>2. TypeOK' /\ TaskOK' /\ QueueOK'
  BY <1>1, <1>t DEF TypeOK, TaskOK, QueueOK
<1>3. ASSUME NEW x \in Op, supp[x] # NoSupp PROVE Supported(x)'
  <2>1. Supported(x)
    BY <1>1, <1>3 DEF SuppOK
  <2>2. x = o /\ supp[o] = popped[1] => Settled(o)
    <3> SUFFICES ASSUME x = o, supp[o] = popped[1] PROVE Settled(o)
      OBVIOUS
    <3>1. unsat[o] = 0
      BY <1>1, <1>3 DEF SuppOK
    <3>2. value[popped[1]] = popped[2] /\ popped[1] \in Pre(o)
      BY <1>1 DEF QueueOK, PreOps
    <3>3. ~(suppCost[o] > popped[2]) /\ popped[2] <= suppCost[o]
      BY <2>1, <3>1, <3>2 DEF Loses, Supported
    <3>4. suppCost[o] \in Nat /\ popped[2] \in Nat
      BY <1>1, <1>3 DEF TypeOK, QueueOK
    <3> QED  BY <3>2, <3>3, <3>4 DEF Settled
  <2>3. Settled(x) \/ supp[x] \in Waiting \/ (x \in todo' /\ supp[x] = popped[1])
    BY <1>1, <2>1, <2>2 DEF Supported
  <2> QED  BY <1>1, <1>t, <2>1, <2>3 DEF Supported, Settled, Reached
<1>4. SuppOK'
  BY <1>1, <1>t, <1>3 DEF SuppOK
<1>5. JustOK'
  BY <1>1, JustNext DEF JustOK
<1>6. CutOK'
  <2>1. \A O : /\ RelaxedPlan(O)' = RelaxedPlan(O)
               /\ PlanCost(O)' = PlanCost(O)
               /\ Units(cost, O)' = Units(cost, O)
    BY SamePlans DEF Units
  <2> QED  BY <1>1, <1>t, <2>1 DEF CutOK, Cutting, Enabled, Reached
<1>7. FullOK' /\ DoneOK'
  BY DEF FullOK, DoneOK
<1> QED  BY <1>2, <1>4, <1>5, <1>6, <1>7 DEF Inv

(* A visit of the incremental computation keeps the invariant.                *)
LEMMA InvVisitInc ==
    ASSUME Inv, VisitInc
    PROVE  Inv'
<1>1. PICK o \in todo :
          /\ Visited(o)
          /\ IF Loses(o)
             THEN /\ supp' = [supp EXCEPT ![o] = NewSupp(o)]
                  /\ suppCost' = [suppCost EXCEPT ![o] = value[NewSupp(o)]]
                  /\ IF value[NewSupp(o)] # suppCost[o]
                     THEN Enqueue({o}, cost, [x \in {o} |-> value[NewSupp(o)]])
                     ELSE UNCHANGED <<value, queue>>
             ELSE UNCHANGED <<supp, suppCost, value, queue>>
  BY DEF VisitInc
<1>2. pc = "inc" /\ UNCHANGED <<task, pc, state, popped, unsat, cost, ldms, heur>>
  BY DEF VisitInc
<1>3. CASE Loses(o)
  <2> DEFINE s == NewSupp(o)
  <2> HIDE DEF s
  <2>1. /\ s = NewSupp(o)
        /\ supp' = [supp EXCEPT ![o] = s]
        /\ suppCost' = [suppCost EXCEPT ![o] = value[s]]
        /\ IF value[s] # suppCost[o]
           THEN Enqueue({o}, cost, [x \in {o} |-> value[s]])
           ELSE UNCHANGED <<value, queue>>
    BY <1>1, <1>3 DEF s
  <2> QED  BY <1>1, <1>2, <1>3, <2>1, InvVisitIncLoses
<1>4. CASE ~Loses(o)
  BY <1>1, <1>2, <1>4, InvVisitIncKeeps
<1> QED  BY <1>3, <1>4

---------------------------------------------------------------------------
(* Relaxed plans.                                                            *)

(* More operators reach no less.                                             *)
LEMMA MoreOperators ==
    ASSUME NEW O, NEW P, O \subseteq P, RelaxedPlan(O)
    PROVE  RelaxedPlan(P)
BY DEF RelaxedPlan, Leaves

(* A justified estimate of the goal is backed by a plan whose operators cost *)
(* no more each.                                                             *)
LEMMA JustifiedPlan ==
    ASSUME TypeOK, TaskOK, Just(value, cost), NEW b \in Nat, b < Inf, value[Goal] <= b
    PROVE  RelaxedPlan({o \in RealOps : cost[o] <= b})
<1> USE InfAssumption
<1>1. /\ task \in Tasks /\ value \in [Fact -> 0..Inf] /\ cost \in [Op -> Nat]
      /\ Goal \in Fact /\ Goal \notin 1..task.facts /\ Goal # NoPre
      /\ state \subseteq 1..task.facts \cup {NoPre} /\ state \subseteq Fact
      /\ Pre(OpGoal) = task.goal
      /\ \A o \in Op : Pre(o) \subseteq Fact /\ Pre(o) # {}
  BY TaskFacts DEF TypeOK, TaskOK
<1> DEFINE O == {o \in RealOps : cost[o] <= b}
<1> SUFFICES ASSUME NEW Y \in SUBSET (1..task.facts \ state),
                    ~Leaves(O, state \cup Y), ~(task.goal \subseteq state \cup Y)
             PROVE  FALSE
  BY DEF RelaxedPlan
<1> DEFINE X == state \cup Y
           Z == {f \in Fact \ state : Reached(f) /\ value[f] <= b} \ X
<1>2. Goal \in Z
  <2>1. Goal \notin X /\ Goal \notin state
    BY <1>1
  <2>2. Reached(Goal)
    BY <1>1 DEF Reached
  <2> QED  BY <1>1, <2>1, <2>2
<1>3. Z \in SUBSET {f \in Fact \ state : value[f] # Inf}
  BY DEF Reached
<1>4. PICK f \in Z : \E o \in EffOps(f) : Pre(o) \cap Z = {} /\ Earned(value, cost, f, o)
  BY <1>2, <1>3 DEF Just
<1>5. PICK o \in EffOps(f) : Pre(o) \cap Z = {} /\ Earned(value, cost, f, o)
  BY <1>4
<1>6. o \in Op /\ f \in Eff(o) /\ f \in Fact /\ value[f] <= b /\ f \notin X
  BY DEF EffOps
<1>7. ASSUME NEW p \in Pre(o) PROVE p \in X /\ cost[o] <= b
  <2>1. /\ value[f] >= cost[o] + value[p] /\ Reached(p) /\ p \in Fact
        /\ value[f] \in 0..Inf /\ value[p] \in 0..Inf /\ cost[o] \in Nat
    BY <1>1, <1>5, <1>6 DEF Earned, Enabled, Reached
  <2>2. value[p] <= b /\ cost[o] <= b
    BY <1>6, <2>1
  <2> QED  BY <1>5, <2>1, <2>2
<1>8. Pre(o) \subseteq X /\ cost[o] <= b
  BY <1>1, <1>6, <1>7
<1>9. CASE o = OpGoal
  BY <1>1, <1>8, <1>9
<1>10. CASE o # OpGoal
  <2>1. o \in O
    BY <1>6, <1>8, <1>10 DEF RealOps
  <2> QED  BY <1>6, <1>8, <2>1 DEF Leaves
<1> QED  BY <1>9, <1>10

(* What is reached is closed, so nothing else is.                            *)
LEMMA OutOfReach ==
    ASSUME TypeOK, TaskOK, SuppOK, pc # "idle", ~Reached(Goal),
           \A o \in Op : Enabled(value, o) => supp[o] # NoSupp
    PROVE  ~RelaxedPlan(RealOps)
<1>1. /\ task \in Tasks /\ Inf \in Nat \ {0} /\ state \subseteq 1..task.facts \cup {NoPre}
      /\ \A f \in state : Reached(f)
      /\ Pre(OpGoal) = task.goal /\ Eff(OpGoal) = {Goal} /\ OpGoal \in Op
      /\ task.goal \subseteq 1..task.facts
      /\ \A o \in RealOps : Eff(o) \subseteq 1..task.facts /\ o \in Op
  BY TaskFacts DEF TaskOK, Reached, RealOps
<1> DEFINE Y == {f \in 1..task.facts : Reached(f)} \ state
<1>2. Y \in SUBSET (1..task.facts \ state)
  OBVIOUS
<1>3. \A f \in state \cup Y : Reached(f)
  BY <1>1
<1>4. ASSUME NEW o \in Op, Pre(o) \subseteq state \cup Y PROVE \A f \in Eff(o) : Reached(f)
  BY <1>3, <1>4 DEF SuppOK, Supported, Enabled, Reached
<1>5. ~(task.goal \subseteq state \cup Y)
  BY <1>1, <1>4
<1>6. ~Leaves(RealOps, state \cup Y)
  BY <1>1, <1>4 DEF Leaves
<1> QED  BY <1>2, <1>5, <1>6 DEF RelaxedPlan

---------------------------------------------------------------------------
(* The cut.                                                                  *)

(* The zone holds the goal and what leads into it for nothing, and no more   *)
(* than that.                                                                *)
LEMMA ZoneFacts ==
    ASSUME TypeOK, task \in Tasks
    PROVE  /\ Goal \in Zone /\ Zone \subseteq Fact
           /\ \A o \in Op : LeadsInto(Zone, o) /\ cost[o] = 0 => supp[o] \in Zone
           /\ \A W \in SUBSET Fact :
                 Goal \in W /\ (\A o \in Op : LeadsInto(W, o) /\ cost[o] = 0 => supp[o] \in W)
                 => Zone \subseteq W
<1> DEFINE Adds(Z) == {supp[o] : o \in {x \in Op : LeadsInto(Z, x) /\ cost[x] = 0}}
<1>1. Goal \in Fact /\ \A o \in Op : supp[o] \in Fact \cup {NoSupp}
  BY TaskFacts DEF TypeOK
<1>2. Zone = {f \in Fact : \A Y \in SUBSET (Fact \ {Goal}) :
                               f \in {Goal} \cup Y \/ ~(Adds({Goal} \cup Y) \subseteq {Goal} \cup Y)}
  BY DEF Zone, Closure
<1>3. Goal \in Zone /\ Zone \subseteq Fact
  BY <1>1, <1>2
<1>4. ASSUME NEW W \in SUBSET Fact, Goal \in W,
             \A o \in Op : LeadsInto(W, o) /\ cost[o] = 0 => supp[o] \in W
      PROVE  Zone \subseteq W
  <2> DEFINE Y == W \ {Goal}
  <2>1. Y \in SUBSET (Fact \ {Goal}) /\ {Goal} \cup Y = W
    BY <1>4
  <2>2. Adds(W) \subseteq W
    BY <1>4
  <2>3. ASSUME NEW f \in Zone PROVE f \in W
    <3> HIDE DEF Adds, Y
    <3>1. f \in {Goal} \cup Y \/ ~(Adds({Goal} \cup Y) \subseteq {Goal} \cup Y)
      BY <1>2, <2>1
    <3>2. Adds({Goal} \cup Y) \subseteq {Goal} \cup Y
      BY <2>1, <2>2
    <3> QED  BY <2>1, <3>1, <3>2
  <2> QED  BY <2>3
<1>5. ASSUME NEW o \in Op, LeadsInto(Zone, o), cost[o] = 0
      PROVE  supp[o] \in Zone
  <2>1. supp[o] \in Fact
    BY <1>1, <1>5 DEF LeadsInto
  <2>2. ASSUME NEW Y \in SUBSET (Fact \ {Goal}), Adds({Goal} \cup Y) \subseteq {Goal} \cup Y
        PROVE  supp[o] \in {Goal} \cup Y
    <3>1. Zone \subseteq {Goal} \cup Y
      BY <1>2, <2>2
    <3>2. LeadsInto({Goal} \cup Y, o)
      BY <1>5, <3>1 DEF LeadsInto
    <3> QED  BY <1>5, <2>2, <3>2
  <2> QED  BY <1>2, <2>1, <2>2
<1> QED  BY <1>3, <1>4, <1>5

(* The way from the state to the cut follows supporters.                     *)
LEMMA FrontFacts ==
    ASSUME task \in Tasks, NEW Z, NEW C, state \subseteq Fact
    PROVE  /\ state \ Z \subseteq Front(Z, C)
           /\ OnWay(Z, C, Front(Z, C)) \subseteq Front(Z, C)
<1> DEFINE S == state \ Z
           F == Front(Z, C)
<1>1. F = {f \in Fact : \A Y \in SUBSET (Fact \ S) :
                            f \in S \cup Y \/ ~(OnWay(Z, C, S \cup Y) \subseteq S \cup Y)}
  BY DEF Front, Closure
<1> HIDE DEF F
<1>2. S \subseteq F
  BY <1>1
<1>3. ASSUME NEW f \in OnWay(Z, C, F) PROVE f \in F
  <2>1. f \in Fact
    BY TaskFacts DEF OnWay, EffOf
  <2>2. ASSUME NEW Y \in SUBSET (Fact \ S), OnWay(Z, C, S \cup Y) \subseteq S \cup Y
        PROVE  f \in S \cup Y
    <3>1. F \subseteq S \cup Y
      BY <1>1, <2>2
    <3>2. f \in OnWay(Z, C, S \cup Y)
      BY <1>3, <3>1 DEF OnWay, EffOf
    <3> QED  BY <2>2, <3>2
  <2> QED  BY <1>1, <2>1, <2>2
<1> QED  BY <1>2, <1>3 DEF F

(* The facts from which the goal costs nothing are as dear as the goal, so   *)
(* none of them is in the state; the operators that lead into them from what *)
(* is before them are all in the cut.                                        *)
LEMMA CutIsLandmark ==
    ASSUME Inv, pc = "cut", value[Goal] > 0
    PROVE  ~RelaxedPlan(RealOps \ TheCut(Zone))
<1> USE InfAssumption
<1>1. /\ TypeOK /\ TaskOK /\ QueueOK /\ SuppOK /\ JustOK /\ CutOK /\ task \in Tasks
      /\ Waiting = {} /\ todo = {} /\ Reached(Goal)
      /\ \A o \in Op : Enabled(value, o) => supp[o] # NoSupp
      /\ \A o \in Op : supp[o] # NoSupp => Supported(o)
  BY DEF Inv, TaskOK, QueueOK, SuppOK, CutOK, Cutting
<1>2. /\ Goal \in Fact /\ value \in [Fact -> 0..Inf] /\ suppCost \in [Op -> 0..Inf]
      /\ cost \in [Op -> Nat]
      /\ state \subseteq 1..task.facts \cup {NoPre} /\ state \subseteq Fact
      /\ NoPre \in state /\ \A f \in state : value[f] = 0
      /\ \A o \in Op : Pre(o) \subseteq Fact /\ Eff(o) \subseteq Fact
      /\ Fact = 1..task.facts \cup {Goal, NoPre}
  BY <1>1, TaskFacts DEF TypeOK, TaskOK
<1> DEFINE Z == Zone
           C == TheCut(Zone)
           F == Front(Zone, Candidates(Zone))
           Dear == {f \in Fact : value[f] >= value[Goal]}
           X == {f \in Fact : Reached(f) /\ f \notin Z /\ (f \in state \/ IsSupp(f) => f \in F)}
<1>3. /\ Goal \in Z /\ Z \subseteq Fact
      /\ \A o \in Op : LeadsInto(Z, o) /\ cost[o] = 0 => supp[o] \in Z
      /\ state \ Z \subseteq F
      /\ OnWay(Z, Candidates(Z), F) \subseteq F
      /\ C = {o \in Candidates(Z) : supp[o] \in F}
  BY <1>1, <1>2, ZoneFacts, FrontFacts DEF TheCut
<1>4. Z \subseteq Dear
  <2>1. ASSUME NEW o \in Op, LeadsInto(Dear, o), cost[o] = 0 PROVE supp[o] \in Dear
    <3>1. Supported(o) /\ Settled(o) /\ supp[o] \in Fact
      BY <1>1, <1>2, <2>1 DEF LeadsInto, Supported
    <3>2. PICK f \in Eff(o) : value[f] >= value[Goal] /\ f \in Fact
      BY <2>1 DEF LeadsInto
    <3>3. value[f] <= cost[o] + suppCost[o]
      BY <3>1 DEF Supported
    <3>4. value[supp[o]] = suppCost[o]
      BY <3>1 DEF Settled
    <3>5. value[f] \in Nat /\ value[Goal] \in Nat /\ suppCost[o] \in Nat
      BY <1>2, <3>2
    <3>6. value[supp[o]] >= value[Goal]
      BY <2>1, <3>2, <3>3, <3>4, <3>5
    <3> QED  BY <3>1, <3>6
  <2>2. Goal \in Dear /\ Dear \in SUBSET Fact
    BY <1>2
  <2> HIDE DEF Dear
  <2> QED  BY <1>1, <2>1, <2>2, ZoneFacts
<1>5. \A f \in state : f \notin Z
  BY <1>2, <1>4
<1> HIDE DEF Z, F, C
<1>6. state \subseteq X
  <2>1. ASSUME NEW f \in state PROVE f \in X
    <3>1. value[f] = 0 /\ Inf # 0
      BY <1>1, <1>2, TaskFacts
    <3>2. f \in Fact /\ f \notin Z /\ f \in F /\ Reached(f)
      BY <1>2, <1>3, <1>5, <3>1 DEF Reached
    <3> QED  BY <3>2
  <2> QED  BY <2>1
<1> DEFINE Y == X \ state
<1>7. Y \in SUBSET (1..task.facts \ state) /\ state \cup Y = X
  BY <1>2, <1>3, <1>6
<1>8. ASSUME NEW o \in RealOps \ C, Pre(o) \subseteq X
      PROVE  Eff(o) \subseteq X
  <2>1. o \in Op /\ supp[o] # NoSupp /\ Supported(o)
    BY <1>1, <1>8 DEF RealOps, Enabled, Reached
  <2>2. supp[o] \in X /\ IsSupp(supp[o])
    BY <1>8, <2>1 DEF Supported, IsSupp
  <2>3. supp[o] \in F /\ supp[o] \notin Z
    BY <2>2
  <2>4. Eff(o) \cap Z = {}
    <3> SUFFICES ASSUME LeadsInto(Z, o) PROVE FALSE
      BY <2>1 DEF LeadsInto
    <3>1. cost[o] # 0
      BY <1>3, <2>1, <2>3
    <3>2. cost[o] > 0
      BY <1>2, <2>1, <3>1
    <3>3. o \in Candidates(Z)
      BY <2>1, <3>2 DEF Candidates
    <3> QED  BY <1>3, <1>8, <2>3, <3>3
  <2>5. o \notin Candidates(Z)
    BY <2>4 DEF Candidates, LeadsInto
  <2>6. ASSUME NEW f \in Eff(o) PROVE f \in X
    <3>1. f \in Fact /\ Reached(f) /\ f \notin Z
      BY <1>2, <2>1, <2>4 DEF Supported
    <3>2. f \in state => f \in F
      BY <1>3, <3>1
    <3>3. IsSupp(f) => f \in F
      <4>1. IsSupp(f) => f \in OnWay(Z, Candidates(Z), F)
        BY <2>1, <2>3, <2>5, <3>1 DEF OnWay, EffOf
      <4> QED  BY <1>3, <4>1
    <3> QED  BY <3>1, <3>2, <3>3
  <2> QED  BY <2>6
<1>9. ~Leaves(RealOps \ C, X)
  BY <1>8 DEF Leaves
<1>10. ~(task.goal \subseteq X)
  <2>1. OpGoal \in Op /\ Pre(OpGoal) = task.goal /\ Eff(OpGoal) = {Goal} /\ cost[OpGoal] = 0
    <3>1. OpGoal \in Op /\ OpCost(OpGoal) = 0
      BY <1>1, TaskFacts
    <3>2. cost[OpGoal] <= OpCost(OpGoal) /\ cost[OpGoal] \in Nat
      BY <1>1, <1>2, <3>1 DEF CutOK, Cutting
    <3> QED  BY <1>1, <3>1, <3>2, TaskFacts
  <2>2. SUFFICES ASSUME task.goal \subseteq X PROVE FALSE
    OBVIOUS
  <2>3. supp[OpGoal] # NoSupp /\ Supported(OpGoal)
    BY <1>1, <2>1, <2>2 DEF Enabled, Reached
  <2>4. LeadsInto(Z, OpGoal)
    BY <1>3, <2>1, <2>3 DEF LeadsInto
  <2>5. supp[OpGoal] \in Z /\ supp[OpGoal] \in task.goal
    BY <1>3, <2>1, <2>3, <2>4 DEF Supported
  <2> QED  BY <2>2, <2>5
<1> HIDE DEF X, Y
<1>11. ~RelaxedPlan(RealOps \ C)
  BY <1>7, <1>9, <1>10 DEF RelaxedPlan
<1> QED  BY <1>11 DEF C

(* So it is not empty, costs something, and does not hold the artificial     *)
(* operator of the goal.                                                     *)
LEMMA CutCosts ==
    ASSUME Inv, pc = "cut", value[Goal] > 0, NEW C, C = TheCut(Zone)
    PROVE  /\ C # {} /\ C \subseteq RealOps
           /\ CutCost(C) \in Nat \ {0}
           /\ \A o \in C : supp[o] # NoSupp /\ CutCost(C) <= cost[o]
           /\ ~RelaxedPlan(RealOps \ C)
<1>1. /\ TypeOK /\ TaskOK /\ JustOK /\ CutOK /\ task \in Tasks /\ Reached(Goal)
      /\ value[Goal] \in 0..Inf /\ cost \in [Op -> Nat]
  BY TaskFacts DEF Inv, TaskOK, CutOK, Cutting, TypeOK
<1>2. ~RelaxedPlan(RealOps \ C)
  BY CutIsLandmark
<1>3. RelaxedPlan(RealOps)
  <2>1. value[Goal] \in Nat /\ value[Goal] < Inf /\ value[Goal] <= value[Goal]
    BY <1>1, InfAssumption DEF Reached
  <2>2. Just(value, cost)
    BY <1>1 DEF JustOK
  <2>3. RelaxedPlan({o \in RealOps : cost[o] <= value[Goal]})
    BY <1>1, <2>1, <2>2, JustifiedPlan
  <2> QED  BY <2>3, MoreOperators
<1>4. C # {}
  <2>1. C = {} => RealOps \ C = RealOps
    OBVIOUS
  <2> QED  BY <1>2, <1>3, <2>1
<1>5. \A o \in C : o \in Op /\ supp[o] # NoSupp /\ cost[o] > 0 /\ cost[o] \in Nat
  BY <1>1 DEF TheCut, Candidates, LeadsInto
<1>6. C \subseteq RealOps
  <2>1. cost[OpGoal] <= 0
    BY <1>1, TaskFacts DEF CutOK, Cutting
  <2> QED  BY <1>1, <1>5, <2>1, TaskFacts DEF RealOps
<1>7. CutCost(C) \in {cost[o] : o \in C} /\ \A x \in {cost[o] : o \in C} : CutCost(C) <= x
  <2>1. {cost[o] : o \in C} \in SUBSET Nat /\ {cost[o] : o \in C} # {}
    BY <1>4, <1>5
  <2> QED  BY <2>1, MinOfNat DEF CutCost
<1>8. CutCost(C) \in Nat \ {0} /\ \A o \in C : CutCost(C) <= cost[o]
  BY <1>5, <1>7
<1> QED  BY <1>2, <1>4, <1>5, <1>6, <1>8

(* A cut keeps the invariant.                                                 *)
LEMMA InvCut ==
    ASSUME Inv, Cut
    PROVE  Inv'
<1> USE InfAssumption
<1> DEFINE C == TheCut(Zone)
           m == CutCost(C)
<1>1. /\ TypeOK /\ TaskOK /\ QueueOK /\ SuppOK /\ JustOK /\ CutOK /\ task \in Tasks
      /\ Waiting = {} /\ todo = {} /\ Reached(Goal) /\ pc = "cut" /\ value[Goal] > 0
      /\ \A f \in state : value[f] = 0
      /\ UNCHANGED <<task, state, popped, todo, unsat, supp, suppCost>>
  BY DEF Inv, TaskOK, QueueOK, CutOK, Cutting, Cut
<1>t. /\ UNCHANGED <<Fact, Op, Goal, NoPre, RealOps>>
      /\ \A x : Pre(x)' = Pre(x) /\ Eff(x)' = Eff(x) /\ OpCost(x)' = OpCost(x)
      /\ \A f : PreOps(f)' = PreOps(f)
  BY <1>1, SameTask
<1>2. /\ C # {} /\ C \subseteq RealOps /\ C \subseteq Op
      /\ m \in Nat \ {0}
      /\ \A o \in C : supp[o] # NoSupp /\ m <= cost[o]
      /\ ~RelaxedPlan(RealOps \ C)
  BY <1>1, CutCosts DEF RealOps
<1>3. /\ pc' = "inc" /\ heur' = heur + m /\ cost' = Lowered(C, m)
      /\ ldms' = ldms \cup {C} /\ Enqueue(C, cost', suppCost)
  BY <1>2 DEF Cut
<1> HIDE DEF C, m
<1>4. /\ value \in [Fact -> 0..Inf] /\ cost \in [Op -> Nat] /\ heur \in Nat
      /\ suppCost \in [Op -> 0..Inf] /\ Op \subseteq Nat
      /\ \A o \in Op : Eff(o) \subseteq Fact /\ Pre(o) \subseteq Fact
      /\ state \subseteq Fact
      /\ \A o \in C : Supported(o)
  BY <1>1, <1>2, TaskFacts DEF TypeOK, SuppOK
<1>5. /\ cost' \in [Op -> Nat]
      /\ \A o \in Op : cost'[o] <= cost[o]
      /\ \A o \in C : cost'[o] + m = cost[o]
      /\ \A o \in Op \ C : cost'[o] = cost[o]
  <2>1. ASSUME NEW o \in Op
        PROVE  /\ cost'[o] \in Nat /\ cost'[o] <= cost[o]
               /\ o \in C => cost'[o] + m = cost[o]
               /\ o \notin C => cost'[o] = cost[o]
    <3>1. cost'[o] = IF o \in C THEN cost[o] - m ELSE cost[o]
      BY <1>3 DEF Lowered
    <3>2. cost[o] \in Nat /\ (o \in C => m <= cost[o])
      BY <1>2, <1>4
    <3> QED  BY <1>2, <3>1, <3>2
  <2>2. cost' = [o \in Op |-> cost'[o]]
    BY <1>3 DEF Lowered
  <2> QED  BY <1>2, <2>1, <2>2
<1>6. /\ Offered(value', C, cost', suppCost)
      /\ Waiting' = Waiting \cup {f \in Fact : value'[f] # value[f]}
      /\ Waiting' \subseteq Fact
      /\ \A f \in Waiting' : queue'[f] = value'[f] /\ queue'[f] \in 0..Inf-1
  <2>1. C \in SUBSET Op /\ \A o \in C : suppCost[o] \in Nat
    BY <1>2, <1>4
  <2>2. \A f \in Waiting : queue[f] = value[f]
    BY <1>1
  <2> QED  BY <1>1, <1>3, <1>5, <2>1, <2>2, EnqueueFacts
<1>7. /\ value' \in [Fact -> 0..Inf]
      /\ \A f \in Fact : value'[f] <= value[f]
      /\ \A o \in C : \A f \in Eff(o) : value'[f] <= cost'[o] + suppCost[o]
      /\ \A f \in Fact : value'[f] = value[f] \/
             \E o \in C : f \in Eff(o) /\ value'[f] = cost'[o] + suppCost[o]
  BY <1>6 DEF Offered
<1>8. ASSUME NEW f \in Fact PROVE Reached(f)' <=> Reached(f)
  <2>1. value[f] \in 0..Inf /\ value'[f] \in 0..Inf /\ value'[f] <= value[f]
    BY <1>4, <1>7
  <2>2. value'[f] = value[f] \/ Reached(f)
    BY <1>4, <1>7 DEF Supported
  <2> QED  BY <2>1, <2>2 DEF Reached
<1>9. TypeOK'
  <2>1. C \in SUBSET Op'
    BY <1>t, <1>2
  <2>2. heur' \in Nat
    BY <1>2, <1>3, <1>4
  <2> QED  BY <1>1, <1>t, <1>3, <1>5, <1>6, <1>7, <2>1, <2>2 DEF TypeOK
<1>10. TaskOK'
  <2>1. ASSUME NEW f \in state PROVE value'[f] = 0
    <3>1. f \in Fact
      BY <1>4
    <3>2. value[f] = 0 /\ value'[f] \in Nat /\ value'[f] <= value[f]
      BY <1>1, <1>7, <3>1
    <3> QED  BY <3>2
  <2> QED  BY <1>1, <1>t, <1>3, <2>1 DEF TaskOK
<1>11. QueueOK'
  BY <1>1, <1>3, <1>6 DEF QueueOK
<1>12. SuppOK'
  <2>1. ASSUME NEW x \in Op, supp[x] # NoSupp PROVE Supported(x)'
    <3>1. Supported(x)
      BY <1>1, <2>1 DEF SuppOK
    <3>2. ASSUME NEW f \in Eff(x) PROVE value'[f] <= cost'[x] + suppCost[x]
      <4>1. CASE x \in C
        BY <1>7, <4>1
      <4>2. CASE x \notin C
        <5>1. f \in Fact /\ value[f] <= cost[x] + suppCost[x] /\ value[f] \in 0..Inf
              /\ value'[f] \in 0..Inf /\ value'[f] <= value[f] /\ cost'[x] = cost[x]
              /\ cost[x] \in Nat /\ suppCost[x] \in 0..Inf
          BY <1>4, <1>5, <1>7, <3>1, <4>2 DEF Supported
        <5> QED  BY <5>1
      <4> QED  BY <4>1, <4>2
    <3> QED  BY <1>1, <1>6, <1>7, <3>1, <3>2, SupportKept
  <2> QED  BY <1>1, <1>t, <2>1 DEF SuppOK
<1>13. JustOK'
  <2>1. \A f \in Fact : value'[f] = value[f] \/ \E x \in EffOps(f) :
            Enabled(value, x) /\ \A p \in Pre(x) : cost'[x] + value[p] <= value'[f]
    <3>1. ASSUME NEW f \in Fact, value'[f] # value[f],
                 NEW o \in C, f \in Eff(o), value'[f] = cost'[o] + suppCost[o]
          PROVE  o \in EffOps(f) /\ Enabled(value, o)
                 /\ \A p \in Pre(o) : cost'[o] + value[p] <= value'[f]
      <4>1. o \in Op /\ cost'[o] \in Nat /\ suppCost[o] \in Nat
        BY <1>2, <1>4, <1>5
      <4>2. ASSUME NEW p \in Pre(o) PROVE cost'[o] + value[p] <= cost'[o] + suppCost[o]
        <5>1. value[p] \in 0..Inf /\ value[p] <= suppCost[o]
          BY <1>4, <4>1 DEF Supported
        <5> QED  BY <4>1, <5>1
      <4>3. Enabled(value, o)
        BY <1>4 DEF Enabled, Reached, Supported
      <4> QED  BY <3>1, <4>1, <4>2, <4>3 DEF EffOps
    <3> QED  BY <1>7, <3>1
  <2>2. Just(value, cost)
    BY <1>1 DEF JustOK
  <2>3. Just(value', cost')
    BY <1>1, <1>4, <1>5, <1>7, <2>1, <2>2, JustStep
  <2> QED  BY <1>1, <2>3, JustNext DEF JustOK
<1>14. CutOK'
  <2>1. ASSUME NEW x \in Op, Enabled(value', x) PROVE supp'[x] # NoSupp
    <3>1. Enabled(value, x)
      BY <1>4, <1>8, <2>1 DEF Enabled, Reached
    <3> QED  BY <1>1, <3>1 DEF CutOK, Cutting
  <2>2. \A O : /\ RelaxedPlan(O)' = RelaxedPlan(O)
               /\ PlanCost(O)' = PlanCost(O)
               /\ Units(cost, O)' = Units(cost', O)
    BY <1>1, SamePlans DEF Units
  <2>3. Reached(Goal)'
    BY <1>1, <1>t, <1>8, TaskFacts DEF Reached
  <2>4. ASSUME NEW o \in Op PROVE cost'[o] <= OpCost(o)
    <3>1. cost'[o] \in Nat /\ cost[o] \in Nat /\ OpCost(o) \in Nat
          /\ cost'[o] <= cost[o] /\ cost[o] <= OpCost(o)
      BY <1>1, <1>4, <1>5, TaskFacts DEF CutOK, Cutting
    <3> QED  BY <3>1
  <2>5. \A L \in ldms' : ~RelaxedPlan(RealOps \ L)
    BY <1>1, <1>2, <1>3 DEF CutOK, Cutting
  <2>6. heur' # 0
    BY <1>2, <1>3, <1>4
  <2>7. ASSUME NEW O \in SUBSET RealOps, RelaxedPlan(O)
        PROVE  heur' + Cardinality(Units(cost', O)) <= PlanCost(O)
    <3>1. PICK o \in O : o \in C
      <4>1. O \cap C = {} => O \subseteq RealOps \ C
        OBVIOUS
      <4> QED  BY <1>2, <2>7, <4>1, MoreOperators
    <3>2. IsFiniteSet(O) /\ O \subseteq Op
      BY <1>1, TotalCost, FS_Subset DEF RealOps
    <3>3. \A x \in O : cost[x] \in Nat /\ cost'[x] \in Nat /\ cost'[x] <= cost[x]
      BY <1>4, <1>5, <3>2
    <3>4. Cardinality(Units(cost', O)) + m <= Cardinality(Units(cost, O))
      BY <1>2, <1>5, <3>1, <3>2, <3>3, UnitsLess
    <3>5. heur + Cardinality(Units(cost, O)) <= PlanCost(O)
      BY <1>1, <2>7 DEF CutOK, Cutting
    <3>6. /\ Cardinality(Units(cost', O)) \in Nat /\ Cardinality(Units(cost, O)) \in Nat
          /\ PlanCost(O) \in Nat
      <4>1. \A x \in O : [y \in O |-> OpCost(y)][x] \in Nat
        BY <1>1, <3>2, TaskFacts
      <4> QED  BY <3>2, <3>3, <4>1, UnitsFinite DEF PlanCost
    <3> QED  BY <1>2, <1>3, <1>4, <3>4, <3>5, <3>6
  <2> QED  BY <1>1, <1>t, <1>3, <2>1, <2>2, <2>3, <2>4, <2>5, <2>6, <2>7 DEF CutOK, Cutting, Enabled
<1>15. FullOK' /\ DoneOK'
  BY <1>3 DEF FullOK, DoneOK
<1> QED  BY <1>9, <1>10, <1>11, <1>12, <1>13, <1>14, <1>15 DEF Inv

---------------------------------------------------------------------------
(* The properties.                                                           *)

(* The invariant holds in every state of every sequence of calls.             *)
LEMMA InvHolds == Spec => []Inv
<1>1. Init => Inv
  BY InvInit
<1>2. Inv /\ [Next]_vars => Inv'
  <2> SUFFICES ASSUME Inv, [Next]_vars PROVE Inv'
    OBVIOUS
  <2>1. ASSUME NEW s \in SUBSET (1..task.facts), Start(s) PROVE Inv'
    BY <2>1, InvStart
  <2>2. CASE Pop
    BY <2>2, InvPop
  <2>3. CASE VisitFull
    BY <2>3, InvVisitFull
  <2>4. CASE EndFull
    BY <2>4, InvEndFull
  <2>5. CASE Cut
    BY <2>5, InvCut
  <2>6. CASE Finish \/ EndInc
    BY <2>6, InvPhase
  <2>7. CASE VisitInc
    BY <2>7, InvVisitInc
  <2>8. CASE UNCHANGED vars
    <3>1. UNCHANGED <<task, pc, state, value, queue, popped, todo, unsat, supp, suppCost,
                      cost, ldms, heur>>
      BY <2>8 DEF vars, hmaxVars
    <3>2. /\ UNCHANGED <<Fact, Op, Goal, NoPre, RealOps>>
          /\ \A o : Pre(o)' = Pre(o) /\ Eff(o)' = Eff(o) /\ OpCost(o)' = OpCost(o)
          /\ \A f : PreOps(f)' = PreOps(f)
      BY <3>1, SameTask
    <3>3. TypeOK' /\ TaskOK' /\ QueueOK' /\ DoneOK'
      BY <3>1, <3>2 DEF Inv, TypeOK, TaskOK, QueueOK, DoneOK, Waiting, Reached
    <3>4. SuppOK'
      BY <3>1, <3>2 DEF Inv, SuppOK, Supported, Settled, Waiting, Reached
    <3>5. JustOK'
      BY <3>1, JustNext DEF Inv, JustOK
    <3>6. FullOK'
      <4>1. \A f : Settles(f)' <=> Settles(f)
        BY <3>1 DEF Settles, Waiting, Reached
      <4>2. \A o : Missing(o)' = Missing(o)
        BY <3>1, <3>2, <4>1 DEF Missing
      <4>3. Units(cost, Fired)' = Units(cost, Fired)
        BY <3>1, <3>2 DEF Units, Fired
      <4> QED  BY <3>1, <3>2, <4>1, <4>2, <4>3 DEF Inv, FullOK, Waiting, Reached
    <3>7. CutOK'
      <4>1. \A O : /\ RelaxedPlan(O)' = RelaxedPlan(O)
                   /\ PlanCost(O)' = PlanCost(O)
                   /\ Units(cost, O)' = Units(cost, O)
        BY <3>1, SamePlans DEF Units
      <4> QED  BY <3>1, <3>2, <4>1 DEF Inv, CutOK, Cutting, Enabled, Reached
    <3> QED  BY <3>3, <3>4, <3>5, <3>6, <3>7 DEF Inv
  <2> QED  BY <2>1, <2>2, <2>3, <2>4, <2>5, <2>6, <2>7, <2>8 DEF Next, Step
<1>3. QED  BY <1>1, <1>2, PTL DEF Spec

(* LM-Cut's variables keep their types: estimates never overflow, counters   *)
(* of missing preconditions and costs never go below zero.                   *)
THEOREM LMCutTypeCorrect == Spec => []TypeOK
<1>1. Inv => TypeOK
  BY DEF Inv
<1>2. QED  BY <1>1, InvHolds, PTL

(* What hMaxInc corrects after a cut is h^max for the costs that are left,   *)
(* although only operators whose supporter got cheaper are looked at again.  *)
THEOREM IncrementalHMax == Spec => []IncrementalIsFull
<1>1. Inv => IncrementalIsFull
  <2> SUFFICES ASSUME Inv, pc = "cut" PROVE IsHMax(value, cost)
    BY DEF IncrementalIsFull
  <2> USE InfAssumption
  <2>1. /\ TypeOK /\ task \in Tasks /\ Waiting = {} /\ todo = {}
        /\ Just(value, cost)
        /\ \A f \in state : value[f] = 0
        /\ \A o \in Op : Enabled(value, o) => Supported(o) /\ Settled(o)
        /\ value \in [Fact -> 0..Inf] /\ cost \in [Op -> Nat]
        /\ \A o \in Op : Pre(o) \subseteq Fact /\ Pre(o) # {} /\ Eff(o) \subseteq Fact
    BY TaskFacts DEF Inv, TypeOK, TaskOK, QueueOK, SuppOK, JustOK, CutOK, Cutting, Supported
  <2> DEFINE Paid(o) == cost[o] + Max({value[p] : p \in Pre(o)})
  <2>2. ASSUME NEW o \in Op, Enabled(value, o)
        PROVE  /\ supp[o] \in Pre(o) /\ Paid(o) = cost[o] + value[supp[o]]
               /\ \A f \in Eff(o) : value[f] <= Paid(o)
    <3>1. Supported(o) /\ suppCost[o] = value[supp[o]] /\ Pre(o) \subseteq Fact
      BY <2>1, <2>2 DEF Settled
    <3>2. supp[o] \in Pre(o) /\ \A p \in Pre(o) : value[p] <= value[supp[o]]
      BY <3>1 DEF Supported
    <3>3. Max({value[p] : p \in Pre(o)}) = value[supp[o]]
      <4> DEFINE S == {value[p] : p \in Pre(o)}
      <4>1. S \in SUBSET Nat /\ value[supp[o]] \in S /\ \A x \in S : x <= value[supp[o]]
        BY <2>1, <3>1, <3>2
      <4> HIDE DEF S
      <4>2. Max(S) = value[supp[o]]
        BY <4>1, MaxIs
      <4> QED  BY <4>2 DEF S
    <3> QED  BY <3>1, <3>2, <3>3 DEF Supported
  <2>3. ASSUME NEW Z \in SUBSET {f \in Fact \ state : value[f] # Inf}, Z # {}
        PROVE  \E f \in Z : \E o \in EffOps(f) :
                  Enabled(value, o) /\ Pre(o) \cap Z = {} /\ value[f] = Paid(o)
    <3>1. PICK f \in Z : \E o \in EffOps(f) : Pre(o) \cap Z = {} /\ Earned(value, cost, f, o)
      BY <2>1, <2>3 DEF Just
    <3>2. PICK o \in EffOps(f) : Pre(o) \cap Z = {} /\ Earned(value, cost, f, o)
      BY <3>1
    <3>3. o \in Op /\ f \in Eff(o) /\ f \in Fact /\ Enabled(value, o)
      BY <3>2 DEF EffOps, Earned
    <3>4. supp[o] \in Pre(o) /\ Paid(o) = cost[o] + value[supp[o]] /\ value[f] <= Paid(o)
      BY <2>2, <3>3
    <3>5. value[f] >= cost[o] + value[supp[o]]
      BY <3>2, <3>4 DEF Earned
    <3>6. value[f] \in Nat /\ cost[o] \in Nat /\ value[supp[o]] \in Nat
      BY <2>1, <3>3, <3>4
    <3> HIDE DEF Paid
    <3>7. value[f] = Paid(o)
      BY <3>4, <3>5, <3>6
    <3> QED  BY <3>2, <3>3, <3>7
  <2>4. \A o \in Op : (Pre(o) # {} /\ \A p \in Pre(o) : value[p] # Inf) <=> Enabled(value, o)
    BY <2>1 DEF Enabled
  <2>5. \A f : \A o \in EffOps(f) : o \in Op
    BY DEF EffOps
  <2> DEFINE Open(o) == Pre(o) # {} /\ \A p \in Pre(o) : value[p] # Inf
  <2>6. \A o \in Op : Open(o) => \A f \in Eff(o) : value[f] <= Paid(o)
    <3> HIDE DEF Paid
    <3> QED  BY <2>2, <2>4
  <2>7. \A Z \in SUBSET {f \in Fact \ state : value[f] # Inf} : Z # {} =>
          \E f \in Z : \E o \in EffOps(f) :
              Open(o) /\ Pre(o) \cap Z = {} /\ value[f] = Paid(o)
    <3> HIDE DEF Paid
    <3> QED  BY <2>3, <2>4, <2>5
  <2> QED  BY <2>1, <2>6, <2>7 DEF IsHMax
<1>2. QED  BY <1>1, InvHolds, PTL

(* Every cut is a disjunctive action landmark of the state: no plan, even    *)
(* without deletes, does without all of its operators.                       *)
THEOREM CutsLandmarks == Spec => []CutsAreLandmarks
<1>1. Inv => CutsAreLandmarks
  BY DEF Inv, CutOK, Cutting, CutsAreLandmarks
<1>2. QED  BY <1>1, InvHolds, PTL

(* LM-Cut never says more than a relaxed plan costs: it is admissible.       *)
THEOREM LMCutAdmissible == Spec => []Admissible
<1>1. Inv => Admissible
  <2> SUFFICES ASSUME Inv, pc = "done", heur # DeadEnd,
                      NEW O \in SUBSET RealOps, RelaxedPlan(O)
               PROVE  heur <= PlanCost(O)
    BY DEF Admissible
  <2>1. TypeOK /\ task \in Tasks /\ Reached(Goal)
    BY DEF Inv, TaskOK, DoneOK
  <2>2. heur + Cardinality(Units(cost, O)) <= PlanCost(O)
    BY <2>1 DEF Inv, CutOK, Cutting
  <2>3. IsFiniteSet(O) /\ O \subseteq Op
    BY <2>1, TotalCost, FS_Subset DEF RealOps
  <2>4. /\ \A o \in O : cost[o] \in Nat
        /\ \A o \in O : [x \in O |-> OpCost(x)][o] \in Nat
    BY <2>1, <2>3, TaskFacts DEF TypeOK
  <2>5. Cardinality(Units(cost, O)) \in Nat /\ PlanCost(O) \in Nat
    BY <2>3, <2>4, UnitsFinite DEF PlanCost
  <2>6. heur \in Nat
    BY <2>1 DEF TypeOK
  <2> QED  BY <2>2, <2>5, <2>6
<1>2. QED  BY <1>1, InvHolds, PTL

(* The answer is a dead end only where the goal is out of reach, and zero    *)
(* only where it can be had for nothing; no cut is empty or costs nothing.   *)
THEOREM LMCutAnswers == Spec => []AnswerRight
<1>1. Inv => AnswerRight
  <2> SUFFICES ASSUME Inv PROVE AnswerRight
    OBVIOUS
  <2> DEFINE Free == {o \in RealOps : OpCost(o) = 0}
  <2>1. pc # "panic" /\ task \in Tasks /\ TypeOK
    BY DEF Inv, TaskOK
  <2> SUFFICES ASSUME pc = "done"
               PROVE  /\ heur = DeadEnd <=> ~RelaxedPlan(RealOps)
                      /\ heur = 0 <=> RelaxedPlan(Free)
    BY <2>1 DEF AnswerRight
  <2>2. /\ TaskOK /\ SuppOK /\ CutOK /\ DoneOK /\ Just(value, cost)
        /\ value[Goal] \in 0..Inf /\ cost \in [Op -> Nat] /\ heur \in Nat
        /\ Inf \in Nat \ {0} /\ DeadEnd \in Nat \ {0}
        /\ \A o \in Op : OpCost(o) \in Nat
        /\ RealOps \subseteq Op
    BY <2>1, TaskFacts DEF Inv, JustOK, TypeOK, RealOps
  <2>3. RelaxedPlan(Free) => RelaxedPlan(RealOps)
    BY MoreOperators
  <2>4. CASE ~Reached(Goal)
    <3>1. heur = DeadEnd
      BY <2>2, <2>4 DEF DoneOK
    <3>2. ~RelaxedPlan(RealOps)
      BY <2>1, <2>2, <2>4, OutOfReach DEF CutOK, Cutting
    <3> QED  BY <2>2, <2>3, <3>1, <3>2
  <2>5. CASE Reached(Goal)
    <3>1. value[Goal] = 0
      BY <2>2, <2>5 DEF DoneOK
    <3>2. RelaxedPlan({o \in RealOps : cost[o] <= 0})
      BY <2>1, <2>2, <3>1, JustifiedPlan
    <3>3. RelaxedPlan(RealOps)
      BY <3>2, MoreOperators
    <3>4. heur = 0 => RelaxedPlan(Free)
      <4>1. ASSUME heur = 0 PROVE {o \in RealOps : cost[o] <= 0} \subseteq Free
        <5>1. cost = [o \in Op |-> OpCost(o)]
          BY <2>2, <4>1 DEF CutOK, Cutting
        <5>2. \A o \in RealOps : cost[o] = OpCost(o) /\ OpCost(o) \in Nat
          BY <2>2, <5>1
        <5> QED  BY <5>2
      <4> QED  BY <3>2, <4>1, MoreOperators
    <3>5. ASSUME NEW O \in SUBSET RealOps, RelaxedPlan(O)
          PROVE  heur <= PlanCost(O) /\ PlanCost(O) \in Nat
      <4>1. heur + Cardinality(Units(cost, O)) <= PlanCost(O)
        BY <2>2, <2>5, <3>5 DEF CutOK, Cutting
      <4>2. IsFiniteSet(O) /\ O \subseteq Op
        BY <2>1, <2>2, TotalCost, FS_Subset
      <4>3. /\ \A o \in O : cost[o] \in Nat
            /\ \A o \in O : [x \in O |-> OpCost(x)][o] \in Nat
        BY <2>2, <4>2
      <4>4. Cardinality(Units(cost, O)) \in Nat /\ PlanCost(O) \in Nat
        BY <4>2, <4>3, UnitsFinite DEF PlanCost
      <4> QED  BY <2>2, <4>1, <4>4
    <3>6. RelaxedPlan(Free) => heur = 0
      <4>1. Units([o \in Free |-> OpCost(o)], Free) = {}
        BY DEF Units
      <4>2. PlanCost(Free) = 0
        BY <4>1, FS_EmptySet DEF PlanCost
      <4>3. RelaxedPlan(Free) => heur <= 0
        BY <3>5, <4>2
      <4> QED  BY <2>2, <4>3
    <3>7. heur # DeadEnd
      <4> DEFINE total == Cardinality(Units([o \in Op |-> OpCost(o)], Op))
      <4>1. total \in Nat /\ total < DeadEnd /\ IsFiniteSet(Op)
        BY <2>1, TotalCost
      <4>2. PlanCost(RealOps) <= total
        <5>1. \A o \in RealOps : [x \in RealOps |-> OpCost(x)][o] = [x \in Op |-> OpCost(x)][o]
          BY <2>2
        <5>2. Units([x \in RealOps |-> OpCost(x)], RealOps) = Units([x \in Op |-> OpCost(x)], RealOps)
          BY <5>1, UnitsSame
        <5>3. Cardinality(Units([x \in Op |-> OpCost(x)], RealOps)) <= total
          BY <2>2, <4>1, UnitsMore
        <5> QED  BY <5>2, <5>3 DEF PlanCost
      <4>3. heur <= PlanCost(RealOps) /\ PlanCost(RealOps) \in Nat
        BY <3>3, <3>5
      <4> HIDE DEF total
      <4> QED  BY <2>2, <4>1, <4>2, <4>3
    <3> QED  BY <3>3, <3>4, <3>6, <3>7
  <2> QED  BY <2>4, <2>5
<1>2. QED  BY <1>1, InvHolds, PTL
=============================================================================
