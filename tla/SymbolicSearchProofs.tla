------------------------- MODULE SymbolicSearchProofs -------------------------
(* Symbolic search, for every task: what is closed is exact, the halves of a *)
(* plan meet, plans are plans and cheapest ones, and none is missed.         *)
EXTENDS SymbolicSearch, TLAPS, NaturalsInduction, WellFoundedInduction,
        FiniteSetTheorems

Weight(n) == OpCost(task.trans[n])
Within(d, s, c) == \E p \in task.shortest[d] : p[1] = s /\ p[2] <= c
Exact(d, s, c) == <<s, c>> \in task.shortest[d]

TaskOK == task \in Tasks /\ mode \in {"fw", "bw", "fwbw"}

Searches(d) == mode \in {d, "fwbw"}
Expanding(d) == pc = "expand" /\ dir = d
Hand(d) == IF Expanding(d) THEN Bdd(d, cur) ELSE {}

(* A node is a root, or was reached from a node by a relation, or merged     *)
(* from nodes of its cost that were not merged; those nodes are not open any *)
(* more.  No state of a node costs more than the node.                       *)
Settled(d) == DOMAIN pool[d] \ open[d]

IsRoot(d, i) == Cost(d, i) = 0 /\ Bdd(d, i) \subseteq Source(d)

IsChild(d, i) ==
    LET p == pool[d][i].parent  n == pool[d][i].trans
    IN  /\ p \in Settled(d) /\ n \in 1..LastTrans
        /\ Cost(d, i) = Cost(d, p) + Weight(n)
        /\ Bdd(d, i) \subseteq Image(d, task.trans[n], Bdd(d, p))

IsMerged(d, i) ==
    /\ \A p \in pool[d][i].parents : /\ p \in Settled(d)
                                     /\ pool[d][p].parents = {}
                                     /\ Cost(d, p) = Cost(d, i)
    /\ \A s \in Bdd(d, i) : \E p \in pool[d][i].parents : s \in Bdd(d, p)

NodeOK(d, i) ==
    /\ Cost(d, i) <= MaxCost
    /\ \A s \in Bdd(d, i) : Within(d, s, Cost(d, i))
    /\ IF pool[d][i].parents # {} THEN pool[d][i].parent = NoNode /\ IsMerged(d, i)
       ELSE IF pool[d][i].parent = NoNode THEN IsRoot(d, i) ELSE IsChild(d, i)

NodesOK == \A d \in Dirs : \A i \in DOMAIN pool[d] : NodeOK(d, i)

(* A direction that may step has at most one node on top, with states none   *)
(* of which is closed, unless it has not begun; only that node is merged.    *)
Ready(d) ==
    /\ \A i \in open[d] : IsTop(d, i) =>
          /\ \A j \in open[d] : Cost(d, j) <= Cost(d, i) => j = i
          /\ Bdd(d, i) \cap AllClosed(d) = {}
          /\ Bdd(d, i) = {} => open[d] = {i}
    /\ \A i \in open[d] : pool[d][i].parents # {} => IsTop(d, i)

OpenOK == \A d \in Dirs :
    /\ open[d] \cap closed[d] = {}
    /\ ~Searches(d) => open[d] = {} /\ closed[d] = {}
    /\ \A k \in closed[d] : \A i \in open[d] : Cost(d, k) < Cost(d, i)
    /\ cont[d] = "cont" /\ ~Expanding(d) => Ready(d)
    /\ cont[d] = "notexist" => mode = d /\ open[d] = {}
    /\ cont[d] = "abort" => mode = "fwbw" /\ d = "bw"

(* The node that is expanded.                                                *)
HandOK == pc = "expand" =>
    /\ cur \in Settled(dir) \ closed[dir]
    /\ Searches(dir) /\ cont[dir] = "cont"
    /\ \A k \in closed[dir] : Cost(dir, k) < Cost(dir, cur)
    /\ \A i \in open[dir] : Cost(dir, cur) < Cost(dir, i) /\ pool[dir][i].parents = {}
    /\ Bdd(dir, cur) # {} /\ Bdd(dir, cur) \cap AllClosed(dir) = {}
    /\ \A s \in Bdd(dir, cur) : Exact(dir, s, Cost(dir, cur)) /\ s \notin Target(dir)

ClosedOK == \A d \in Dirs : \A i \in closed[d] : \A s \in Bdd(d, i) :
    Exact(d, s, Cost(d, i)) /\ s \notin Target(d)

(* What one step leads to from the closed nodes is closed or open, unless it *)
(* costs as much as the bound.  After a time-out the backward open list      *)
(* holds a node that costs little enough for the search to go on.            *)
Covered(d, s, c) ==
    \/ s \in AllClosed(d) \cup Hand(d)
    \/ \E j \in open[d] : s \in Bdd(d, j) /\ Cost(d, j) <= c

Followed(d, i, n) ==
    \/ Cost(d, i) + Weight(n) >= bound
    \/ \A s \in Image(d, task.trans[n], Bdd(d, i)) : Covered(d, s, Cost(d, i) + Weight(n))

Frontier(d) ==
    /\ \A s \in Source(d) : Covered(d, s, 0)
    /\ \A i \in closed[d] : \A n \in 1..LastTrans : Followed(d, i, n)

Lost == \E j \in open["bw"] : \A p \in task.shortest["fw"] : p[2] + Cost("bw", j) < MaxCost

FrontOK == pc \in {"drive", "expand"} =>
    /\ \A d \in Dirs : Searches(d) => Frontier(d) \/ (d = "bw" /\ cont[d] = "abort" /\ Lost)
    /\ pc = "expand" => \A n \in 1..tri - 1 : Followed(dir, cur, n)

(* Closed nodes of the two directions that share a state, or are one step    *)
(* apart, have made the bound what they allow.                               *)
Seen(d, i) == \A j \in closed[Other(d)] :
    Bdd(d, i) \cap Bdd(Other(d), j) # {} => bound <= Cost(d, i) + Cost(Other(d), j)

Bridged(d, i, n) == \A j \in closed[Other(d)] :
    Image(d, task.trans[n], Bdd(d, i)) \cap Bdd(Other(d), j) # {} =>
        bound <= Cost(d, i) + Weight(n) + Cost(Other(d), j)

SeenOK ==
    /\ \A d \in Dirs : \A i \in closed[d] :
          Seen(d, i) /\ \A n \in 1..LastTrans : Bridged(d, i, n)
    /\ pc = "expand" => Seen(dir, cur) /\ \A n \in 1..tri - 1 : Bridged(dir, cur, n)

(* The nodes where the best plan met; one of them is closed.                 *)
NoneFound == \A d \in Dirs : cont[d] # "found"
Halves == mode = "fwbw" /\ NoneFound

Meets(d) ==
    /\ goalId[d] \in DOMAIN pool[d] /\ goalId[Other(d)] \in closed[Other(d)]
    /\ Bdd(d, goalId[d]) \cap Bdd(Other(d), goalId[Other(d)]) # {}
    /\ Cost(d, goalId[d]) + Cost(Other(d), goalId[Other(d)]) = bound

MeetOK ==
    /\ mode # "fwbw" => bound = MaxCost
    /\ pc \in {"drive", "expand"} => NoneFound
    /\ Halves => /\ bound < MaxCost => \E d \in Dirs : Meets(d)
                 /\ goalId["fw"] # NoNode => bound < MaxCost

(* The plan so far: edges one after the other, from or to the state at.      *)
Linked == \A i \in DOMAIN plan :
    /\ plan[i][2] \in 1..LastTrans
    /\ <<plan[i][1], plan[i][3]>> \in task.trans[plan[i][2]].edges
    /\ i > 1 => plan[i][1] = plan[i - 1][3]

First == IF plan = <<>> THEN at ELSE plan[1][1]
Last == IF plan = <<>> THEN at ELSE plan[Len(plan)][3]

Rest == IF pc = "trace"
        THEN Cost(dir, cur) + (IF Halves /\ dir = "fw" THEN Cost("bw", goalId["bw"]) ELSE 0)
        ELSE 0

IsLeast(c) == c \in GoalCosts /\ \A x \in GoalCosts : c <= x

PlanOK ==
    /\ Linked /\ IsFiniteSet(Units(plan))
    /\ pc \in {"drive", "expand"} => plan = <<>>
    /\ pc \in {"trace", "found"} /\ cont["bw"] # "abort" => IsLeast(PlanCost + Rest)
    /\ pc = "found" => First = task.init /\ Last \in task.goal

TraceOK == pc = "trace" =>
    /\ cur \in DOMAIN pool[dir] /\ pool[dir][cur].parents = {} /\ at \in Bdd(dir, cur)
    /\ dir = "fw" => First = at /\ Last \in (IF Halves THEN {cut} ELSE task.goal)
    /\ dir = "bw" => First = task.init /\ Last = at
    /\ Halves => goalId["bw"] \in DOMAIN pool["bw"] /\ cut \in Bdd("bw", goalId["bw"])
    /\ ~Halves => (dir = "fw" => mode = "fw" \/ cont["fw"] = "found")

EndOK == pc # "panic" /\ (pc = "notexist" => GoalCosts = {})

Inv == /\ TypeOK /\ TaskOK /\ NodesOK /\ OpenOK /\ HandOK /\ ClosedOK /\ FrontOK
       /\ SeenOK /\ MeetOK /\ PlanOK /\ TraceOK /\ EndOK

---------------------------------------------------------------------------
(* Tasks.                                                                    *)

(* A set of naturals has a least element, and Min is it.                     *)
LEMMA MinOfNat ==
    ASSUME NEW S \in SUBSET Nat, S # {}
    PROVE  Min(S) \in S /\ \A x \in S : Min(S) <= x
<1>1. \E x \in S : \A y \in S : ~(<<y, x>> \in OpToRel(<, Nat))
  <2>1. IsWellFoundedOn(OpToRel(<, Nat), Nat)
    BY NatLessThanWellFounded
  <2> QED  BY <2>1, WFMin
<1>2. PICK x \in S : \A y \in S : ~(<<y, x>> \in OpToRel(<, Nat))
  BY <1>1
<1>3. \A y \in S : x <= y
  <2>1. ASSUME NEW y \in S PROVE x <= y
    <3>1. ~(y < x)
      BY <1>2 DEF OpToRel
    <3> QED  BY <3>1
  <2> QED  BY <2>1
<1>4. QED  BY <1>3 DEF Min

(* Relations and what they weigh; operators of cost 0 weigh something too.   *)
Trans == 1..LastTrans
Arc(d, n, x, y) == (IF d = "fw" THEN <<x, y>> ELSE <<y, x>>) \in task.trans[n].edges

(* What every task has.                                                      *)
LEMMA TaskFacts ==
    ASSUME TaskOK
    PROVE  /\ task.init \in task.states /\ task.goal \subseteq task.states
           /\ LastTrans \in Nat /\ Trans = DOMAIN task.trans
           /\ \A n \in Trans : /\ Weight(n) \in Nat \ {0}
                               /\ task.trans[n].edges \subseteq task.states \X task.states
           /\ \A d \in Dirs : AreShortest(task, d, task.shortest[d])
           /\ CostsFit(task)
           /\ MaxCost \in Nat
<1> DEFINE Rel == [cost : Nat, edges : SUBSET (task.states \X task.states)]
<1>1. /\ IsTask(task) /\ CostsFit(task) /\ MaxCost \in Nat /\ Unit \in Nat \ {0}
      /\ \A d \in Dirs : AreShortest(task, d, task.shortest[d])
  BY TaskAssumption, ParameterAssumption DEF TaskOK
<1>2. task.trans \in Seq(Rel)
  BY <1>1 DEF IsTask
<1>3. \A r \in Rel : /\ r.cost \in Nat
                     /\ r.edges \subseteq task.states \X task.states
  OBVIOUS
<1>4. \A r \in Rel : OpCost(r) \in Nat \ {0}
  <2>1. \A c \in Nat, u \in Nat \ {0} : c # 0 => c * u \in Nat \ {0}
    OBVIOUS
  <2> QED  BY <1>1, <1>3, <2>1 DEF OpCost
<1> HIDE DEF Rel
<1>5. LastTrans \in Nat /\ Trans = DOMAIN task.trans
  BY <1>2 DEF LastTrans, Trans
<1>6. \A n \in Trans : task.trans[n] \in Rel
  BY <1>2, <1>5
<1> QED  BY <1>1, <1>3, <1>4, <1>5, <1>6 DEF IsTask, Weight

(* Images by arcs.                                                           *)
LEMMA ImageIs ==
    ASSUME TaskOK, NEW d \in Dirs, NEW n \in Trans, NEW B, NEW y
    PROVE  /\ y \in Image(d, task.trans[n], B) <=> \E x \in B : Arc(d, n, x, y)
           /\ Image(d, task.trans[n], B) \subseteq task.states
<1>1. task.trans[n].edges \subseteq task.states \X task.states
  BY TaskFacts
<1>2. \A x, z : Arc(d, n, x, z) => x \in task.states /\ z \in task.states
  BY <1>1 DEF Arc
<1>3. \A e \in task.trans[n].edges : e = <<e[1], e[2]>>
  BY <1>1
<1>4. ASSUME NEW z PROVE z \in Image(d, task.trans[n], B) <=> \E x \in B : Arc(d, n, x, z)
  <2>1. CASE d = "fw"
    <3>1. z \in Image(d, task.trans[n], B) <=>
             \E e \in task.trans[n].edges : e[1] \in B /\ e[2] = z
      BY <2>1 DEF Image
    <3>2. \A x : Arc(d, n, x, z) <=> <<x, z>> \in task.trans[n].edges
      BY <2>1 DEF Arc
    <3> QED  BY <1>3, <3>1, <3>2
  <2>2. CASE d # "fw"
    <3>1. z \in Image(d, task.trans[n], B) <=>
             \E e \in task.trans[n].edges : e[2] \in B /\ e[1] = z
      BY <2>2 DEF Image
    <3>2. \A x : Arc(d, n, x, z) <=> <<z, x>> \in task.trans[n].edges
      BY <2>2 DEF Arc
    <3> QED  BY <1>3, <3>1, <3>2
  <2> QED  BY <2>1, <2>2
<1> QED  BY <1>2, <1>4

(* An arc one way is an arc the other way in the other direction.            *)
LEMMA ArcTurns ==
    ASSUME NEW d \in Dirs
    PROVE  /\ Other(d) \in Dirs /\ Other(Other(d)) = d /\ Other(d) # d
           /\ \A n, x, y : Arc(d, n, x, y) <=> Arc(Other(d), n, y, x)
  BY DEF Dirs, Other, Arc

(* The arcs of the reference are those of the relations.                     *)
LEMMA ArcsAre ==
    ASSUME TaskOK, NEW d \in Dirs
    PROVE  /\ \A n \in Trans : \A x, y : Arc(d, n, x, y) =>
                 <<x, y, Weight(n)>> \in Arcs(task, d)
           /\ \A a \in Arcs(task, d) : \E n \in Trans :
                 Arc(d, n, a[1], a[2]) /\ a[3] = Weight(n)
<1>1. /\ Trans = DOMAIN task.trans
      /\ \A n \in Trans : task.trans[n].edges \subseteq task.states \X task.states
  BY TaskFacts
<1> DEFINE arc(e, r) == IF d = "fw" THEN <<e[1], e[2], OpCost(r)>> ELSE <<e[2], e[1], OpCost(r)>>
<1>2. \A a : a \in Arcs(task, d) <=> \E n \in Trans : \E e \in task.trans[n].edges :
                                        a = arc(e, task.trans[n])
  BY <1>1 DEF Arcs, Range
<1>3. ASSUME NEW n \in Trans, NEW x, NEW y, Arc(d, n, x, y)
      PROVE  <<x, y, Weight(n)>> \in Arcs(task, d)
  <2>1. CASE d = "fw"
    BY <1>2, <1>3, <2>1 DEF Arc, Weight
  <2>2. CASE d # "fw"
    BY <1>2, <1>3, <2>2 DEF Arc, Weight
  <2> QED  BY <2>1, <2>2
<1>4. ASSUME NEW a \in Arcs(task, d)
      PROVE  \E n \in Trans : Arc(d, n, a[1], a[2]) /\ a[3] = Weight(n)
  <2>1. PICK n \in Trans : \E e \in task.trans[n].edges : a = arc(e, task.trans[n])
    BY <1>2
  <2>2. PICK e \in task.trans[n].edges : a = arc(e, task.trans[n])
    BY <2>1
  <2>3. e = <<e[1], e[2]>>
    BY <1>1
  <2> QED  BY <2>2, <2>3 DEF Arc, Weight
<1> QED  BY <1>3, <1>4

(* Cheapest walks: one arc on, one arc back.                                 *)
LEMMA WalkTypes ==
    ASSUME TaskOK, NEW d \in Dirs, NEW s, NEW c, Exact(d, s, c)
    PROVE  /\ s \in task.states /\ c \in Nat
           /\ \A b : Exact(d, s, b) => b = c
<1>1. task.shortest[d] \subseteq task.states \X Nat
  BY TaskFacts DEF AreShortest
<1>2. \A p, q \in task.shortest[d] : p[1] = q[1] => p[2] = q[2]
  BY TaskFacts DEF AreShortest
<1>3. ASSUME NEW b, Exact(d, s, b) PROVE b = c
  <2>1. <<s, b>>[1] = <<s, c>>[1]
    OBVIOUS
  <2>2. <<s, b>>[2] = <<s, c>>[2]
    BY <1>2, <1>3, <2>1 DEF Exact
  <2> QED  BY <2>2
<1> QED  BY <1>1, <1>3 DEF Exact

(* A state is within a cost if its cheapest walk costs no more.              *)
LEMMA WithinIs ==
    ASSUME TaskOK, NEW d \in Dirs, NEW s, NEW c
    PROVE  Within(d, s, c) <=> \E b \in Nat : Exact(d, s, b) /\ b <= c
<1>1. \A p \in task.shortest[d] : p = <<p[1], p[2]>> /\ p[2] \in Nat
  BY TaskFacts DEF AreShortest
<1> QED  BY <1>1 DEF Within, Exact

(* A walk and one arc more.                                                  *)
LEMMA WalkOn ==
    ASSUME TaskOK, NEW d \in Dirs, NEW n \in Trans, NEW x, NEW y, NEW c,
           Exact(d, x, c), Arc(d, n, x, y)
    PROVE  Within(d, y, c + Weight(n))
<1>1. <<x, y, Weight(n)>> \in Arcs(task, d)
  BY ArcsAre
<1>2. \A p \in task.shortest[d] : \A a \in Arcs(task, d) : a[1] = p[1] =>
          \E q \in task.shortest[d] : q[1] = a[2] /\ q[2] <= p[2] + a[3]
  BY TaskFacts DEF AreShortest
<1>3. \E q \in task.shortest[d] : q[1] = y /\ q[2] <= c + Weight(n)
  BY <1>1, <1>2 DEF Exact
<1> QED  BY <1>3 DEF Within

(* A cheapest walk that is no beginning has a last arc.                      *)
LEMMA WalkBack ==
    ASSUME TaskOK, NEW d \in Dirs, NEW y, NEW c, Exact(d, y, c)
    PROVE  \/ y \in Source(d) /\ c = 0
           \/ \E n \in Trans : \E x, b : Arc(d, n, x, y) /\ Exact(d, x, b) /\ c = b + Weight(n)
<1>1. \A p \in task.shortest[d] : \/ p \in Sources(task, d) \X {0}
                     \/ \E a \in Arcs(task, d) : \E q \in task.shortest[d] :
                           q[1] = a[1] /\ a[2] = p[1] /\ p[2] = q[2] + a[3]
  BY TaskFacts DEF AreShortest
<1>2. \/ <<y, c>> \in Sources(task, d) \X {0}
      \/ \E a \in Arcs(task, d) : \E q \in task.shortest[d] :
             q[1] = a[1] /\ a[2] = y /\ c = q[2] + a[3]
  BY <1>1 DEF Exact
<1>3. CASE <<y, c>> \in Sources(task, d) \X {0}
  BY <1>3 DEF Source
<1>4. CASE \E a \in Arcs(task, d) : \E q \in task.shortest[d] :
             q[1] = a[1] /\ a[2] = y /\ c = q[2] + a[3]
  <2>1. PICK a \in Arcs(task, d) : \E q \in task.shortest[d] :
             q[1] = a[1] /\ a[2] = y /\ c = q[2] + a[3]
    BY <1>4
  <2>2. PICK q \in task.shortest[d] : q[1] = a[1] /\ a[2] = y /\ c = q[2] + a[3]
    BY <2>1
  <2>3. PICK n \in Trans : Arc(d, n, a[1], a[2]) /\ a[3] = Weight(n)
    BY ArcsAre
  <2>4. q = <<q[1], q[2]>>
    BY TaskFacts DEF AreShortest
  <2>5. Arc(d, n, q[1], y) /\ Exact(d, q[1], q[2]) /\ c = q[2] + Weight(n)
    BY <2>2, <2>3, <2>4 DEF Exact
  <2> QED  BY <2>5
<1> QED  BY <1>2, <1>3, <1>4

(* Walks begin at the sources, for nothing.                                  *)
LEMMA WalkFrom ==
    ASSUME TaskOK, NEW d \in Dirs, NEW s \in Source(d)
    PROVE  Exact(d, s, 0)
  BY TaskFacts DEF AreShortest, Exact, Source

(* A walk from each side to one state makes a walk from one side to the      *)
(* other that costs no more.                                                 *)
LEMMA Joined ==
    ASSUME TaskOK, NEW d \in Dirs, NEW s, NEW b, NEW c,
           Exact(d, s, b), Exact(Other(d), s, c)
    PROVE  \E x \in Target(d) : Within(d, x, b + c)
<1> DEFINE o == Other(d)
           Z == {z \in Nat : \E x : \E y \in Nat : Exact(d, x, y) /\ Exact(o, x, z)
                                                  /\ y + z <= b + c}
<1>0. o \in Dirs /\ b \in Nat /\ c \in Nat
  BY ArcTurns, WalkTypes
<1>1. c \in Z
  BY <1>0
<1>2. Min(Z) \in Z /\ \A z \in Z : Min(Z) <= z
  <2>1. Z \in SUBSET Nat /\ Z # {}
    BY <1>1
  <2> HIDE DEF Z
  <2> QED  BY <2>1, MinOfNat
<1>3. PICK z \in Nat : z \in Z /\ \A w \in Z : z <= w
  BY <1>2
<1>4. PICK x, y : y \in Nat /\ Exact(d, x, y) /\ Exact(o, x, z) /\ y + z <= b + c
  BY <1>3
<1>5. CASE x \in Source(o) /\ z = 0
  <2>1. Within(d, x, b + c)
    BY <1>0, <1>4, <1>5, WithinIs
  <2> QED  BY <1>5, <2>1 DEF Target
<1>6. CASE \E n \in Trans : \E u, w : Arc(o, n, u, x) /\ Exact(o, u, w) /\ z = w + Weight(n)
  <2>1. PICK n \in Trans : \E u, w : Arc(o, n, u, x) /\ Exact(o, u, w) /\ z = w + Weight(n)
    BY <1>6
  <2>2. PICK u, w : Arc(o, n, u, x) /\ Exact(o, u, w) /\ z = w + Weight(n)
    BY <2>1
  <2>3. w \in Nat /\ Weight(n) \in Nat \ {0}
    BY <1>0, <2>2, WalkTypes, TaskFacts
  <2>4. Arc(d, n, x, u)
    BY <2>2, ArcTurns
  <2>5. Within(d, u, y + Weight(n))
    BY <1>4, <2>4, WalkOn
  <2>6. PICK v \in Nat : Exact(d, u, v) /\ v <= y + Weight(n)
    BY <2>5, WithinIs
  <2>7. v + w <= b + c
    BY <1>0, <1>4, <2>2, <2>3, <2>6
  <2>8. w \in Z
    BY <2>2, <2>3, <2>6, <2>7
  <2> HIDE DEF Z
  <2> QED  BY <1>3, <2>2, <2>3, <2>8
<1> HIDE DEF Z
<1> QED  BY <1>0, <1>4, <1>5, <1>6, WalkBack

---------------------------------------------------------------------------
(* Nodes.                                                                    *)
NodeRec == [cost : Nat, parent : Nat, parents : SUBSET Nat,
            trans : Nat, bdd : SUBSET task.states]

(* What the types say of the nodes of a direction.                           *)
LEMMA NodeTypes ==
    ASSUME TypeOK, NEW d \in Dirs
    PROVE  /\ pool[d] \in Seq(NodeRec) /\ Len(pool[d]) \in Nat
           /\ DOMAIN pool[d] = 1..Len(pool[d])
           /\ \A i \in DOMAIN pool[d] :
                 /\ pool[d][i] \in NodeRec
                 /\ Cost(d, i) \in Nat /\ Bdd(d, i) \subseteq task.states
                 /\ pool[d][i].parent \in Nat /\ pool[d][i].parents \subseteq Nat
                 /\ pool[d][i].trans \in Nat
           /\ open[d] \subseteq DOMAIN pool[d] /\ closed[d] \subseteq DOMAIN pool[d]
<1>1. /\ pool \in [Dirs -> Seq(NodeRec)]
      /\ open[d] \subseteq DOMAIN pool[d] /\ closed[d] \subseteq DOMAIN pool[d]
  BY DEF TypeOK, NodeRec
<1>2. \A r \in NodeRec : /\ r.cost \in Nat /\ r.bdd \subseteq task.states
                         /\ r.parent \in Nat /\ r.parents \subseteq Nat /\ r.trans \in Nat
  BY DEF NodeRec
<1>3. pool[d] \in Seq(NodeRec)
  BY <1>1
<1>4. Len(pool[d]) \in Nat /\ DOMAIN pool[d] = 1..Len(pool[d])
      /\ \A i \in DOMAIN pool[d] : pool[d][i] \in NodeRec
  BY <1>3
<1> QED  BY <1>1, <1>2, <1>4 DEF Cost, Bdd

(* What the types say of the rest of the state.                              *)
LEMMA OtherTypes ==
    ASSUME TypeOK
    PROVE  /\ open \in [Dirs -> SUBSET Nat] /\ closed \in [Dirs -> SUBSET Nat]
           /\ bound \in Nat /\ bound <= MaxCost /\ MaxCost \in Nat
           /\ tri \in Nat /\ dir \in Dirs
  BY ParameterAssumption DEF TypeOK

(* The closed states, as the states of a closed node.                        *)
LEMMA ClosedStates ==
    ASSUME NEW d, NEW s
    PROVE  s \in AllClosed(d) <=> \E i \in closed[d] : s \in Bdd(d, i)
  BY DEF AllClosed

(* While no node is in hand, a state whose cheapest walk costs less than the *)
(* bound is closed, or some open node costs no more than the walk.           *)
LEMMA FrontierHolds ==
    ASSUME TypeOK, TaskOK, ClosedOK, NEW d \in Dirs, Frontier(d), Hand(d) = {},
           NEW s, NEW c, Exact(d, s, c), c < bound, s \notin AllClosed(d)
    PROVE  \E j \in open[d] : Cost(d, j) <= c
<1> DEFINE Z == {z \in Nat : /\ z < bound
                             /\ \E x : Exact(d, x, z) /\ x \notin AllClosed(d)
                             /\ \A j \in open[d] : ~(Cost(d, j) <= z)}
<1>0. /\ bound \in Nat /\ c \in Nat
      /\ \A j \in open[d] \cup closed[d] : Cost(d, j) \in Nat
  BY OtherTypes, NodeTypes, WalkTypes
<1> SUFFICES ASSUME ~\E j \in open[d] : Cost(d, j) <= c
             PROVE  FALSE
  OBVIOUS
<1>1. c \in Z
  BY <1>0
<1>2. PICK z \in Z : \A w \in Z : z <= w
  <2>1. Z \in SUBSET Nat /\ Z # {}
    BY <1>1
  <2> HIDE DEF Z
  <2> QED  BY <2>1, MinOfNat
<1>3. PICK x : Exact(d, x, z) /\ x \notin AllClosed(d)
  BY <1>2
<1>4. \A n \in Nat : n <= z => \A j \in open[d] : ~(Cost(d, j) <= n)
  BY <1>0, <1>2
<1>5. ~Covered(d, x, z)
  BY <1>2, <1>3 DEF Covered
<1>6. CASE x \in Source(d) /\ z = 0
  BY <1>5, <1>6 DEF Frontier
<1>7. CASE \E n \in Trans : \E u, w : Arc(d, n, u, x) /\ Exact(d, u, w) /\ z = w + Weight(n)
  <2>1. PICK n \in Trans : \E u, w : Arc(d, n, u, x) /\ Exact(d, u, w) /\ z = w + Weight(n)
    BY <1>7
  <2>2. PICK u, w : Arc(d, n, u, x) /\ Exact(d, u, w) /\ z = w + Weight(n)
    BY <2>1
  <2>3. w \in Nat /\ Weight(n) \in Nat \ {0} /\ z \in Nat /\ z < bound
    BY <1>2, <2>2, WalkTypes, TaskFacts
  <2>4. CASE u \in AllClosed(d)
    <3>1. PICK i \in closed[d] : u \in Bdd(d, i)
      BY <2>4, ClosedStates
    <3>2. Cost(d, i) = w
      BY <2>2, <3>1, WalkTypes DEF ClosedOK
    <3>3. x \in Image(d, task.trans[n], Bdd(d, i))
      BY <2>2, <3>1, ImageIs
    <3>4. Followed(d, i, n)
      BY DEF Frontier, Trans
    <3>5. ~(Cost(d, i) + Weight(n) >= bound)
      BY <1>0, <2>2, <2>3, <3>2
    <3> QED  BY <1>5, <2>2, <3>2, <3>3, <3>4, <3>5 DEF Followed
  <2>5. CASE u \notin AllClosed(d)
    <3>1. w < z /\ w < bound
      BY <1>0, <2>2, <2>3
    <3>2. w \in Z
      BY <1>4, <2>2, <2>3, <2>5, <3>1
    <3> HIDE DEF Z
    <3> QED  BY <1>2, <2>3, <3>1, <3>2
  <2> QED  BY <2>4, <2>5
<1> HIDE DEF Z
<1> QED  BY <1>3, <1>6, <1>7, WalkBack

(* The open node on top that costs no more than the bound is exact.          *)
LEMMA TopExact ==
    ASSUME TypeOK, TaskOK, NodesOK, OpenOK, ClosedOK, NEW d \in Dirs, Frontier(d),
           Hand(d) = {}, Ready(d), NEW i \in open[d], IsTop(d, i), Cost(d, i) <= bound
    PROVE  /\ \A s \in Bdd(d, i) : Exact(d, s, Cost(d, i))
           /\ \A s, c : Exact(d, s, c) /\ c < Cost(d, i) => s \in AllClosed(d)
<1>1. /\ Cost(d, i) \in Nat /\ bound \in Nat
      /\ \A j \in open[d] : Cost(d, j) \in Nat /\ Cost(d, i) <= Cost(d, j)
  BY NodeTypes, OtherTypes DEF IsTop
<1>2. ASSUME NEW s, NEW c, Exact(d, s, c), c < Cost(d, i)
      PROVE  s \in AllClosed(d)
  <2>1. c \in Nat
    BY <1>2, WalkTypes
  <2>2. c < bound
    BY <1>1, <1>2, <2>1
  <2>3. ~\E j \in open[d] : Cost(d, j) <= c
    BY <1>1, <1>2, <2>1
  <2> QED  BY <1>2, <2>2, <2>3, FrontierHolds
<1>3. ASSUME NEW s \in Bdd(d, i)
      PROVE  Exact(d, s, Cost(d, i))
  <2>1. Within(d, s, Cost(d, i)) /\ s \notin AllClosed(d)
    BY NodeTypes DEF NodesOK, NodeOK, Ready
  <2>2. PICK c \in Nat : Exact(d, s, c) /\ c <= Cost(d, i)
    BY <2>1, WithinIs
  <2>3. ~(c < Cost(d, i))
    BY <1>2, <2>1, <2>2
  <2>4. c = Cost(d, i)
    BY <1>1, <2>2, <2>3
  <2> QED  BY <2>2, <2>4
<1> QED  BY <1>2, <1>3

---------------------------------------------------------------------------
(* What a plan costs at least.                                               *)
LEMMA GoalCostIs ==
    ASSUME TaskOK, NEW c
    PROVE  /\ c \in GoalCosts <=> \E g \in Target("fw") : Exact("fw", g, c)
           /\ c \in GoalCosts => c \in Nat
<1>1. \A p \in task.shortest["fw"] : p = <<p[1], p[2]>> /\ p[2] \in Nat
  BY TaskFacts DEF AreShortest, Dirs
<1>2. Target("fw") = task.goal
  BY DEF Target, Source, Sources, Other
<1> QED  BY <1>1, <1>2 DEF GoalCosts, Exact

(* What one direction can reach the other can, for no more.                  *)
LEMMA TurnedRound ==
    ASSUME TaskOK, NEW d \in Dirs, NEW g \in Target(d), NEW c, Exact(d, g, c)
    PROVE  \E h \in Target(Other(d)) : Within(Other(d), h, c)
<1>1. /\ Other(d) \in Dirs /\ Other(Other(d)) = d
      /\ g \in Source(Other(d)) /\ c \in Nat
  BY ArcTurns, WalkTypes DEF Target
<1>2. Exact(Other(d), g, 0)
  BY <1>1, WalkFrom
<1>3. \E h \in Target(Other(d)) : Within(Other(d), h, 0 + c)
  BY <1>1, <1>2, Joined
<1>4. 0 + c = c
  BY <1>1
<1> QED  BY <1>3, <1>4

(* The cheapest walk of one direction is what a plan costs at least.         *)
LEMMA LeastEither ==
    ASSUME TaskOK, NEW d \in Dirs, NEW g \in Target(d), NEW c, Exact(d, g, c),
           \A h \in Target(d) : \A b : Exact(d, h, b) => c <= b
    PROVE  IsLeast(c)
<1>1. CASE d = "fw"
  BY <1>1, GoalCostIs DEF IsLeast
<1>2. CASE d = "bw"
  <2>1. Other(d) = "fw" /\ "fw" \in Dirs /\ Other("fw") = d /\ c \in Nat
    BY <1>2, WalkTypes DEF Other, Dirs
  <2>2. ASSUME NEW b \in GoalCosts PROVE c <= b
    <3>1. PICK h \in Target("fw") : Exact("fw", h, b)
      BY GoalCostIs
    <3>2. PICK k \in Target(d) : Within(d, k, b)
      BY <2>1, <3>1, TurnedRound
    <3>3. PICK a \in Nat : Exact(d, k, a) /\ a <= b
      BY <3>2, WithinIs
    <3>4. c <= a /\ b \in Nat
      BY <3>3, GoalCostIs
    <3> QED  BY <2>1, <3>3, <3>4
  <2>3. PICK h \in Target("fw") : Within("fw", h, c)
    BY <2>1, TurnedRound
  <2>4. PICK b \in Nat : Exact("fw", h, b) /\ b <= c
    BY <2>1, <2>3, WithinIs
  <2>5. b \in GoalCosts
    BY <2>4, GoalCostIs
  <2>6. b = c
    BY <2>1, <2>2, <2>4, <2>5
  <2> QED  BY <2>2, <2>5, <2>6 DEF IsLeast
<1> QED  BY <1>1, <1>2 DEF Dirs

(* There is no plan if one direction does not reach its target.              *)
LEMMA NoneEither ==
    ASSUME TaskOK, NEW d \in Dirs, \A g \in Target(d) : \A c : ~Exact(d, g, c)
    PROVE  GoalCosts = {}
<1> SUFFICES ASSUME NEW b \in GoalCosts PROVE FALSE
  OBVIOUS
<1>1. PICK h \in Target("fw") : Exact("fw", h, b)
  BY GoalCostIs
<1>2. CASE d = "fw"
  BY <1>1, <1>2
<1>3. CASE d = "bw"
  <2>1. Other("fw") = d /\ "fw" \in Dirs
    BY <1>3 DEF Other, Dirs
  <2>2. PICK k \in Target(d) : Within(d, k, b)
    BY <1>1, <2>1, TurnedRound
  <2> QED  BY <2>2, WithinIs
<1> QED  BY <1>2, <1>3 DEF Dirs

(* A walk to the goal costs less than the maximum.                           *)
LEMMA GoalCostFits ==
    ASSUME TaskOK, NEW d \in Dirs, NEW g \in Target(d), NEW c, Exact(d, g, c)
    PROVE  c < MaxCost
<1>1. Exact(Other(d), g, 0) /\ c \in Nat
  BY ArcTurns, WalkFrom, WalkTypes DEF Target
<1>2. \A p \in task.shortest["fw"] : \A q \in task.shortest["bw"] : p[2] + q[2] < MaxCost
  BY TaskFacts DEF CostsFit
<1>3. CASE d = "fw"
  <2>1. c + 0 < MaxCost
    BY <1>1, <1>2, <1>3 DEF Exact, Other
  <2> QED  BY <1>1, <2>1
<1>4. CASE d = "bw"
  <2>1. 0 + c < MaxCost
    BY <1>1, <1>2, <1>4 DEF Exact, Other
  <2> QED  BY <1>1, <2>1
<1> QED  BY <1>3, <1>4 DEF Dirs

(* The search goes on if two open nodes cost less than the bound together.   *)
LEMMA GoesOnIf ==
    ASSUME TypeOK, NEW i \in open["fw"], NEW j \in open["bw"],
           Cost("fw", i) + Cost("bw", j) < bound
    PROVE  GoesOn
<1>1. ASSUME NEW d \in Dirs, NEW k \in open[d]
      PROVE  MinOpenCost(d) \in Nat /\ MinOpenCost(d) <= Cost(d, k)
  <2> DEFINE S == {Cost(d, l) : l \in open[d]}
  <2>1. S \in SUBSET Nat /\ Cost(d, k) \in S
    BY NodeTypes
  <2>2. Min(S) \in S /\ \A x \in S : Min(S) <= x
    <3> HIDE DEF S
    <3> QED  BY <2>1, MinOfNat
  <2>3. Min(S) \in Nat /\ Min(S) <= Cost(d, k)
    <3> HIDE DEF S
    <3> QED  BY <2>1, <2>2
  <2> QED  BY <2>3 DEF MinOpenCost
<1>2. /\ MinOpenCost("fw") \in Nat /\ MinOpenCost("fw") <= Cost("fw", i)
      /\ MinOpenCost("bw") \in Nat /\ MinOpenCost("bw") <= Cost("bw", j)
  BY <1>1 DEF Dirs
<1>3. Cost("fw", i) \in Nat /\ Cost("bw", j) \in Nat /\ bound \in Nat
  BY NodeTypes, OtherTypes DEF Dirs
<1>4. MinOpenCost("fw") + MinOpenCost("bw") < bound
  BY <1>2, <1>3
<1> QED  BY <1>4 DEF GoesOn

(* A search in two directions does not stop before the bound is right.       *)
LEMMA StopsRight ==
    ASSUME TypeOK, TaskOK, NodesOK, ClosedOK, SeenOK, Frontier("fw"), Frontier("bw"),
           pc # "expand", NEW c, IsLeast(c), c < bound
    PROVE  GoesOn
<1>0. /\ "fw" \in Dirs /\ "bw" \in Dirs /\ Other("fw") = "bw" /\ Other("bw") = "fw"
      /\ Source("fw") = {task.init} /\ Target("bw") = {task.init}
      /\ Source("bw") = Target("fw")
      /\ Hand("fw") = {} /\ Hand("bw") = {}
      /\ c \in Nat /\ bound \in Nat
  BY OtherTypes, GoalCostIs
     DEF Dirs, Other, Source, Target, Sources, Hand, Expanding, IsLeast
<1>1. PICK g \in Target("fw") : Exact("fw", g, c)
  BY GoalCostIs DEF IsLeast
<1>2. ASSUME NEW s, NEW y, NEW z, Exact("fw", s, y), Exact("bw", s, z)
      PROVE  y \in Nat /\ z \in Nat /\ c <= y + z
  <2>1. PICK h \in Target("fw") : Within("fw", h, y + z)
    BY <1>0, <1>2, Joined
  <2>2. PICK b \in Nat : Exact("fw", h, b) /\ b <= y + z
    BY <1>0, <2>1, WithinIs
  <2>3. c <= b
    BY <2>2, GoalCostIs DEF IsLeast
  <2>4. y \in Nat /\ z \in Nat
    BY <1>0, <1>2, WalkTypes
  <2> QED  BY <1>0, <2>2, <2>3, <2>4
<1>3. Exact("fw", task.init, 0) /\ Exact("bw", task.init, c)
  <2>1. Exact("fw", task.init, 0)
    BY <1>0, WalkFrom
  <2>2. Within("bw", task.init, c)
    BY <1>0, <1>1, TurnedRound
  <2>3. PICK b \in Nat : Exact("bw", task.init, b) /\ b <= c
    BY <1>0, <2>2, WithinIs
  <2>4. c <= 0 + b
    BY <1>2, <2>1, <2>3
  <2>5. b = c
    BY <1>0, <2>3, <2>4
  <2> QED  BY <2>1, <2>3, <2>5
<1>4. ASSUME NEW i \in open["fw"], NEW j \in open["bw"], Cost("fw", i) + Cost("bw", j) <= c
      PROVE  GoesOn
  <2>1. Cost("fw", i) \in Nat /\ Cost("bw", j) \in Nat
    BY <1>0, NodeTypes
  <2>2. Cost("fw", i) + Cost("bw", j) < bound
    BY <1>0, <1>4, <2>1
  <2> QED  BY <2>2, GoesOnIf
<1>5. CASE task.init \notin AllClosed("fw")
  <2>1. PICK i \in open["fw"] : Cost("fw", i) <= 0
    BY <1>0, <1>3, <1>5, FrontierHolds
  <2>2. task.init \notin AllClosed("bw")
    BY <1>0, ClosedStates DEF ClosedOK
  <2>3. PICK j \in open["bw"] : Cost("bw", j) <= c
    BY <1>0, <1>3, <2>2, FrontierHolds
  <2>4. Cost("fw", i) \in Nat /\ Cost("bw", j) \in Nat
    BY <1>0, NodeTypes
  <2>5. Cost("fw", i) + Cost("bw", j) <= c
    BY <1>0, <2>1, <2>3, <2>4
  <2> QED  BY <1>4, <2>5
<1>6. CASE task.init \in AllClosed("fw")
  <2> DEFINE Z == {z \in Nat : \E s : \E y \in Nat :
                     Exact("fw", s, y) /\ Exact("bw", s, z) /\ y + z = c /\ s \in AllClosed("fw")}
  <2>1. c \in Z
    BY <1>0, <1>3, <1>6
  <2>2. PICK z \in Z : \A w \in Z : z <= w
    <3>1. Z \in SUBSET Nat /\ Z # {}
      BY <2>1
    <3> HIDE DEF Z
    <3> QED  BY <3>1, MinOfNat
  <2>3. PICK s, y : /\ y \in Nat /\ Exact("fw", s, y) /\ Exact("bw", s, z)
                    /\ y + z = c /\ s \in AllClosed("fw")
    BY <2>2
  <2>4. PICK i \in closed["fw"] : s \in Bdd("fw", i)
    BY <2>3, ClosedStates
  <2>5. Cost("fw", i) = y /\ s \notin Target("fw")
    BY <1>0, <2>3, <2>4, WalkTypes DEF ClosedOK
  <2>6. PICK n \in Trans : \E u, w : Arc("bw", n, u, s) /\ Exact("bw", u, w) /\ z = w + Weight(n)
    BY <1>0, <2>3, <2>5, WalkBack
  <2>7. PICK u, w : Arc("bw", n, u, s) /\ Exact("bw", u, w) /\ z = w + Weight(n)
    BY <2>6
  <2>8. /\ z \in Nat /\ w \in Nat /\ Weight(n) \in Nat \ {0} /\ w < z
        /\ y + Weight(n) + w = c /\ y + Weight(n) <= c /\ w <= c
    <3>1. z \in Nat /\ w \in Nat /\ Weight(n) \in Nat \ {0}
      BY <1>0, <2>2, <2>7, WalkTypes, TaskFacts
    <3> HIDE DEF Z
    <3> QED  BY <1>0, <2>3, <2>7, <3>1
  <2>9. Arc("fw", n, s, u)
    BY <1>0, <2>7, ArcTurns
  <2>10. PICK v \in Nat : Exact("fw", u, v) /\ v <= y + Weight(n)
    BY <1>0, <2>3, <2>9, WalkOn, WithinIs
  <2>11. v + w = c
    <3>1. c <= v + w
      BY <1>2, <2>7, <2>10
    <3> HIDE DEF Z
    <3> QED  BY <1>0, <2>3, <2>8, <2>10, <3>1
  <2>12. u \notin AllClosed("fw")
    <3>1. u \in AllClosed("fw") => w \in Z
      BY <2>7, <2>8, <2>10, <2>11
    <3> HIDE DEF Z
    <3> QED  BY <2>2, <2>8, <3>1
  <2> HIDE DEF Z
  <2>13. u \in Image("fw", task.trans[n], Bdd("fw", i))
    BY <1>0, <2>4, <2>9, ImageIs
  <2>14. PICK k \in open["fw"] : Cost("fw", k) <= y + Weight(n)
    <3>1. Followed("fw", i, n)
      BY DEF Frontier, Trans
    <3>2. ~(Cost("fw", i) + Weight(n) >= bound)
      BY <1>0, <2>3, <2>5, <2>8
    <3> QED  BY <1>0, <2>5, <2>12, <2>13, <3>1, <3>2 DEF Followed, Covered
  <2>15. u \notin AllClosed("bw")
    <3> SUFFICES ASSUME u \in AllClosed("bw") PROVE FALSE
      OBVIOUS
    <3>1. PICK j \in closed["bw"] : u \in Bdd("bw", j)
      BY ClosedStates
    <3>2. Cost("bw", j) = w
      BY <1>0, <2>7, <3>1, WalkTypes DEF ClosedOK
    <3>3. Bridged("fw", i, n)
      BY <1>0 DEF SeenOK, Trans
    <3>4. bound <= y + Weight(n) + w
      BY <1>0, <2>5, <2>13, <3>1, <3>2, <3>3 DEF Bridged
    <3> QED  BY <1>0, <2>8, <3>4
  <2>16. PICK j \in open["bw"] : Cost("bw", j) <= w
    <3>1. w < bound
      BY <1>0, <2>8
    <3> QED  BY <1>0, <2>7, <2>15, <3>1, FrontierHolds
  <2>17. Cost("fw", k) \in Nat /\ Cost("bw", j) \in Nat
    BY <1>0, NodeTypes
  <2>18. Cost("fw", k) + Cost("bw", j) <= c
    BY <1>0, <2>3, <2>8, <2>14, <2>16, <2>17
  <2> QED  BY <1>4, <2>18
<1> QED  BY <1>5, <1>6

(* Nor does it stop without a plan after a backward step ran out of time.    *)
LEMMA StopsRightLost ==
    ASSUME TypeOK, TaskOK, ClosedOK, Frontier("fw"), Lost,
           pc # "expand", bound = MaxCost, NEW c \in GoalCosts
    PROVE  GoesOn
<1>1. PICK g \in Target("fw") : Exact("fw", g, c)
  BY GoalCostIs
<1>2. PICK j \in open["bw"] : \A p \in task.shortest["fw"] : p[2] + Cost("bw", j) < MaxCost
  BY DEF Lost
<1>3. c + Cost("bw", j) < MaxCost /\ c \in Nat
  BY <1>1, <1>2, GoalCostIs DEF Exact
<1>4. c < bound
  BY <1>1, GoalCostFits DEF Dirs
<1>5. g \notin AllClosed("fw") /\ Hand("fw") = {}
  BY ClosedStates DEF ClosedOK, Dirs, Hand, Expanding
<1>6. PICK i \in open["fw"] : Cost("fw", i) <= c
  BY <1>1, <1>4, <1>5, FrontierHolds DEF Dirs
<1>7. Cost("fw", i) \in Nat /\ Cost("bw", j) \in Nat /\ MaxCost \in Nat
  BY NodeTypes, OtherTypes DEF Dirs
<1>8. Cost("fw", i) + Cost("bw", j) < bound
  BY <1>3, <1>6, <1>7
<1> QED  BY <1>8, GoesOnIf

---------------------------------------------------------------------------
(* Steps.                                                                    *)

(* What is said of the task stays.                                           *)
LEMMA SameTask ==
    ASSUME task' = task
    PROVE  /\ LastTrans' = LastTrans /\ Trans' = Trans /\ GoalCosts' = GoalCosts
           /\ \A n : Weight(n)' = Weight(n)
           /\ \A d : Source(d)' = Source(d) /\ Target(d)' = Target(d)
           /\ \A d, s, c : /\ Exact(d, s, c)' <=> Exact(d, s, c)
                           /\ Within(d, s, c)' <=> Within(d, s, c)
           /\ \A c : IsLeast(c)' <=> IsLeast(c)
<1>1. LastTrans' = LastTrans /\ GoalCosts' = GoalCosts
  BY DEF LastTrans, GoalCosts
<1>2. Trans' = Trans /\ \A c : IsLeast(c)' <=> IsLeast(c)
  BY <1>1 DEF Trans, IsLeast
<1>3. \A n : Weight(n)' = Weight(n)
  BY DEF Weight
<1>4. \A d : Source(d)' = Source(d) /\ Target(d)' = Target(d)
  BY DEF Source, Target
<1>5. \A d, s, c : /\ Exact(d, s, c)' <=> Exact(d, s, c)
                   /\ Within(d, s, c)' <=> Within(d, s, c)
  BY DEF Exact, Within
<1> QED  BY <1>1, <1>2, <1>3, <1>4, <1>5

(* A node never changes what it costs and where it comes from; it may lose   *)
(* states while it is open, and once it is not open any more it stays as it  *)
(* is.                                                                       *)
Grows(d) == \A i \in DOMAIN pool[d] :
    /\ i \in DOMAIN pool'[d]
    /\ Cost(d, i)' = Cost(d, i) /\ Bdd(d, i)' \subseteq Bdd(d, i)
    /\ pool'[d][i].parent = pool[d][i].parent /\ pool'[d][i].trans = pool[d][i].trans
    /\ pool'[d][i].parents = pool[d][i].parents
    /\ i \notin open[d] => i \notin open'[d] /\ Bdd(d, i)' = Bdd(d, i)

(* A node that was right stays right while the nodes grow.                   *)
LEMMA NodesKept ==
    ASSUME task' = task, NodesOK, NEW d \in Dirs, Grows(d), NEW i \in DOMAIN pool[d]
    PROVE  NodeOK(d, i)'
<1>1. NodeOK(d, i)
  BY DEF NodesOK
<1>2. /\ Cost(d, i)' = Cost(d, i) /\ Bdd(d, i)' \subseteq Bdd(d, i)
      /\ pool'[d][i].parent = pool[d][i].parent /\ pool'[d][i].trans = pool[d][i].trans
      /\ pool'[d][i].parents = pool[d][i].parents
  BY DEF Grows
<1>3. \A p \in Settled(d) : /\ p \in Settled(d)'
                            /\ Cost(d, p)' = Cost(d, p) /\ Bdd(d, p)' = Bdd(d, p)
                            /\ pool'[d][p].parents = pool[d][p].parents
  BY DEF Settled, Grows
<1>4. IsRoot(d, i) => IsRoot(d, i)'
  BY <1>2, SameTask DEF IsRoot
<1>5. IsChild(d, i) => IsChild(d, i)'
  BY <1>2, <1>3, SameTask DEF IsChild
<1>6. IsMerged(d, i) => IsMerged(d, i)'
  BY <1>2, <1>3 DEF IsMerged
<1>7. Cost(d, i)' <= MaxCost /\ \A s \in Bdd(d, i)' : Within(d, s, Cost(d, i))'
  BY <1>1, <1>2, SameTask DEF NodeOK
<1> QED  BY <1>1, <1>2, <1>4, <1>5, <1>6, <1>7 DEF NodeOK

(* What is merged stands for the nodes it was merged from.                   *)
LEMMA ResolveFacts ==
    ASSUME TypeOK, NodesOK, NEW d \in Dirs, NEW i \in DOMAIN pool[d], NEW s \in Bdd(d, i)
    PROVE  /\ Resolved(d, i, s) # {}
           /\ \A p \in Resolved(d, i, s) :
                 /\ p \in DOMAIN pool[d] /\ pool[d][p].parents = {}
                 /\ s \in Bdd(d, p) /\ Cost(d, p) = Cost(d, i)
<1> DEFINE with == {p \in pool[d][i].parents : s \in Bdd(d, p)}
<1>1. CASE pool[d][i].parents = {}
  BY <1>1 DEF Resolved
<1>2. CASE pool[d][i].parents # {}
  <2>1. IsMerged(d, i) /\ pool[d][i].parents \subseteq Nat
    BY <1>2, NodeTypes DEF NodesOK, NodeOK
  <2>2. with # {} /\ with \in SUBSET Nat
    BY <2>1 DEF IsMerged
  <2>3. Min(with) \in with
    <3> HIDE DEF with
    <3> QED  BY <2>2, MinOfNat
  <2>4. Resolved(d, i, s) = {Min(with)}
    BY <1>2, <2>2 DEF Resolved
  <2>5. \A p \in with : /\ p \in DOMAIN pool[d] /\ pool[d][p].parents = {}
                        /\ s \in Bdd(d, p) /\ Cost(d, p) = Cost(d, i)
    BY <2>1 DEF IsMerged, Settled
  <2> HIDE DEF with
  <2> QED  BY <2>3, <2>4, <2>5
<1> QED  BY <1>1, <1>2

(* What tracing to a state of a node changes.                                *)
LEMMA TraceFacts ==
    ASSUME TypeOK, NodesOK, NEW d \in Dirs, NEW i \in DOMAIN pool[d], NEW s \in Bdd(d, i),
           Trace(d, i, s)
    PROVE  /\ pc' = "trace" /\ dir' = d /\ at' = s /\ at' \in task.states
           /\ cur' \in DOMAIN pool[d] /\ pool[d][cur'].parents = {}
           /\ s \in Bdd(d, cur') /\ pool[d][cur'].cost = Cost(d, i)
<1>1. s \in task.states
  BY NodeTypes
<1> QED  BY <1>1, ResolveFacts DEF Trace, Cost

(* checkGoal2: what a meeting changes.                                       *)
Met(d, i, c, B) ==
    /\ bound' \in Nat /\ bound' <= bound
    /\ Both => \A j \in closed[Other(d)] :
                  B \cap Bdd(Other(d), j) # {} => bound' <= c + Cost(Other(d), j)
    /\ \/ UNCHANGED <<bound, goalId>>
       \/ /\ Both /\ bound' < bound
          /\ \E j \in closed[Other(d)] :
                /\ B \cap Bdd(Other(d), j) # {} /\ bound' = c + Cost(Other(d), j)
                /\ goalId' = [goalId EXCEPT ![d] = i, ![Other(d)] = j]

(* A meeting changes no more than that.                                      *)
LEMMA MeetFacts ==
    ASSUME TypeOK, NEW d \in Dirs, NEW i \in Nat, NEW c \in Nat, NEW B, Meet(d, i, c, B)
    PROVE  Met(d, i, c, B) /\ goalId' \in [Dirs -> Nat]
<1> DEFINE o == Other(d)
           P == Partners(d, c, B)
           S == {Cost(o, j) : j \in P}
           cheapest == Min(S)
           K == {k \in P : Cost(o, k) = cheapest}
<1>0. /\ o \in Dirs /\ bound \in Nat /\ goalId \in [Dirs -> Nat]
      /\ \A j \in closed[o] : Cost(o, j) \in Nat /\ j \in Nat
  BY ArcTurns, NodeTypes, OtherTypes DEF TypeOK
<1>1. \A j : j \in P <=> /\ j \in closed[o] /\ c + Cost(o, j) < bound
                         /\ B \cap Bdd(o, j) # {}
  BY DEF Partners
<1>2. CASE ~Both \/ P = {}
  <2>1. UNCHANGED <<bound, goalId>>
    BY <1>2 DEF Meet
  <2>2. ASSUME Both, NEW j \in closed[o], B \cap Bdd(o, j) # {}
        PROVE  bound <= c + Cost(o, j)
    <3>1. ~(c + Cost(o, j) < bound)
      BY <1>1, <1>2, <2>2
    <3> QED  BY <1>0, <3>1
  <2> QED  BY <1>0, <2>1, <2>2 DEF Met
<1>3. CASE Both /\ P # {}
  <2>1. bound' = c + cheapest /\ goalId' = [goalId EXCEPT ![d] = i, ![o] = Min(K)]
    BY <1>3 DEF Meet
  <2>2. S \in SUBSET Nat /\ S # {}
    BY <1>0, <1>1, <1>3
  <2>3. cheapest \in S /\ \A x \in S : cheapest <= x
    <3> HIDE DEF S
    <3> QED  BY <2>2, MinOfNat
  <2>4. K # {} /\ K \in SUBSET Nat
    BY <1>0, <1>1, <2>3
  <2>5. Min(K) \in K
    <3> HIDE DEF K
    <3> QED  BY <2>4, MinOfNat
  <2>6. PICK j \in P : j = Min(K) /\ Cost(o, j) = cheapest
    BY <2>5
  <2>7. /\ j \in closed[o] /\ cheapest \in Nat /\ j \in Nat
        /\ c + cheapest < bound /\ B \cap Bdd(o, j) # {}
    BY <1>0, <1>1, <2>6
  <2>8. ASSUME NEW k \in closed[o], B \cap Bdd(o, k) # {}
        PROVE  bound' <= c + Cost(o, k)
    <3>1. CASE k \in P
      <4>1. cheapest <= Cost(o, k)
        BY <2>3, <3>1
      <4> HIDE DEF cheapest
      <4> QED  BY <1>0, <2>1, <2>7, <4>1
    <3>2. CASE k \notin P
      <4>1. ~(c + Cost(o, k) < bound)
        BY <1>1, <2>8, <3>2
      <4> HIDE DEF cheapest
      <4> QED  BY <1>0, <2>1, <2>7, <4>1
    <3> QED  BY <3>1, <3>2
  <2>9. bound' \in Nat /\ bound' < bound /\ bound' <= bound
    <3> HIDE DEF cheapest
    <3> QED  BY <1>0, <2>1, <2>7
  <2>10. goalId' = [goalId EXCEPT ![d] = i, ![o] = j] /\ bound' = c + Cost(o, j)
    BY <2>1, <2>6
  <2> HIDE DEF P, cheapest
  <2> QED  BY <1>0, <1>3, <2>7, <2>8, <2>9, <2>10 DEF Met
<1> QED  BY <1>2, <1>3

---------------------------------------------------------------------------
(* New nodes.                                                                *)

(* A direction gets the nodes q with or without one more behind them.        *)
LEMMA PoolAppend ==
    ASSUME NEW R, NEW p \in [Dirs -> Seq(R)], NEW d \in Dirs, NEW q \in Seq(R), NEW r \in R,
           NEW x, x = [p EXCEPT ![d] = Append(q, r)]
    PROVE  /\ x \in [Dirs -> Seq(R)] /\ Len(q) + 1 \in Nat
           /\ DOMAIN x[d] = DOMAIN q \cup {Len(q) + 1} /\ Len(q) + 1 \notin DOMAIN q
           /\ \A i \in DOMAIN q : x[d][i] = q[i]
           /\ x[d][Len(q) + 1] = r /\ x[Other(d)] = p[Other(d)]
<1>1. x[d] = Append(q, r) /\ x \in [Dirs -> Seq(R)] /\ x[Other(d)] = p[Other(d)]
  BY ArcTurns
<1>2. /\ Len(Append(q, r)) = Len(q) + 1 /\ Len(q) \in Nat
      /\ DOMAIN Append(q, r) = 1..Len(q) + 1 /\ DOMAIN q = 1..Len(q)
      /\ \A i \in 1..Len(q) : Append(q, r)[i] = q[i]
      /\ Append(q, r)[Len(q) + 1] = r
  OBVIOUS
<1> QED  BY <1>1, <1>2

(* A direction gets the nodes q instead of its own.                          *)
LEMMA PoolReplace ==
    ASSUME NEW R, NEW p \in [Dirs -> Seq(R)], NEW d \in Dirs, NEW q \in Seq(R),
           NEW x, x = [p EXCEPT ![d] = q]
    PROVE  x \in [Dirs -> Seq(R)] /\ x[d] = q /\ x[Other(d)] = p[Other(d)]
  BY ArcTurns

(* The child of the node that is expanded.                                   *)
NewId == Len(pool[dir]) + 1

Added(B) ==
    /\ NewId \in Nat /\ NewId \notin DOMAIN pool[dir]
    /\ pool' \in [Dirs -> Seq(NodeRec)] /\ open' \in [Dirs -> SUBSET Nat]
    /\ DOMAIN pool'[dir] = DOMAIN pool[dir] \cup {NewId}
    /\ open'[dir] = open[dir] \cup {NewId}
    /\ \A i \in DOMAIN pool[dir] : pool'[dir][i] = pool[dir][i]
    /\ pool'[dir][NewId] = Child(ChildCost, cur, tri, B)
    /\ pool'[Other(dir)] = pool[Other(dir)] /\ open'[Other(dir)] = open[Other(dir)]

(* A child is a node and nothing else changes.                               *)
LEMMA AddFacts ==
    ASSUME TypeOK, TaskOK, cur \in DOMAIN pool[dir], tri \in Trans,
           NEW B \in SUBSET task.states, AddChild(B)
    PROVE  Added(B) /\ ChildCost \in Nat /\ ChildCost = Cost(dir, cur) + Weight(tri)
<1>1. ChildCost = Cost(dir, cur) + Weight(tri)
  BY DEF ChildCost, Weight
<1>2. ChildCost \in Nat /\ cur \in Nat /\ tri \in Nat /\ dir \in Dirs
  BY <1>1, OtherTypes, NodeTypes, TaskFacts
<1>3. Child(ChildCost, cur, tri, B) \in NodeRec
  BY <1>2 DEF Child, NodeRec
<1>4. pool \in [Dirs -> Seq(NodeRec)] /\ pool[dir] \in Seq(NodeRec)
  BY <1>2 DEF TypeOK, NodeRec
<1>5. pool' = [pool EXCEPT ![dir] = Append(pool[dir], Child(ChildCost, cur, tri, B))]
  BY DEF AddChild
<1>6. /\ pool' \in [Dirs -> Seq(NodeRec)] /\ NewId \in Nat
      /\ DOMAIN pool'[dir] = DOMAIN pool[dir] \cup {NewId} /\ NewId \notin DOMAIN pool[dir]
      /\ \A i \in DOMAIN pool[dir] : pool'[dir][i] = pool[dir][i]
      /\ pool'[dir][NewId] = Child(ChildCost, cur, tri, B)
      /\ pool'[Other(dir)] = pool[Other(dir)]
  <2> DEFINE r == Child(ChildCost, cur, tri, B)
             q == pool[dir]
  <2>1. /\ r \in NodeRec /\ pool' = [pool EXCEPT ![dir] = Append(q, r)]
        /\ q \in Seq(NodeRec) /\ NewId = Len(q) + 1
    BY <1>3, <1>4, <1>5 DEF NewId
  <2> HIDE DEF NodeRec, r, q
  <2>2. /\ pool' \in [Dirs -> Seq(NodeRec)] /\ NewId \in Nat
        /\ DOMAIN pool'[dir] = DOMAIN pool[dir] \cup {NewId} /\ NewId \notin DOMAIN pool[dir]
        /\ \A i \in DOMAIN pool[dir] : pool'[dir][i] = pool[dir][i]
        /\ pool'[dir][NewId] = r /\ pool'[Other(dir)] = pool[Other(dir)]
    <3>1. /\ pool' \in [Dirs -> Seq(NodeRec)] /\ Len(q) + 1 \in Nat
          /\ DOMAIN pool'[dir] = DOMAIN q \cup {Len(q) + 1} /\ Len(q) + 1 \notin DOMAIN q
          /\ \A i \in DOMAIN q : pool'[dir][i] = q[i]
          /\ pool'[dir][Len(q) + 1] = r /\ pool'[Other(dir)] = pool[Other(dir)]
      <4>1. dir \in Dirs /\ pool \in [Dirs -> Seq(NodeRec)]
        BY <1>2, <1>4
      <4>2. pool'[dir] = Append(q, r) /\ pool' \in [Dirs -> Seq(NodeRec)]
        BY <2>1, <4>1
      <4>3. pool'[Other(dir)] = pool[Other(dir)]
        BY <2>1, <4>1, ArcTurns
      <4>4. /\ Len(Append(q, r)) = Len(q) + 1 /\ Len(q) \in Nat
            /\ DOMAIN Append(q, r) = 1..Len(q) + 1 /\ DOMAIN q = 1..Len(q)
            /\ \A i \in 1..Len(q) : Append(q, r)[i] = q[i]
            /\ Append(q, r)[Len(q) + 1] = r
        BY <2>1
      <4> QED  BY <4>2, <4>3, <4>4
    <3> QED  BY <2>1, <3>1 DEF q
  <2> QED  BY <2>2 DEF r
<1>7. open' = [open EXCEPT ![dir] = open[dir] \cup {NewId}]
  BY DEF AddChild, NewId
<1>8. /\ open' \in [Dirs -> SUBSET Nat] /\ open'[dir] = open[dir] \cup {NewId}
      /\ open'[Other(dir)] = open[Other(dir)]
  BY <1>2, <1>6, <1>7, OtherTypes, ArcTurns
<1> QED  BY <1>1, <1>2, <1>6, <1>8 DEF Added

(* The next node is prepared: what is closed is taken out of the nodes on    *)
(* top, and those left of the lowest cost become one.                        *)
IsMergedTop(done, k) ==
    /\ k \notin DOMAIN pool[dir] /\ k \in open'[dir]
    /\ pool'[dir][k].parent = NoNode /\ pool'[dir][k].parents = Top(done)
    /\ \A j \in Top(done) : pool'[dir][k].cost = Cost(dir, j)
    /\ \A s : s \in pool'[dir][k].bdd <=> \E j \in Top(done) : s \in Bdd(dir, j) /\ s \notin done

Prepared(done) ==
    /\ pool' \in [Dirs -> Seq(NodeRec)] /\ open' \in [Dirs -> SUBSET Nat]
    /\ pool'[Other(dir)] = pool[Other(dir)] /\ open'[Other(dir)] = open[Other(dir)]
    /\ open'[dir] \subseteq DOMAIN pool'[dir]
    /\ \A i \in DOMAIN pool[dir] :
          /\ i \in DOMAIN pool'[dir]
          /\ pool'[dir][i].cost = Cost(dir, i)
          /\ pool'[dir][i].parent = pool[dir][i].parent
          /\ pool'[dir][i].trans = pool[dir][i].trans
          /\ pool'[dir][i].parents = pool[dir][i].parents
          /\ pool'[dir][i].bdd = IF i \in Out(done) THEN Bdd(dir, i) \ done ELSE Bdd(dir, i)
    /\ \/ /\ \E j, k \in Top(done) : j # k
          /\ \E k \in Nat : /\ DOMAIN pool'[dir] = DOMAIN pool[dir] \cup {k}
                            /\ open'[dir] = (open[dir] \ Out(done)) \cup {k}
                            /\ IsMergedTop(done, k)
       \/ /\ \A j, k \in Top(done) : j = k
          /\ DOMAIN pool'[dir] = DOMAIN pool[dir]
          /\ open'[dir] = (open[dir] \ Out(done)) \cup Top(done)

(* Preparing the next node changes no more than that.                        *)
LEMMA PrepareFacts ==
    ASSUME TypeOK, NEW done \in SUBSET task.states, PrepareNext(done)
    PROVE  Prepared(done)
<1>0. /\ dir \in Dirs /\ Other(dir) \in Dirs /\ Other(dir) # dir
      /\ pool \in [Dirs -> Seq(NodeRec)] /\ pool[dir] \in Seq(NodeRec)
      /\ open \in [Dirs -> SUBSET Nat]
  BY OtherTypes, ArcTurns DEF TypeOK, NodeRec
<1>1. Top(done) \subseteq open[dir] /\ Out(done) \subseteq open[dir]
  BY DEF Top, Out, Alive
<1>2. /\ open[dir] \subseteq DOMAIN pool[dir] /\ open[dir] \subseteq Nat
      /\ DOMAIN pool[dir] = 1..Len(pool[dir]) /\ Len(pool[dir]) \in Nat
      /\ \A j \in DOMAIN pool[dir] : Cost(dir, j) \in Nat /\ pool[dir][j] \in NodeRec
  BY <1>0, NodeTypes
<1>3. \A j, k \in Top(done) : Cost(dir, j) = Cost(dir, k)
  <2>1. \A j, k \in Top(done) : Cost(dir, j) <= Cost(dir, k)
    BY DEF Top, Out
  <2> QED  BY <1>1, <1>2, <2>1
<1>4. \A j \in DOMAIN pool[dir] : [pool[dir][j] EXCEPT !.bdd = pool[dir][j].bdd \ done] \in NodeRec
  <2>1. \A r \in NodeRec : [r EXCEPT !.bdd = r.bdd \ done] \in NodeRec
    BY DEF NodeRec
  <2> QED  BY <1>2, <2>1
<1>5. Stripped(done) \in Seq(NodeRec) /\ DOMAIN Stripped(done) = DOMAIN pool[dir]
      /\ Len(Stripped(done)) = Len(pool[dir])
  <2>1. Stripped(done) \in [DOMAIN pool[dir] -> NodeRec]
    BY <1>2, <1>4 DEF Stripped
  <2>2. \A f \in [1..Len(pool[dir]) -> NodeRec] :
           f \in Seq(NodeRec) /\ Len(f) = Len(pool[dir])
    <3> HIDE DEF NodeRec
    <3> QED  BY <1>2
  <2> QED  BY <1>2, <2>1, <2>2
<1>6. \A i \in DOMAIN pool[dir] :
          /\ Stripped(done)[i].cost = pool[dir][i].cost
          /\ Stripped(done)[i].parent = pool[dir][i].parent
          /\ Stripped(done)[i].trans = pool[dir][i].trans
          /\ Stripped(done)[i].parents = pool[dir][i].parents
          /\ Stripped(done)[i].bdd = IF i \in Out(done) THEN pool[dir][i].bdd \ done
                                                       ELSE pool[dir][i].bdd
  <2>1. \A r \in NodeRec : LET x == [r EXCEPT !.bdd = r.bdd \ done]
                           IN  /\ x.cost = r.cost /\ x.parent = r.parent /\ x.trans = r.trans
                               /\ x.parents = r.parents /\ x.bdd = r.bdd \ done
    BY DEF NodeRec
  <2>2. \A i \in DOMAIN pool[dir] : Stripped(done)[i] =
           IF i \in Out(done) THEN [pool[dir][i] EXCEPT !.bdd = pool[dir][i].bdd \ done]
                             ELSE pool[dir][i]
    BY DEF Stripped
  <2> SUFFICES ASSUME NEW i \in DOMAIN pool[dir]
               PROVE  /\ Stripped(done)[i].cost = pool[dir][i].cost
                      /\ Stripped(done)[i].parent = pool[dir][i].parent
                      /\ Stripped(done)[i].trans = pool[dir][i].trans
                      /\ Stripped(done)[i].parents = pool[dir][i].parents
                      /\ Stripped(done)[i].bdd = IF i \in Out(done) THEN pool[dir][i].bdd \ done
                                                                    ELSE pool[dir][i].bdd
    OBVIOUS
  <2>3. CASE i \in Out(done)
    <3>1. pool[dir][i] \in NodeRec
      BY <1>2
    <3>2. Stripped(done)[i] = [pool[dir][i] EXCEPT !.bdd = pool[dir][i].bdd \ done]
      BY <2>2, <2>3
    <3> HIDE DEF NodeRec
    <3> QED  BY <2>1, <2>3, <3>1, <3>2
  <2>4. CASE i \notin Out(done)
    BY <2>2, <2>4
  <2> QED  BY <2>3, <2>4
<1>7. CASE \E j, k \in Top(done) : j # k
  <2> DEFINE costs == {Cost(dir, j) : j \in Top(done)}
             least == Min(costs)
             m == MergedTop(done)
             U == UNION {Bdd(dir, j) : j \in Top(done)}
  <2>1. \A j \in Top(done) : least = Cost(dir, j) /\ least \in Nat
    <3>1. costs \in SUBSET Nat /\ costs # {}
      BY <1>1, <1>2, <1>7
    <3>2. Min(costs) \in costs
      <4> HIDE DEF costs
      <4> QED  BY <3>1, MinOfNat
    <3> QED  BY <1>3, <3>1, <3>2
  <2>2. Top(done) \in SUBSET Nat
    BY <1>1, <1>2
  <2>3. U \ done \in SUBSET task.states
    BY <1>0, <1>1, <1>2, NodeTypes
  <2>4. m = [cost |-> least, parent |-> NoNode, parents |-> Top(done), trans |-> 0,
             bdd |-> U \ done]
    <3>1. m = Merged(least, Top(done), U \ done)
      BY DEF MergedTop
    <3> HIDE DEF least, U, m
    <3> QED  BY <3>1 DEF Merged
  <2>5. least \in Nat
    BY <1>7, <2>1
  <2> HIDE DEF least, U
  <2>6. m \in NodeRec
    BY <2>2, <2>3, <2>4, <2>5 DEF NodeRec, NoNode
  <2>7. /\ m.cost = least /\ m.parent = NoNode /\ m.parents = Top(done)
        /\ m.bdd = U \ done
    BY <2>4
  <2> HIDE DEF m
  <2>8. /\ pool' = [pool EXCEPT ![dir] = Append(Stripped(done), m)]
        /\ open' = [open EXCEPT ![dir] = (open[dir] \ Out(done)) \cup {NewId}]
    BY <1>7 DEF PrepareNext, NewId, m
  <2>9. /\ pool' \in [Dirs -> Seq(NodeRec)] /\ NewId \in Nat
        /\ DOMAIN pool'[dir] = DOMAIN pool[dir] \cup {NewId} /\ NewId \notin DOMAIN pool[dir]
        /\ \A i \in DOMAIN pool[dir] : pool'[dir][i] = Stripped(done)[i]
        /\ pool'[dir][NewId] = m /\ pool'[Other(dir)] = pool[Other(dir)]
    BY <1>0, <1>5, <2>6, <2>8, PoolAppend DEF NewId
  <2>10. /\ open' \in [Dirs -> SUBSET Nat]
         /\ open'[dir] = (open[dir] \ Out(done)) \cup {NewId}
         /\ open'[Other(dir)] = open[Other(dir)]
    BY <1>0, <2>8, <2>9
  <2>11. IsMergedTop(done, NewId)
    <3>1. \A j \in Top(done) : pool'[dir][NewId].cost = pool[dir][j].cost
      BY <2>1, <2>7, <2>9 DEF Cost
    <3>2. \A s : s \in pool'[dir][NewId].bdd <=>
                    \E j \in Top(done) : s \in Bdd(dir, j) /\ s \notin done
      <4>1. pool'[dir][NewId].bdd = U \ done
        BY <2>7, <2>9
      <4>2. \A s : s \in U <=> \E j \in Top(done) : s \in Bdd(dir, j)
        BY DEF U
      <4> QED  BY <4>1, <4>2
    <3> QED  BY <2>7, <2>9, <2>10, <3>1, <3>2 DEF IsMergedTop, Cost, Bdd
  <2> QED  BY <1>2, <1>6, <1>7, <2>9, <2>10, <2>11 DEF Prepared, Cost, Bdd
<1>8. CASE ~\E j, k \in Top(done) : j # k
  <2>1. /\ pool' = [pool EXCEPT ![dir] = Stripped(done)]
        /\ open' = [open EXCEPT ![dir] = (open[dir] \ Out(done)) \cup Top(done)]
    BY <1>8 DEF PrepareNext
  <2>2. /\ pool' \in [Dirs -> Seq(NodeRec)] /\ pool'[dir] = Stripped(done)
        /\ pool'[Other(dir)] = pool[Other(dir)]
    BY <1>0, <1>5, <2>1, PoolReplace
  <2>3. /\ open' \in [Dirs -> SUBSET Nat]
        /\ open'[dir] = (open[dir] \ Out(done)) \cup Top(done)
        /\ open'[Other(dir)] = open[Other(dir)]
    BY <1>0, <1>1, <1>2, <2>1
  <2> QED  BY <1>1, <1>2, <1>5, <1>6, <1>8, <2>2, <2>3 DEF Prepared, Cost, Bdd
<1> QED  BY <1>7, <1>8

---------------------------------------------------------------------------
(* What a step keeps.                                                        *)

(* Nodes that are left alone.                                                *)
LEMMA StillNodes ==
    ASSUME UNCHANGED <<task, pool, open, closed>>
    PROVE  /\ \A d, i : Cost(d, i)' = Cost(d, i) /\ Bdd(d, i)' = Bdd(d, i)
           /\ \A d : AllClosed(d)' = AllClosed(d) /\ Settled(d)' = Settled(d)
           /\ \A d : Ready(d)' <=> Ready(d)
           /\ \A d \in Dirs : Grows(d)
<1>1. \A d, i : Cost(d, i)' = Cost(d, i) /\ Bdd(d, i)' = Bdd(d, i)
  BY DEF Cost, Bdd
<1>2. \A d : AllClosed(d)' = AllClosed(d)
  BY DEF AllClosed, Bdd
<1>3. \A d, i : IsTop(d, i)' <=> IsTop(d, i)
  BY DEF IsTop, Cost
<1>4. \A d : Ready(d)' <=> Ready(d)
  BY <1>1, <1>2, <1>3 DEF Ready
<1>5. \A d \in Dirs : Grows(d)
  BY <1>1 DEF Grows
<1>6. \A d : Settled(d)' = Settled(d)
  BY DEF Settled
<1> QED  BY <1>1, <1>2, <1>4, <1>5, <1>6

(* What was closed, in hand or open stays so, at no higher cost.             *)
Shifts(d) ==
    /\ AllClosed(d) \cup Hand(d) \subseteq (AllClosed(d) \cup Hand(d))'
    /\ \A j \in open[d] : \A s \in Bdd(d, j) :
          \/ s \in (AllClosed(d) \cup Hand(d))'
          \/ \E k \in open'[d] : /\ s \in Bdd(d, k)'
                                 /\ Cost(d, k)' \in Nat /\ Cost(d, k)' <= Cost(d, j)

(* A state that is covered stays so.                                         *)
LEMMA CoveredKept ==
    ASSUME TypeOK, NEW d \in Dirs, Shifts(d), NEW s, NEW c \in Nat, Covered(d, s, c)
    PROVE  Covered(d, s, c)'
<1>1. CASE s \in AllClosed(d) \cup Hand(d)
  BY <1>1 DEF Shifts, Covered
<1>2. CASE \E j \in open[d] : s \in Bdd(d, j) /\ Cost(d, j) <= c
  <2>1. PICK j \in open[d] : s \in Bdd(d, j) /\ Cost(d, j) <= c
    BY <1>2
  <2>2. Cost(d, j) \in Nat
    BY NodeTypes
  <2>3. \A k \in Nat : k <= Cost(d, j) => k <= c
    BY <2>1, <2>2
  <2>4. \/ s \in (AllClosed(d) \cup Hand(d))'
        \/ \E k \in open'[d] : /\ s \in Bdd(d, k)'
                               /\ Cost(d, k)' \in Nat /\ Cost(d, k)' <= Cost(d, j)
    BY <2>1 DEF Shifts
  <2> QED  BY <2>3, <2>4 DEF Covered
<1> QED  BY <1>1, <1>2 DEF Covered

(* What a node leads to stays covered.                                       *)
LEMMA FollowedKept ==
    ASSUME TypeOK, TaskOK, task' = task, NEW d \in Dirs, NEW n \in Trans,
           NEW i \in DOMAIN pool[d], Cost(d, i)' = Cost(d, i), Bdd(d, i)' = Bdd(d, i),
           bound' \in Nat, bound' <= bound, Shifts(d), Followed(d, i, n)
    PROVE  Followed(d, i, n)'
<1>1. /\ Cost(d, i) \in Nat /\ Weight(n) \in Nat /\ bound \in Nat
      /\ Weight(n)' = Weight(n) /\ Cost(d, i) + Weight(n) \in Nat
  BY NodeTypes, OtherTypes, TaskFacts, SameTask
<1>2. CASE Cost(d, i) + Weight(n) >= bound
  <2>1. Cost(d, i) + Weight(n) >= bound'
    BY <1>1, <1>2
  <2> QED  BY <1>1, <2>1 DEF Followed
<1>3. CASE \A s \in Image(d, task.trans[n], Bdd(d, i)) : Covered(d, s, Cost(d, i) + Weight(n))
  <2> DEFINE c == Cost(d, i) + Weight(n)
  <2>1. c \in Nat /\ \A s \in Image(d, task.trans[n], Bdd(d, i)) : Covered(d, s, c)
    BY <1>1, <1>3
  <2>2. (Cost(d, i) + Weight(n))' = c
    BY <1>1
  <2>3. \E b \in Nat : /\ b = c
                       /\ \A s \in Image(d, task.trans[n], Bdd(d, i)) : Covered(d, s, b)
    BY <2>1
  <2>4. PICK b \in Nat : /\ b = c
                         /\ \A s \in Image(d, task.trans[n], Bdd(d, i)) : Covered(d, s, b)
    BY <2>3
  <2>5. \A s \in Image(d, task.trans[n], Bdd(d, i)) : Covered(d, s, b)'
    BY <2>4, CoveredKept
  <2>6. Image(d, task.trans[n], Bdd(d, i))' = Image(d, task.trans[n], Bdd(d, i))
    BY DEF Image
  <2>7. (\A s \in Image(d, task.trans[n], Bdd(d, i)) : Covered(d, s, Cost(d, i) + Weight(n)))'
    BY <2>2, <2>4, <2>5, <2>6
  <2> QED  BY <2>7 DEF Followed
<1> QED  BY <1>2, <1>3 DEF Followed

(* The frontier stays where it is but for what was closed.                   *)
LEMMA FrontierKept ==
    ASSUME TypeOK, TaskOK, OpenOK, task' = task, NEW d \in Dirs, Grows(d), Shifts(d),
           bound' \in Nat, bound' <= bound, Frontier(d),
           \A i \in closed'[d] \ closed[d] : \A n \in Trans : Followed(d, i, n)'
    PROVE  Frontier(d)'
<1>1. \A s \in Source(d) : Covered(d, s, 0)'
  BY CoveredKept DEF Frontier
<1>2. ASSUME NEW i \in closed[d], NEW n \in Trans PROVE Followed(d, i, n)'
  <2>1. i \in DOMAIN pool[d] /\ i \notin open[d]
    BY NodeTypes DEF OpenOK
  <2>2. Cost(d, i)' = Cost(d, i) /\ Bdd(d, i)' = Bdd(d, i)
    BY <2>1 DEF Grows
  <2>3. Followed(d, i, n)
    BY DEF Frontier, Trans
  <2> QED  BY <2>1, <2>2, <2>3, FollowedKept
<1>3. Source(d)' = Source(d) /\ LastTrans' = LastTrans
  BY SameTask
<1>4. \A i \in closed'[d] : \A n \in 1..LastTrans : Followed(d, i, n)'
  BY <1>2 DEF Trans
<1> QED  BY <1>1, <1>3, <1>4 DEF Frontier

(* What a node and the closed nodes of the other direction have made of the  *)
(* bound.                                                                    *)
LEMMA SeenKept ==
    ASSUME TypeOK, TaskOK, OpenOK, task' = task, closed' = closed,
           NEW d \in Dirs, Grows(Other(d)),
           NEW i \in DOMAIN pool[d], Cost(d, i)' = Cost(d, i), Bdd(d, i)' = Bdd(d, i),
           bound' \in Nat, bound' <= bound
    PROVE  /\ Seen(d, i) => Seen(d, i)'
           /\ \A n \in Trans : Bridged(d, i, n) => Bridged(d, i, n)'
<1> DEFINE o == Other(d)
<1>0. o \in Dirs /\ bound \in Nat /\ Cost(d, i) \in Nat
  BY ArcTurns, OtherTypes, NodeTypes
<1>1. \A j \in closed[o] : /\ Cost(o, j)' = Cost(o, j) /\ Bdd(o, j)' = Bdd(o, j)
                           /\ Cost(o, j) \in Nat
  BY <1>0, NodeTypes DEF OpenOK, Grows
<1>2. ASSUME Seen(d, i), NEW j \in closed[o], Bdd(d, i) \cap Bdd(o, j) # {}
      PROVE  bound' <= Cost(d, i) + Cost(o, j)
  <2>1. bound <= Cost(d, i) + Cost(o, j)
    BY <1>2 DEF Seen
  <2> QED  BY <1>0, <1>1, <2>1
<1>3. ASSUME Seen(d, i) PROVE Seen(d, i)'
  BY <1>1, <1>2, <1>3 DEF Seen
<1>4. ASSUME NEW n \in Trans, Bridged(d, i, n) PROVE Bridged(d, i, n)'
  <2>1. Weight(n)' = Weight(n) /\ Weight(n) \in Nat
    BY SameTask, TaskFacts
  <2>2. Image(d, task.trans[n], Bdd(d, i))' = Image(d, task.trans[n], Bdd(d, i))
    BY DEF Image
  <2>3. ASSUME NEW j \in closed[o], Image(d, task.trans[n], Bdd(d, i)) \cap Bdd(o, j) # {}
        PROVE  bound' <= Cost(d, i) + Weight(n) + Cost(o, j)
    <3>1. bound <= Cost(d, i) + Weight(n) + Cost(o, j)
      BY <1>4, <2>3 DEF Bridged
    <3> QED  BY <1>0, <1>1, <2>1, <3>1
  <2> QED  BY <1>1, <2>1, <2>2, <2>3 DEF Bridged
<1> QED  BY <1>3, <1>4

---------------------------------------------------------------------------
(* What a plan costs.                                                        *)

(* A step that weighs k has k units.                                         *)
LEMMA Column ==
    ASSUME NEW i, NEW k \in Nat
    PROVE  IsFiniteSet({i} \X (1..k)) /\ Cardinality({i} \X (1..k)) = k
<1>1. IsFiniteSet({i}) /\ Cardinality({i}) = 1
  BY FS_Singleton
<1>2. IsFiniteSet(1..k) /\ Cardinality(1..k) = k
  <2>1. 1 \in Int /\ k \in Int
    OBVIOUS
  <2>2. IsFiniteSet(1..k) /\ Cardinality(1..k) = IF 1 > k THEN 0 ELSE k - 1 + 1
    BY <2>1, FS_Interval
  <2>3. (IF 1 > k THEN 0 ELSE k - 1 + 1) = k
    OBVIOUS
  <2> QED  BY <2>2, <2>3
<1>3. /\ IsFiniteSet({i} \X (1..k))
      /\ Cardinality({i} \X (1..k)) = Cardinality({i}) * Cardinality(1..k)
  BY <1>1, <1>2, FS_Product
<1>4. 1 * k = k
  OBVIOUS
<1> QED  BY <1>1, <1>2, <1>3, <1>4

(* Two sets without a common element count together.                         *)
LEMMA Together ==
    ASSUME NEW A, NEW B, IsFiniteSet(A), IsFiniteSet(B), A \cap B = {}
    PROVE  /\ IsFiniteSet(A \cup B) /\ Cardinality(A) \in Nat /\ Cardinality(B) \in Nat
           /\ Cardinality(A \cup B) = Cardinality(A) + Cardinality(B)
<1>1. /\ IsFiniteSet(A \cup B)
      /\ Cardinality(A \cup B) = Cardinality(A) + Cardinality(B) - Cardinality(A \cap B)
  BY FS_Union
<1>2. Cardinality(A \cap B) = 0
  BY FS_EmptySet
<1>3. Cardinality(A) \in Nat /\ Cardinality(B) \in Nat
  BY FS_CardinalityType
<1> QED  BY <1>1, <1>2, <1>3

(* The same units one step later.                                            *)
LEMMA Shifted ==
    ASSUME NEW U \in SUBSET (Nat \X Nat), IsFiniteSet(U), NEW V,
           \A v : v \in V <=> \E u \in U : v = <<u[1] + 1, u[2]>>
    PROVE  IsFiniteSet(V) /\ Cardinality(V) = Cardinality(U)
<1> DEFINE f == [u \in U |-> <<u[1] + 1, u[2]>>]
<1>1. f \in [U -> V]
  OBVIOUS
<1>2. \A a, b \in U : f[a] = f[b] => a = b
  <2>1. ASSUME NEW a \in U, NEW b \in U, f[a] = f[b] PROVE a = b
    <3>1. a = <<a[1], a[2]>> /\ b = <<b[1], b[2]>> /\ a[1] \in Nat /\ b[1] \in Nat
      OBVIOUS
    <3>2. a[1] + 1 = b[1] + 1 /\ a[2] = b[2]
      BY <2>1
    <3> QED  BY <3>1, <3>2
  <2> QED  BY <2>1
<1>3. \A v \in V : \E u \in U : f[u] = v
  OBVIOUS
<1> HIDE DEF f
<1>4. ExistsBijection(U, V)
  <2>1. f \in Bijection(U, V)
    BY <1>1, <1>2, <1>3 DEF Bijection, Injection, Surjection, IsInjective
  <2> QED  BY <2>1 DEF ExistsBijection
<1> QED  BY <1>4, FS_Bijection

(* The units of a plan, one by one.                                          *)
LEMMA UnitsAre ==
    ASSUME NEW w, NEW v
    PROVE  v \in Units(w) <=> \E i \in DOMAIN w : v \in {i} \X (1..Weight(w[i][2]))
  BY DEF Units, Weight

Step == task.states \X Nat \X task.states

(* Units are pairs of numbers.                                               *)
LEMMA UnitsPairs ==
    ASSUME NEW w \in Seq(Step)
    PROVE  Units(w) \subseteq Nat \X Nat
<1>1. DOMAIN w \subseteq Nat
  OBVIOUS
<1>2. ASSUME NEW v \in Units(w) PROVE v \in Nat \X Nat
  <2>1. PICK i \in DOMAIN w : v \in {i} \X (1..Weight(w[i][2]))
    BY UnitsAre
  <2>2. v \in {i} \X Nat
    <3> DEFINE k == Weight(w[i][2])
    <3>1. v \in {i} \X (1..k)
      BY <2>1
    <3>2. \A x \in 1..k : x \in Nat
      OBVIOUS
    <3> HIDE DEF k
    <3> QED  BY <3>1, <3>2
  <2> QED  BY <1>1, <2>2
<1> QED  BY <1>2

(* A step more at the end, or at the beginning.                              *)
LEMMA UnitsMore ==
    ASSUME TaskOK, NEW w \in Seq(Step), NEW e \in Step, e[2] \in Trans,
           IsFiniteSet(Units(w)), NEW x, x \in {Append(w, e), <<e>> \o w}
    PROVE  /\ IsFiniteSet(Units(x)) /\ Cardinality(Units(w)) \in Nat
           /\ Cardinality(Units(x)) = Cardinality(Units(w)) + Weight(e[2])
<1> DEFINE k == Weight(e[2])
<1>0. k \in Nat /\ Units(w) \subseteq Nat \X Nat
  BY TaskFacts, UnitsPairs
<1>1. CASE x = Append(w, e)
  <2> DEFINE m == Len(w) + 1
             C == {m} \X (1..k)
  <2>1. /\ DOMAIN x = DOMAIN w \cup {m} /\ m \notin DOMAIN w
        /\ \A i \in DOMAIN w : x[i] = w[i]
        /\ x[m] = e
    BY <1>1
  <2>2. \A v : v \in Units(x) <=> v \in Units(w) \/ v \in C
    <3> HIDE DEF m
    <3> QED  BY <2>1, UnitsAre
  <2>3. Units(w) \cap C = {}
    <3>1. ASSUME NEW v \in Units(w), v \in C PROVE FALSE
      <4>1. PICK i \in DOMAIN w : v \in {i} \X (1..Weight(w[i][2]))
        BY UnitsAre
      <4>2. v[1] = i /\ v[1] = m
        BY <3>1, <4>1
      <4> QED  BY <2>1, <4>2
    <3> QED  BY <3>1
  <2>4. IsFiniteSet(C) /\ Cardinality(C) = k
    BY <1>0, Column
  <2>5. Units(x) = Units(w) \cup C
    BY <2>2
  <2> HIDE DEF C, k
  <2>6. /\ IsFiniteSet(Units(w) \cup C) /\ Cardinality(Units(w)) \in Nat
        /\ Cardinality(Units(w) \cup C) = Cardinality(Units(w)) + Cardinality(C)
    BY <2>3, <2>4, Together
  <2> QED  BY <2>4, <2>5, <2>6 DEF k
<1>2. CASE x = <<e>> \o w
  <2> DEFINE C == {1} \X (1..k)
             V == {v \in Units(x) : v[1] # 1}
  <2>1. /\ DOMAIN x = 1..Len(w) + 1 /\ DOMAIN w = 1..Len(w) /\ Len(w) \in Nat
        /\ x[1] = e /\ \A i \in DOMAIN w : x[i + 1] = w[i]
    BY <1>2
  <2>2. \A v \in Units(x) : \E i \in DOMAIN x : v[1] = i
    <3>1. ASSUME NEW v \in Units(x) PROVE \E i \in DOMAIN x : v[1] = i
      <4>1. PICK i \in DOMAIN x : v \in {i} \X (1..Weight(x[i][2]))
        BY UnitsAre
      <4> QED  BY <4>1
    <3> QED  BY <3>1
  <2>3. \A v : v \in C <=> v \in Units(x) /\ v[1] = 1
    <3>1. 1 \in DOMAIN x /\ Weight(x[1][2]) = k
      BY <2>1
    <3>2. ASSUME NEW v \in C PROVE v \in Units(x) /\ v[1] = 1
      BY <3>1, UnitsAre
    <3>3. ASSUME NEW v \in Units(x), v[1] = 1 PROVE v \in C
      <4>1. PICK i \in DOMAIN x : v \in {i} \X (1..Weight(x[i][2]))
        BY UnitsAre
      <4>2. i = 1
        BY <3>3, <4>1
      <4> QED  BY <3>1, <4>1, <4>2
    <3> QED  BY <3>2, <3>3
  <2>4. \A v : v \in V <=> \E u \in Units(w) : v = <<u[1] + 1, u[2]>>
    <3>1. ASSUME NEW v \in V PROVE \E u \in Units(w) : v = <<u[1] + 1, u[2]>>
      <4>1. PICK i \in DOMAIN x : v \in {i} \X (1..Weight(x[i][2]))
        BY UnitsAre
      <4>2. v = <<i, v[2]>> /\ i # 1
        BY <4>1
      <4>3. i - 1 \in DOMAIN w /\ (i - 1) + 1 = i
        BY <2>1, <4>2
      <4>4. x[i] = w[i - 1]
        BY <2>1, <4>3
      <4>5. v[2] \in 1..Weight(w[i - 1][2])
        BY <4>1, <4>4
      <4>6. <<i - 1, v[2]>> \in Units(w)
        BY <4>3, <4>5, UnitsAre
      <4> QED  BY <4>2, <4>3, <4>6
    <3>2. ASSUME NEW u \in Units(w) PROVE <<u[1] + 1, u[2]>> \in V
      <4>1. PICK i \in DOMAIN w : u \in {i} \X (1..Weight(w[i][2]))
        BY UnitsAre
      <4>2. u[1] = i /\ u[2] \in 1..Weight(w[i][2])
        BY <4>1
      <4>3. i + 1 \in DOMAIN x /\ i + 1 # 1 /\ x[i + 1] = w[i]
        BY <2>1
      <4>4. <<i + 1, u[2]>> \in Units(x)
        BY <4>2, <4>3, UnitsAre
      <4> QED  BY <4>2, <4>3, <4>4
    <3> QED  BY <3>1, <3>2
  <2>5. IsFiniteSet(V) /\ Cardinality(V) = Cardinality(Units(w))
    <3> HIDE DEF V
    <3> QED  BY <1>0, <2>4, Shifted
  <2>6. IsFiniteSet(C) /\ Cardinality(C) = k
    BY <1>0, Column
  <2>7. C \cap V = {} /\ Units(x) = V \cup C
    <3> HIDE DEF C
    <3> QED  BY <2>3
  <2> HIDE DEF C, V, k
  <2>8. /\ IsFiniteSet(V \cup C) /\ Cardinality(V) \in Nat
        /\ Cardinality(V \cup C) = Cardinality(V) + Cardinality(C)
    BY <2>5, <2>6, <2>7, Together
  <2> QED  BY <2>5, <2>6, <2>7, <2>8 DEF k
<1> QED  BY <1>1, <1>2

---------------------------------------------------------------------------
(* The end of a search.                                                      *)

(* What is said of the nodes holds on when the nodes stay and the search is  *)
(* over.                                                                     *)
NodesSaid == NodesOK /\ OpenOK /\ HandOK /\ ClosedOK /\ FrontOK /\ SeenOK /\ MeetOK

(* Once the plan is traced the nodes stay as they are.                       *)
LEMMA EndKept ==
    ASSUME Inv, UNCHANGED <<task, mode, nodeVars, bound, goalId, cont>>,
           pc # "expand", pc' \notin {"drive", "expand"}
    PROVE  NodesSaid'
<1>1. /\ UNCHANGED <<task, pool, open, closed>> /\ task' = task /\ mode' = mode
      /\ bound' = bound /\ goalId' = goalId /\ cont' = cont
      /\ pool' = pool /\ open' = open /\ closed' = closed
  BY DEF nodeVars
<1>2. /\ \A d, i : Cost(d, i)' = Cost(d, i) /\ Bdd(d, i)' = Bdd(d, i)
      /\ \A d : AllClosed(d)' = AllClosed(d) /\ (Ready(d)' <=> Ready(d))
      /\ \A d \in Dirs : Grows(d)
  BY <1>1, StillNodes
<1>3. NodesOK'
  BY <1>1, <1>2, NodesKept DEF Inv, NodesOK
<1>4. OpenOK'
  <2>1. \A d \in Dirs : (cont[d] = "cont" /\ ~Expanding(d))' => cont[d] = "cont" /\ ~Expanding(d)
    BY <1>1 DEF Expanding
  <2>2. \A d : Searches(d)' <=> Searches(d)
    BY <1>1 DEF Searches
  <2> QED  BY <1>1, <1>2, <2>1, <2>2 DEF Inv, OpenOK
<1>5. HandOK' /\ FrontOK'
  BY DEF HandOK, FrontOK
<1>6. ClosedOK'
  BY <1>1, <1>2, SameTask DEF Inv, ClosedOK
<1>7. SeenOK'
  <2>1. \A d, i : Seen(d, i)' <=> Seen(d, i)
    BY <1>1, <1>2 DEF Seen
  <2>2. \A d, i, n : Bridged(d, i, n)' <=> Bridged(d, i, n)
    <3>1. \A d, i, n : Image(d, task.trans[n], Bdd(d, i))' = Image(d, task.trans[n], Bdd(d, i))
      BY <1>1, <1>2 DEF Image
    <3> QED  BY <1>1, <1>2, <3>1, SameTask DEF Bridged
  <2>3. LastTrans' = LastTrans
    BY <1>1, SameTask
  <2> QED  BY <1>1, <2>1, <2>2, <2>3 DEF Inv, SeenOK
<1>8. MeetOK'
  <2>1. \A d : Meets(d)' <=> Meets(d)
    BY <1>1, <1>2 DEF Meets
  <2>2. (NoneFound' <=> NoneFound) /\ (Halves' <=> Halves)
    BY <1>1 DEF NoneFound, Halves
  <2> QED  BY <1>1, <2>1, <2>2 DEF Inv, MeetOK
<1> QED  BY <1>3, <1>4, <1>5, <1>6, <1>7, <1>8 DEF NodesSaid

(* The types of all that a step of the end may change.                       *)
LEMMA EndTypes ==
    ASSUME TypeOK, UNCHANGED <<task, mode, nodeVars, bound, goalId, cont, tri>>,
           pc' \in {"trace", "found", "notexist", "panic"}, dir' \in Dirs, cur' \in Nat,
           {at', cut'} \subseteq task.states, plan' \in Seq(Step)
    PROVE  TypeOK'
<1>1. LastTrans' = LastTrans
  BY SameTask
<1> QED  BY <1>1 DEF TypeOK, nodeVars, Step

(* Without a plan none is lost.                                              *)
LEMMA NotExistKept ==
    ASSUME Inv, UNCHANGED <<task, mode, nodeVars, bound, goalId, cont, stepVars, planVars>>,
           pc = "drive", pc' = "notexist", GoalCosts = {}
    PROVE  Inv'
<1>1. NodesSaid'
  BY EndKept
<1>2. TypeOK'
  BY EndTypes DEF Inv, TypeOK, stepVars, planVars, Step
<1>3. TaskOK'
  BY DEF Inv, TaskOK
<1>4. PlanOK'
  <2>1. plan' = plan /\ plan = <<>> /\ Units(plan)' = Units(plan) /\ IsFiniteSet(Units(plan))
    BY DEF Inv, PlanOK, planVars, Units
  <2>2. Linked'
    BY <2>1 DEF Linked
  <2> QED  BY <2>1, <2>2 DEF PlanOK
<1>5. TraceOK'
  BY DEF TraceOK
<1>6. EndOK'
  BY SameTask DEF EndOK
<1> QED  BY <1>1, <1>2, <1>3, <1>4, <1>5, <1>6 DEF Inv, NodesSaid

(* A direction alone says so once all is closed that it can reach.           *)
LEMMA StepNotExistKept ==
    ASSUME Inv, NEW d \in Dirs, StepNotExist(d)
    PROVE  Inv'
<1>1. /\ pc = "drive" /\ mode = d /\ cont[d] = "notexist" /\ open[d] = {}
      /\ bound = MaxCost /\ Hand(d) = {} /\ Searches(d)
  BY DEF StepNotExist, Inv, OpenOK, MeetOK, Hand, Expanding, Searches, Dirs
<1>2. Frontier(d)
  BY <1>1 DEF Inv, FrontOK
<1>3. ASSUME NEW g \in Target(d), NEW c, Exact(d, g, c) PROVE FALSE
  <2>1. c < bound
    BY <1>1, <1>3, GoalCostFits DEF Inv
  <2>2. g \notin AllClosed(d)
    BY ClosedStates DEF Inv, ClosedOK
  <2> QED  BY <1>1, <1>2, <1>3, <2>1, <2>2, FrontierHolds DEF Inv
<1>4. GoalCosts = {}
  BY <1>3, NoneEither DEF Inv
<1> QED  BY <1>4, NotExistKept DEF StepNotExist

(* Two directions say so if they do not go on and never met.                 *)
LEMMA NoMeetingKept ==
    ASSUME Inv, NoMeeting
    PROVE  Inv'
<1>0. "fw" \in Dirs /\ "bw" \in Dirs /\ Other("fw") = "bw" /\ Other("bw") = "fw"
  BY DEF Dirs, Other
<1>1. /\ pc = "drive" /\ mode = "fwbw" /\ ~GoesOn /\ goalId["fw"] = 0
      /\ TypeOK /\ TaskOK /\ Halves
  BY DEF NoMeeting, Inv, MeetOK, Both, NoNode, Halves
<1>2. \A d \in Dirs : ~Meets(d)
  <2>1. \A d \in Dirs : 0 \notin DOMAIN pool[d] /\ 0 \notin closed[d]
    BY <1>1, NodeTypes
  <2> QED  BY <1>0, <1>1, <2>1 DEF Meets, Dirs
<1>3. bound = MaxCost
  <2>1. ~(bound < MaxCost)
    BY <1>1, <1>2 DEF Inv, MeetOK
  <2> QED  BY <1>1, <2>1, OtherTypes
<1>4. /\ Frontier("fw")
      /\ Frontier("bw") \/ Lost
  BY <1>0, <1>1 DEF Inv, FrontOK, Searches
<1>5. ASSUME NEW c \in GoalCosts PROVE FALSE
  <2>1. GoalCosts \in SUBSET Nat
    BY <1>1, GoalCostIs
  <2>2. PICK b \in GoalCosts : \A x \in GoalCosts : b <= x
    BY <1>5, <2>1, MinOfNat
  <2>3. PICK g \in Target("fw") : Exact("fw", g, b)
    BY <1>1, GoalCostIs
  <2>4. b < bound
    BY <1>0, <1>1, <1>3, <2>3, GoalCostFits
  <2>5. CASE Frontier("bw")
    BY <1>1, <1>4, <2>2, <2>4, <2>5, StopsRight DEF Inv, IsLeast
  <2>6. CASE Lost
    BY <1>1, <1>3, <1>4, <1>5, <2>6, StopsRightLost DEF Inv
  <2> QED  BY <1>4, <2>5, <2>6
<1> QED  BY <1>5, NotExistKept DEF NoMeeting

(* The two halves make a cheapest plan.                                      *)
LEMMA MeetingKept ==
    ASSUME Inv, Meeting
    PROVE  Inv'
<1> DEFINE g == goalId["fw"]
           h == goalId["bw"]
<1>0. "fw" \in Dirs /\ "bw" \in Dirs /\ Other("fw") = "bw" /\ Other("bw") = "fw"
  BY DEF Dirs, Other
<1>1. /\ pc = "drive" /\ mode = "fwbw" /\ ~GoesOn /\ g # 0
      /\ TypeOK /\ TaskOK /\ NodesOK /\ Halves /\ plan = <<>> /\ bound < MaxCost
  BY DEF Meeting, Inv, MeetOK, PlanOK, Both, NoNode, Halves
<1>2. PICK d \in Dirs : Meets(d)
  BY <1>1 DEF Inv, MeetOK
<1>3. /\ g \in DOMAIN pool["fw"] /\ h \in DOMAIN pool["bw"]
      /\ Bdd("fw", g) \cap Bdd("bw", h) # {}
      /\ Cost("fw", g) \in Nat /\ Cost("bw", h) \in Nat
      /\ Cost("fw", g) + Cost("bw", h) = bound
  <2>1. /\ closed["fw"] \subseteq DOMAIN pool["fw"] /\ closed["bw"] \subseteq DOMAIN pool["bw"]
        /\ \A i \in DOMAIN pool["fw"] : Cost("fw", i) \in Nat
        /\ \A i \in DOMAIN pool["bw"] : Cost("bw", i) \in Nat
    BY <1>0, <1>1, NodeTypes
  <2>2. CASE d = "fw"
    BY <1>0, <1>2, <2>1, <2>2 DEF Meets
  <2>3. CASE d = "bw"
    <3>1. /\ h \in DOMAIN pool["bw"] /\ g \in closed["fw"]
          /\ Bdd("bw", h) \cap Bdd("fw", g) # {}
          /\ Cost("bw", h) + Cost("fw", g) = bound
      BY <1>0, <1>2, <2>3 DEF Meets
    <3>2. Cost("fw", g) \in Nat /\ Cost("bw", h) \in Nat
      BY <2>1, <3>1
    <3> HIDE DEF g, h
    <3> QED  BY <2>1, <3>1, <3>2
  <2> QED  BY <2>2, <2>3 DEF Dirs
<1>4. PICK s \in Bdd("fw", g) \cap Bdd("bw", h) : cut' = s /\ Trace("fw", g, s)
  BY <1>3 DEF Meeting
<1>5. /\ pc' = "trace" /\ dir' = "fw" /\ at' = s /\ s \in task.states
      /\ cur' \in DOMAIN pool["fw"] /\ pool["fw"][cur'].parents = {}
      /\ s \in Bdd("fw", cur') /\ pool["fw"][cur'].cost = Cost("fw", g)
  BY <1>0, <1>1, <1>3, <1>4, TraceFacts
<1>6. UNCHANGED <<task, mode, nodeVars, bound, goalId, cont, tri>> /\ plan' = plan
  BY DEF Meeting
<1>7. task' = task /\ pool' = pool /\ goalId' = goalId /\ cont' = cont /\ mode' = mode
  BY <1>6 DEF nodeVars
<1>8. NodesSaid'
  BY <1>1, <1>5, <1>6, EndKept
<1>9. TypeOK'
  <2>1. cur' \in Nat
    BY <1>0, <1>1, <1>5, NodeTypes
  <2> QED  BY <1>0, <1>1, <1>4, <1>5, <1>6, <2>1, EndTypes DEF TypeOK, Step
<1>10. TaskOK'
  BY <1>1, <1>7 DEF TaskOK
<1>11. cont["bw"] # "abort" => IsLeast(bound)
  <2> SUFFICES ASSUME cont["bw"] # "abort" PROVE IsLeast(bound)
    OBVIOUS
  <2>1. Frontier("fw") /\ Frontier("bw")
    BY <1>0, <1>1 DEF Inv, FrontOK, Searches
  <2>2. Within("fw", s, Cost("fw", g)) /\ Within("bw", s, Cost("bw", h))
    BY <1>0, <1>1, <1>3, <1>4 DEF NodesOK, NodeOK
  <2>3. PICK a \in Nat : Exact("fw", s, a) /\ a <= Cost("fw", g)
    BY <1>0, <1>1, <2>2, WithinIs
  <2>4. PICK b \in Nat : Exact("bw", s, b) /\ b <= Cost("bw", h)
    BY <1>0, <1>1, <2>2, WithinIs
  <2>5. PICK x \in Target("fw") : Within("fw", x, a + b)
    BY <1>0, <1>1, <2>3, <2>4, Joined
  <2>6. PICK c \in Nat : Exact("fw", x, c) /\ c <= a + b
    BY <1>0, <1>1, <2>5, WithinIs
  <2>7. c \in GoalCosts
    BY <1>1, <2>6, GoalCostIs
  <2>8. GoalCosts \in SUBSET Nat
    BY <1>1, GoalCostIs
  <2>9. PICK z \in GoalCosts : \A y \in GoalCosts : z <= y
    BY <2>7, <2>8, MinOfNat
  <2>10. IsLeast(z)
    BY <2>9 DEF IsLeast
  <2>11. ~(z < bound)
    BY <1>1, <2>1, <2>10, StopsRight DEF Inv
  <2>12. z \in Nat /\ z <= c
    BY <2>7, <2>8, <2>9
  <2>13. z = bound
    <3>1. \A p, q \in Nat : p + q = bound /\ a <= p /\ b <= q => bound \in Nat /\ a + b <= bound
      OBVIOUS
    <3>2. bound \in Nat /\ a + b <= bound
      BY <1>3, <2>3, <2>4, <3>1
    <3> QED  BY <2>6, <2>11, <2>12, <3>2
  <2> QED  BY <2>10, <2>13
<1>12. Halves' <=> Halves
  BY <1>7 DEF Halves, NoneFound
<1>13. /\ Cost(dir, cur)' = Cost("fw", g)
       /\ Cost("bw", goalId["bw"])' = Cost("bw", h)
       /\ Bdd(dir, cur)' = Bdd("fw", cur') /\ Bdd("bw", goalId["bw"])' = Bdd("bw", h)
  BY <1>5, <1>7 DEF Cost, Bdd
<1>14. PlanOK'
  <2>1. plan' = <<>> /\ IsFiniteSet(Units(plan))'
    BY <1>1, <1>6, <1>7 DEF Inv, PlanOK, Units
  <2>2. Linked'
    BY <2>1 DEF Linked
  <2>3. PlanCost' = 0
    <3>1. Units(plan)' = {}
      BY <2>1 DEF Units
    <3> QED  BY <3>1, FS_EmptySet DEF PlanCost
  <2>4. Rest' = bound
    <3>1. Rest' = Cost("fw", g) + Cost("bw", h)
      BY <1>1, <1>5, <1>12, <1>13 DEF Rest
    <3> QED  BY <1>3, <3>1
  <2>5. (PlanCost + Rest)' = bound
    <3>1. \A n \in Nat : 0 + n = n
      OBVIOUS
    <3> QED  BY <1>1, <2>3, <2>4, <3>1, OtherTypes
  <2>6. cont'["bw"] # "abort" => IsLeast(PlanCost + Rest)'
    BY <1>7, <1>11, <2>5, SameTask
  <2> QED  BY <1>5, <2>1, <2>2, <2>6 DEF PlanOK
<1>15. TraceOK'
  <2>1. First' = at' /\ Last' = at'
    BY <1>1, <1>6 DEF First, Last
  <2> QED  BY <1>1, <1>3, <1>4, <1>5, <1>7, <1>12, <1>13, <2>1 DEF TraceOK
<1>16. EndOK'
  BY <1>5 DEF EndOK
<1> QED  BY <1>8, <1>9, <1>10, <1>14, <1>15, <1>16 DEF Inv, NodesSaid

(* One step more in front of the plan, or behind it.                         *)
LEMMA LinkedFront ==
    ASSUME TypeOK, task' = task, Linked, NEW e \in Step, e[2] \in Trans,
           <<e[1], e[3]>> \in task.trans[e[2]].edges,
           plan' = <<e>> \o plan, First = e[3], at' = e[1]
    PROVE  /\ Linked' /\ plan' \in Seq(Step) /\ First' = at'
           /\ at = e[3] => Last' = Last
<1>0. plan \in Seq(Step) /\ Len(plan) \in Nat /\ DOMAIN plan = 1..Len(plan) /\ LastTrans' = LastTrans
  BY SameTask DEF TypeOK, Step
<1>1. plan = <<>> <=> Len(plan) = 0
  BY <1>0
<1> DEFINE Good(i) == /\ plan'[i][2] \in Trans
                      /\ <<plan'[i][1], plan'[i][3]>> \in task.trans[plan'[i][2]].edges
                      /\ i > 1 => plan'[i][1] = plan'[i - 1][3]
           Was(i) == /\ plan[i][2] \in Trans
                     /\ <<plan[i][1], plan[i][3]>> \in task.trans[plan[i][2]].edges
                     /\ i > 1 => plan[i][1] = plan[i - 1][3]
<1>2. \A i \in DOMAIN plan : Was(i)
  BY DEF Linked, Trans
<1>3. (\A i \in DOMAIN plan' : Good(i)) => Linked'
  BY <1>0 DEF Linked, Trans
<1>4. /\ plan' \in Seq(Step) /\ DOMAIN plan' = 1..Len(plan) + 1 /\ Len(plan') = Len(plan) + 1
      /\ plan'[1] = e /\ plan' # <<>>
      /\ \A i \in 1..Len(plan) : plan'[i + 1] = plan[i]
  <2> HIDE DEF Step
  <2> QED  BY <1>0
<1>5. ASSUME NEW i \in 1..Len(plan) + 1 PROVE Good(i)
  <2>1. CASE i = 1
    BY <1>4, <2>1
  <2>2. CASE i # 1
    <3>1. i - 1 \in 1..Len(plan) /\ (i - 1) + 1 = i /\ i > 1
      BY <1>0, <2>2
    <3>2. plan'[i] = plan[i - 1]
      BY <1>4, <3>1
    <3>3. Was(i - 1)
      BY <1>0, <1>2, <3>1
    <3>4. plan'[i][1] = plan'[i - 1][3]
      <4>1. CASE i - 1 = 1
        <5>1. First = plan[1][1]
          BY <1>0, <1>1, <3>1 DEF First
        <5> QED  BY <1>4, <3>2, <4>1, <5>1
      <4>2. CASE i - 1 # 1
        <5>1. (i - 1) - 1 \in 1..Len(plan) /\ ((i - 1) - 1) + 1 = i - 1 /\ i - 1 > 1
          BY <3>1, <4>2
        <5>2. plan'[i - 1] = plan[(i - 1) - 1]
          BY <1>4, <5>1
        <5> QED  BY <3>2, <3>3, <5>1, <5>2
      <4> QED  BY <4>1, <4>2
    <3> QED  BY <3>2, <3>3, <3>4
  <2> QED  BY <2>1, <2>2
<1>6. Linked'
  BY <1>3, <1>4, <1>5
<1>7. First' = at'
  BY <1>4 DEF First
<1>8. ASSUME at = e[3] PROVE Last' = Last
  <2>1. Last' = plan'[Len(plan) + 1][3]
    BY <1>4 DEF Last
  <2>2. CASE plan = <<>>
    BY <1>1, <1>4, <1>8, <2>1, <2>2 DEF Last
  <2>3. CASE plan # <<>>
    <3>1. Len(plan) \in 1..Len(plan)
      BY <1>0, <1>1, <2>3
    <3> QED  BY <1>4, <2>1, <2>3, <3>1 DEF Last
  <2> QED  BY <2>2, <2>3
<1> QED  BY <1>4, <1>6, <1>7, <1>8

(* The same at the other end.                                                *)
LEMMA LinkedBehind ==
    ASSUME TypeOK, task' = task, Linked, NEW e \in Step, e[2] \in Trans,
           <<e[1], e[3]>> \in task.trans[e[2]].edges,
           plan' = Append(plan, e), Last = e[1], at' = e[3]
    PROVE  /\ Linked' /\ plan' \in Seq(Step) /\ Last' = at'
           /\ at = e[1] => First' = First
<1>0. plan \in Seq(Step) /\ Len(plan) \in Nat /\ DOMAIN plan = 1..Len(plan) /\ LastTrans' = LastTrans
  BY SameTask DEF TypeOK, Step
<1>1. plan = <<>> <=> Len(plan) = 0
  BY <1>0
<1> DEFINE Good(i) == /\ plan'[i][2] \in Trans
                      /\ <<plan'[i][1], plan'[i][3]>> \in task.trans[plan'[i][2]].edges
                      /\ i > 1 => plan'[i][1] = plan'[i - 1][3]
           Was(i) == /\ plan[i][2] \in Trans
                     /\ <<plan[i][1], plan[i][3]>> \in task.trans[plan[i][2]].edges
                     /\ i > 1 => plan[i][1] = plan[i - 1][3]
<1>2. \A i \in DOMAIN plan : Was(i)
  BY DEF Linked, Trans
<1>3. (\A i \in DOMAIN plan' : Good(i)) => Linked'
  BY <1>0 DEF Linked, Trans
<1>4. /\ plan' \in Seq(Step) /\ DOMAIN plan' = 1..Len(plan) + 1 /\ Len(plan') = Len(plan) + 1
      /\ plan'[Len(plan) + 1] = e /\ plan' # <<>>
      /\ \A i \in 1..Len(plan) : plan'[i] = plan[i]
  <2> HIDE DEF Step
  <2> QED  BY <1>0
<1>5. ASSUME NEW i \in 1..Len(plan) + 1 PROVE Good(i)
  <2>1. CASE i = Len(plan) + 1
    <3>1. plan'[i] = e
      BY <1>4, <2>1
    <3>2. ASSUME i > 1 PROVE plan'[i][1] = plan'[i - 1][3]
      <4>1. i - 1 = Len(plan) /\ Len(plan) \in 1..Len(plan)
        BY <1>0, <2>1, <3>2
      <4>2. Last = plan[Len(plan)][3]
        BY <1>1, <4>1 DEF Last
      <4> QED  BY <1>4, <3>1, <4>1, <4>2
    <3> QED  BY <3>1, <3>2
  <2>2. CASE i # Len(plan) + 1
    <3>1. i \in 1..Len(plan) /\ (i > 1 => i - 1 \in 1..Len(plan))
      BY <1>0, <2>2
    <3>2. Was(i) /\ plan'[i] = plan[i] /\ (i > 1 => plan'[i - 1] = plan[i - 1])
      BY <1>0, <1>2, <1>4, <3>1
    <3> QED  BY <3>2
  <2> QED  BY <2>1, <2>2
<1>6. Linked'
  BY <1>3, <1>4, <1>5
<1>7. Last' = at'
  BY <1>4 DEF Last
<1>8. ASSUME at = e[1] PROVE First' = First
  <2>1. First' = plan'[1][1]
    BY <1>4 DEF First
  <2>2. CASE plan = <<>>
    BY <1>1, <1>4, <1>8, <2>1, <2>2 DEF First
  <2>3. CASE plan # <<>>
    <3>1. 1 \in 1..Len(plan)
      BY <1>0, <1>1, <2>3
    <3> QED  BY <1>4, <2>1, <2>3, <3>1 DEF First
  <2> QED  BY <2>2, <2>3
<1> QED  BY <1>4, <1>6, <1>7, <1>8

(* The trace goes on to a node that was expanded, along an edge that leads   *)
(* to where the plan is.                                                     *)
LEMMA TraceStepFacts ==
    ASSUME Inv, TraceStep
    PROVE  /\ Node.parent \in DOMAIN pool[dir] /\ Node.trans \in Trans
           /\ Cost(dir, cur) = Cost(dir, Node.parent) + Weight(Node.trans)
           /\ Cost(dir, Node.parent) \in Nat /\ at \in task.states
           /\ \E s \in Bdd(dir, Node.parent) :
                 /\ s \in task.states /\ Arc(dir, Node.trans, s, at)
                 /\ Trace(dir, Node.parent, s)
                 /\ plan' = IF dir = "fw" THEN <<<<s, Node.trans, at>>>> \o plan
                                          ELSE Append(plan, <<at, Node.trans, s>>)
<1> DEFINE p == Node.parent
           n == Node.trans
           before == BackImage(dir, task.trans[n], {at}) \cap Bdd(dir, p)
<1>0. /\ TypeOK /\ TaskOK /\ dir \in Dirs /\ pc = "trace" /\ p # NoNode
      /\ cur \in DOMAIN pool[dir] /\ pool[dir][cur].parents = {} /\ at \in Bdd(dir, cur)
      /\ at \in task.states
  BY OtherTypes DEF Inv, TraceStep, TraceOK, TypeOK
<1>1. NodeOK(dir, cur) /\ Node = pool[dir][cur]
  BY <1>0 DEF Inv, NodesOK, Node
<1>2. IsChild(dir, cur)
  BY <1>0, <1>1 DEF NodeOK
<1>3. /\ p \in DOMAIN pool[dir] /\ n \in Trans
      /\ Cost(dir, cur) = Cost(dir, p) + Weight(n)
      /\ Bdd(dir, cur) \subseteq Image(dir, task.trans[n], Bdd(dir, p))
  BY <1>1, <1>2 DEF IsChild, Settled, Trans
<1>4. \E x \in Bdd(dir, p) : Arc(dir, n, x, at)
  BY <1>0, <1>3, ImageIs
<1>5. \A x : x \in BackImage(dir, task.trans[n], {at}) <=> Arc(dir, n, x, at)
  <2>1. Other(dir) \in Dirs
    BY <1>0, ArcTurns
  <2>2. \A x : x \in Image(Other(dir), task.trans[n], {at}) <=>
                  \E y \in {at} : Arc(Other(dir), n, y, x)
    BY <1>0, <1>3, <2>1, ImageIs
  <2>3. \A x : Arc(Other(dir), n, at, x) <=> Arc(dir, n, x, at)
    BY <1>0, ArcTurns
  <2>4. BackImage(dir, task.trans[n], {at}) = Image(Other(dir), task.trans[n], {at})
    BY DEF BackImage
  <2> HIDE DEF n
  <2> QED  BY <2>2, <2>3, <2>4
<1>6. before # {}
  BY <1>4, <1>5
<1>7. PICK s \in before :
          /\ Trace(dir, p, s)
          /\ plan' = IF dir = "fw" THEN <<<<s, n, at>>>> \o plan ELSE Append(plan, <<at, n, s>>)
  BY <1>6 DEF TraceStep
<1>8. s \in Bdd(dir, p) /\ Arc(dir, n, s, at) /\ s \in task.states /\ Cost(dir, p) \in Nat
  BY <1>0, <1>3, <1>5, <1>7, NodeTypes
<1> QED  BY <1>0, <1>3, <1>7, <1>8

(* What has been traced and what is left cost as much as before.             *)
LEMMA TraceStepKept ==
    ASSUME Inv, TraceStep
    PROVE  Inv'
<1> DEFINE p == Node.parent
           n == Node.trans
<1>0. /\ TypeOK /\ TaskOK /\ NodesOK /\ PlanOK /\ TraceOK /\ dir \in Dirs /\ pc = "trace"
      /\ UNCHANGED <<task, mode, nodeVars, bound, goalId, cont, tri, cut>>
  BY OtherTypes DEF Inv, TraceStep
<1>1. /\ p \in DOMAIN pool[dir] /\ n \in Trans
      /\ Cost(dir, cur) = Cost(dir, p) + Weight(n)
      /\ Cost(dir, p) \in Nat /\ at \in task.states /\ Weight(n) \in Nat
  BY <1>0, TraceStepFacts, TaskFacts
<1>2. PICK s \in Bdd(dir, p) :
          /\ s \in task.states /\ Arc(dir, n, s, at)
          /\ Trace(dir, p, s)
          /\ plan' = IF dir = "fw" THEN <<<<s, n, at>>>> \o plan ELSE Append(plan, <<at, n, s>>)
  BY TraceStepFacts
<1>3. /\ pc' = "trace" /\ dir' = dir /\ at' = s
      /\ cur' \in DOMAIN pool[dir] /\ pool[dir][cur'].parents = {}
      /\ s \in Bdd(dir, cur') /\ pool[dir][cur'].cost = Cost(dir, p)
  BY <1>0, <1>1, <1>2, TraceFacts
<1>4. task' = task /\ pool' = pool /\ goalId' = goalId /\ cont' = cont /\ mode' = mode /\ cut' = cut
  BY <1>0 DEF nodeVars
<1>5. NodesSaid'
  BY <1>0, <1>3, EndKept
<1>6. /\ Halves' <=> Halves
      /\ Cost(dir, cur)' = Cost(dir, p) /\ Bdd(dir, cur)' = Bdd(dir, cur')
      /\ Cost("bw", goalId["bw"])' = Cost("bw", goalId["bw"])
      /\ Bdd("bw", goalId["bw"])' = Bdd("bw", goalId["bw"])
  BY <1>3, <1>4 DEF Halves, NoneFound, Cost, Bdd
<1> DEFINE e == IF dir = "fw" THEN <<s, n, at>> ELSE <<at, n, s>>
<1>7. e \in Step /\ e[2] = n /\ <<e[1], e[3]>> \in task.trans[e[2]].edges
  <2>1. n \in Nat
    BY <1>0, <1>1, TaskFacts DEF Trans
  <2>2. CASE dir = "fw"
    BY <1>1, <1>2, <2>1, <2>2 DEF Step, Arc
  <2>3. CASE dir # "fw"
    BY <1>1, <1>2, <2>1, <2>3 DEF Step, Arc
  <2> QED  BY <2>2, <2>3
<1>8. /\ Linked' /\ plan' \in Seq(Step)
      /\ dir = "fw" => First' = at' /\ Last' = Last
      /\ dir = "bw" => Last' = at' /\ First' = First
  <2>1. CASE dir = "fw"
    <3>1. plan' = <<e>> \o plan /\ First = e[3] /\ at' = e[1] /\ at = e[3]
      BY <1>0, <1>2, <1>3, <2>1 DEF TraceOK
    <3> HIDE DEF e
    <3> QED  BY <1>0, <1>1, <1>4, <1>7, <2>1, <3>1, LinkedFront DEF PlanOK
  <2>2. CASE dir = "bw"
    <3>1. plan' = Append(plan, e) /\ Last = e[1] /\ at' = e[3] /\ at = e[1]
      BY <1>0, <1>2, <1>3, <2>2 DEF TraceOK
    <3> HIDE DEF e
    <3> QED  BY <1>0, <1>1, <1>4, <1>7, <2>2, <3>1, LinkedBehind DEF PlanOK
  <2> QED  BY <1>0, <2>1, <2>2 DEF Dirs
<1>9. TypeOK'
  <2>1. cur' \in Nat
    BY <1>0, <1>3, NodeTypes
  <2>2. cut \in task.states
    BY <1>0 DEF TypeOK
  <2> QED  BY <1>0, <1>2, <1>3, <1>4, <1>8, <2>1, <2>2, EndTypes
<1>10. TaskOK'
  BY <1>0, <1>4 DEF TaskOK
<1>11. IsFiniteSet(Units(plan)) /\ plan \in Seq(Step)
  BY <1>0 DEF PlanOK, TypeOK, Step
<1>12. /\ IsFiniteSet(Units(plan')) /\ Cardinality(Units(plan)) \in Nat
       /\ Cardinality(Units(plan')) = Cardinality(Units(plan)) + Weight(n)
  <2>1. plan' \in {Append(plan, e), <<e>> \o plan}
    BY <1>2
  <2> HIDE DEF e
  <2> QED  BY <1>0, <1>1, <1>7, <1>11, <2>1, UnitsMore
<1>13. Units(plan)' = Units(plan')
  BY <1>4 DEF Units
<1>14. (PlanCost + Rest)' = PlanCost + Rest
  <2> DEFINE r == IF Halves /\ dir = "fw" THEN Cost("bw", goalId["bw"]) ELSE 0
  <2>1. Rest = Cost(dir, cur) + r /\ Rest' = Cost(dir, p) + r
    BY <1>0, <1>3, <1>6 DEF Rest
  <2>2. PlanCost' = PlanCost + Weight(n) /\ PlanCost \in Nat
    BY <1>12, <1>13 DEF PlanCost
  <2>3. r \in Nat
    <3>1. Halves => Cost("bw", goalId["bw"]) \in Nat
      BY <1>0, NodeTypes DEF TraceOK, Dirs
    <3> QED  BY <3>1
  <2> HIDE DEF r
  <2>4. \A a, b, c, x \in Nat : (a + b) + (c + x) = a + ((c + b) + x)
    OBVIOUS
  <2>5. (PlanCost + Rest)' = (PlanCost + Weight(n)) + (Cost(dir, p) + r)
    BY <2>1, <2>2
  <2>6. PlanCost + Rest = PlanCost + ((Cost(dir, p) + Weight(n)) + r)
    BY <1>1, <2>1
  <2> QED  BY <1>1, <2>2, <2>3, <2>4, <2>5, <2>6
<1>15. PlanOK'
  <2>1. cont'["bw"] # "abort" => IsLeast(PlanCost + Rest)'
    <3>1. cont["bw"] # "abort" => IsLeast(PlanCost + Rest)
      BY <1>0 DEF PlanOK
    <3> QED  BY <1>4, <1>14, <3>1, SameTask
  <2> QED  BY <1>3, <1>8, <1>12, <1>13, <2>1 DEF PlanOK
<1>16. TraceOK'
  <2>1. /\ dir = "fw" => Last \in (IF Halves THEN {cut} ELSE task.goal)
        /\ dir = "bw" => First = task.init
        /\ Halves => goalId["bw"] \in DOMAIN pool["bw"] /\ cut \in Bdd("bw", goalId["bw"])
        /\ ~Halves => (dir = "fw" => mode = "fw" \/ cont["fw"] = "found")
    BY <1>0 DEF TraceOK
  <2>2. /\ (cur \in DOMAIN pool[dir])' /\ (pool[dir][cur].parents = {})' /\ (at \in Bdd(dir, cur))'
    BY <1>3, <1>4, <1>6
  <2> QED  BY <1>3, <1>4, <1>6, <1>8, <2>1, <2>2 DEF TraceOK
<1>17. EndOK'
  BY <1>3 DEF EndOK
<1> QED  BY <1>5, <1>9, <1>10, <1>15, <1>16, <1>17 DEF Inv, NodesSaid

(* Where a trace ends, the plan begins or ends.                              *)
LEMMA RootFacts ==
    ASSUME Inv, pc = "trace", Node.parent = NoNode
    PROVE  cur \in DOMAIN pool[dir] /\ dir \in Dirs /\ Cost(dir, cur) = 0 /\ at \in Source(dir)
<1>1. /\ cur \in DOMAIN pool[dir] /\ pool[dir][cur].parents = {} /\ at \in Bdd(dir, cur)
      /\ dir \in Dirs
  BY OtherTypes DEF Inv, TraceOK
<1>2. NodeOK(dir, cur) /\ Node = pool[dir][cur]
  BY <1>1 DEF Inv, NodesOK, Node
<1>3. IsRoot(dir, cur)
  BY <1>1, <1>2 DEF NodeOK
<1> QED  BY <1>1, <1>3 DEF IsRoot

(* The forward half is traced, the backward one follows.                     *)
LEMMA TraceOtherKept ==
    ASSUME Inv, TraceOther
    PROVE  Inv'
<1> DEFINE h == goalId["bw"]
<1>0. /\ TypeOK /\ TaskOK /\ NodesOK /\ PlanOK /\ TraceOK /\ dir = "fw" /\ pc = "trace"
      /\ UNCHANGED <<task, mode, nodeVars, bound, goalId, cont, tri, cut, plan>>
      /\ Cost(dir, cur) = 0 /\ at = task.init /\ "bw" \in Dirs
  BY RootFacts DEF Inv, TraceOther, Source, Sources, Dirs
<1>1. Halves
  BY <1>0 DEF TraceOther, TraceOK, Both
<1>2. /\ h \in DOMAIN pool["bw"] /\ cut \in Bdd("bw", h) /\ First = at /\ Last = cut
      /\ Trace("bw", h, cut)
  BY <1>0, <1>1 DEF TraceOK, TraceOther
<1>3. /\ pc' = "trace" /\ dir' = "bw" /\ at' = cut /\ cut \in task.states
      /\ cur' \in DOMAIN pool["bw"] /\ pool["bw"][cur'].parents = {}
      /\ cut \in Bdd("bw", cur') /\ pool["bw"][cur'].cost = Cost("bw", h)
  BY <1>0, <1>2, TraceFacts
<1>4. /\ task' = task /\ pool' = pool /\ goalId' = goalId /\ cont' = cont /\ mode' = mode
      /\ cut' = cut /\ plan' = plan
  BY <1>0 DEF nodeVars
<1>5. NodesSaid'
  BY <1>0, <1>3, EndKept
<1>6. /\ Halves' <=> Halves
      /\ Cost(dir, cur)' = Cost("bw", h) /\ Bdd(dir, cur)' = Bdd("bw", cur')
      /\ Bdd("bw", goalId["bw"])' = Bdd("bw", h)
  BY <1>3, <1>4 DEF Halves, NoneFound, Cost, Bdd
<1>7. TypeOK'
  <2>1. cur' \in Nat
    BY <1>0, <1>3, NodeTypes
  <2> QED  BY <1>0, <1>3, <1>4, <2>1, EndTypes DEF TypeOK, Step
<1>8. TaskOK'
  BY <1>0, <1>4 DEF TaskOK
<1>9. First' = task.init /\ Last' = cut
  BY <1>0, <1>2, <1>3, <1>4 DEF First, Last
<1>10. (PlanCost + Rest)' = PlanCost + Rest
  <2>1. Units(plan)' = Units(plan)
    BY <1>4 DEF Units
  <2>2. Cost("bw", h) \in Nat
    BY <1>0, <1>2, NodeTypes
  <2>3. Rest = 0 + Cost("bw", h)
    BY <1>0, <1>1 DEF Rest
  <2>4. Rest' = Cost("bw", h) + 0
    BY <1>3, <1>6 DEF Rest
  <2>5. \A n \in Nat : n + 0 = 0 + n
    OBVIOUS
  <2>6. Rest' = Rest
    BY <2>2, <2>3, <2>4, <2>5
  <2> QED  BY <2>1, <2>6 DEF PlanCost
<1>11. PlanOK'
  <2>1. cont'["bw"] # "abort" => IsLeast(PlanCost + Rest)'
    <3>1. cont["bw"] # "abort" => IsLeast(PlanCost + Rest)
      BY <1>0 DEF PlanOK
    <3> QED  BY <1>4, <1>10, <3>1, SameTask
  <2>2. Linked' /\ IsFiniteSet(Units(plan))'
    <3>1. LastTrans' = LastTrans /\ Units(plan)' = Units(plan)
      BY <1>4, SameTask DEF Units
    <3> QED  BY <1>0, <1>4, <3>1 DEF Linked, PlanOK
  <2> QED  BY <1>3, <2>1, <2>2 DEF PlanOK
<1>12. TraceOK'
  BY <1>0, <1>1, <1>2, <1>3, <1>4, <1>6, <1>9 DEF TraceOK
<1>13. EndOK'
  BY <1>3 DEF EndOK
<1> QED  BY <1>5, <1>7, <1>8, <1>11, <1>12, <1>13 DEF Inv, NodesSaid

(* All of the plan is traced.                                                *)
LEMMA TraceEndKept ==
    ASSUME Inv, TraceEnd
    PROVE  Inv'
<1>0. /\ TypeOK /\ TaskOK /\ PlanOK /\ TraceOK /\ dir \in Dirs /\ pc = "trace" /\ pc' = "found"
      /\ UNCHANGED <<task, mode, nodeVars, bound, goalId, cont, stepVars, planVars>>
      /\ Cost(dir, cur) = 0 /\ at \in Source(dir)
  BY RootFacts DEF Inv, TraceEnd
<1>1. /\ task' = task /\ cont' = cont /\ plan' = plan /\ at' = at
      /\ UNCHANGED <<dir, cur, tri, at, cut, plan>>
  BY <1>0 DEF stepVars, planVars
<1>2. NodesSaid'
  BY <1>0, EndKept
<1>3. TypeOK'
  BY <1>0, <1>1, EndTypes DEF TypeOK, Step
<1>4. TaskOK'
  BY <1>0 DEF TaskOK
<1>5. ~(Halves /\ dir = "fw")
  BY DEF TraceEnd, Halves, NoneFound, Dirs, Both
<1>6. First = task.init /\ Last \in task.goal
  <2>1. CASE dir = "fw"
    BY <1>0, <1>5, <2>1 DEF TraceOK, Source, Sources
  <2>2. CASE dir = "bw"
    BY <1>0, <2>2 DEF TraceOK, Source, Sources
  <2> QED  BY <1>0, <2>1, <2>2 DEF Dirs
<1>7. First' = First /\ Last' = Last /\ Units(plan)' = Units(plan) /\ LastTrans' = LastTrans
  BY <1>1, SameTask DEF First, Last, Units
<1>8. Rest = 0 /\ Rest' = 0
  <2>1. Rest = 0 + 0
    BY <1>0, <1>5 DEF Rest
  <2>2. Rest' = 0
    BY <1>0 DEF Rest
  <2> QED  BY <2>1, <2>2
<1>9. PlanOK'
  <2>1. (PlanCost + Rest)' = PlanCost + Rest
    BY <1>7, <1>8 DEF PlanCost
  <2>2. cont'["bw"] # "abort" => IsLeast(PlanCost + Rest)'
    <3>1. cont["bw"] # "abort" => IsLeast(PlanCost + Rest)
      BY <1>0 DEF PlanOK
    <3> QED  BY <1>1, <2>1, <3>1, SameTask
  <2>3. Linked' /\ IsFiniteSet(Units(plan))'
    BY <1>0, <1>1, <1>7 DEF Linked, PlanOK
  <2> QED  BY <1>0, <1>1, <1>6, <1>7, <2>2, <2>3 DEF PlanOK
<1>10. TraceOK' /\ EndOK'
  BY <1>0 DEF TraceOK, EndOK
<1> QED  BY <1>2, <1>3, <1>4, <1>9, <1>10 DEF Inv, NodesSaid

---------------------------------------------------------------------------
(* Steps of the search.                                                      *)

(* While the search goes on there is no plan.                                *)
LEMMA NoPlanYet ==
    ASSUME Inv, task' = task, mode' = mode, UNCHANGED planVars, pc \in {"drive", "expand"},
           pc' \in {"drive", "expand"}
    PROVE  TaskOK' /\ PlanOK' /\ TraceOK' /\ EndOK'
<1>1. plan' = plan /\ plan = <<>> /\ Units(plan)' = Units(plan) /\ IsFiniteSet(Units(plan))
  BY DEF Inv, PlanOK, planVars, Units
<1>2. Linked'
  BY <1>1 DEF Linked
<1> QED  BY <1>1, <1>2 DEF Inv, PlanOK, TraceOK, EndOK, TaskOK

(* What it means that a direction may step.                                  *)
LEMMA MayStepFacts ==
    ASSUME Inv, NEW d \in Dirs, MayStep(d)
    PROVE  /\ TypeOK /\ TaskOK /\ NodesOK /\ OpenOK /\ ClosedOK /\ SeenOK
           /\ pc = "drive" /\ cont[d] = "cont" /\ Searches(d)
           /\ Frontier(d) /\ Ready(d) /\ NoneFound
           /\ \A e : Hand(e) = {} /\ ~Expanding(e)
           /\ Both \/ mode = d
           /\ Both => open[d] # {}
<1>1. /\ pc = "drive" /\ cont[d] = "cont" /\ Searches(d) /\ NoneFound
      /\ \A e : Hand(e) = {} /\ ~Expanding(e)
      /\ Both \/ mode = d
      /\ Both => open[d] # {}
  BY DEF MayStep, Both, Searches, Hand, Expanding, Inv, MeetOK, GoesOn, Dirs
<1>2. Frontier(d) /\ Ready(d)
  BY <1>1 DEF Inv, FrontOK, OpenOK
<1> QED  BY <1>1, <1>2 DEF Inv

(* When the nodes grow, those there were are as right as before.             *)
LEMMA OldNodes ==
    ASSUME Inv, task' = task, \A d \in Dirs : Grows(d)
    PROVE  /\ \A d \in Dirs : \A i \in DOMAIN pool[d] : NodeOK(d, i)'
           /\ \A d \in Dirs : \A i \in closed[d] :
                 /\ Cost(d, i)' = Cost(d, i) /\ Bdd(d, i)' = Bdd(d, i)
                 /\ i \in DOMAIN pool[d] /\ i \notin open[d]
           /\ closed' = closed => ClosedOK' /\ \A d \in Dirs : AllClosed(d)' = AllClosed(d)
           /\ /\ closed' = closed /\ bound' \in Nat /\ bound' <= bound
              => \A d \in Dirs : \A i \in closed[d] :
                    Seen(d, i)' /\ \A n \in Trans : Bridged(d, i, n)'
<1>0. TypeOK /\ TaskOK /\ NodesOK /\ OpenOK /\ ClosedOK /\ SeenOK
  BY DEF Inv
<1>1. \A d \in Dirs : \A i \in DOMAIN pool[d] : NodeOK(d, i)'
  BY <1>0, NodesKept
<1>2. \A d \in Dirs : \A i \in closed[d] :
          /\ Cost(d, i)' = Cost(d, i) /\ Bdd(d, i)' = Bdd(d, i)
          /\ i \in DOMAIN pool[d] /\ i \notin open[d]
  BY <1>0, NodeTypes DEF Grows, OpenOK
<1>3. ASSUME closed' = closed PROVE ClosedOK' /\ \A d \in Dirs : AllClosed(d)' = AllClosed(d)
  <2>1. ClosedOK'
    BY <1>0, <1>2, <1>3, SameTask DEF ClosedOK
  <2>2. ASSUME NEW d \in Dirs PROVE AllClosed(d)' = AllClosed(d)
    <3>1. \A s : s \in AllClosed(d)' <=> \E i \in closed'[d] : s \in Bdd(d, i)'
      BY DEF AllClosed
    <3> QED  BY <1>2, <1>3, <3>1, ClosedStates
  <2> QED  BY <2>1, <2>2
<1>4. ASSUME closed' = closed, bound' \in Nat, bound' <= bound,
             NEW d \in Dirs, NEW i \in closed[d]
      PROVE  Seen(d, i)' /\ \A n \in Trans : Bridged(d, i, n)'
  <2>1. Seen(d, i) /\ \A n \in Trans : Bridged(d, i, n)
    BY <1>0 DEF SeenOK, Trans
  <2>2. Other(d) \in Dirs
    BY ArcTurns
  <2> QED  BY <1>0, <1>2, <1>4, <2>1, <2>2, SeenKept
<1> QED  BY <1>1, <1>2, <1>3, <1>4

(* The nodes of both directions, one by one.                                 *)
LEMMA NodesOKIf ==
    ASSUME \A d \in Dirs : \A i \in DOMAIN pool'[d] : NodeOK(d, i)'
    PROVE  NodesOK'
  BY DEF NodesOK

(* A search whose nodes and meeting stay as they are.                        *)
LEMMA StillKept ==
    ASSUME Inv, UNCHANGED <<task, mode, pool, open, closed, bound, goalId>>
    PROVE  /\ NodesOK' /\ ClosedOK'
           /\ \A d, i : Cost(d, i)' = Cost(d, i) /\ Bdd(d, i)' = Bdd(d, i)
           /\ \A d : /\ AllClosed(d)' = AllClosed(d) /\ (Ready(d)' <=> Ready(d))
                     /\ (Searches(d)' <=> Searches(d)) /\ (Meets(d)' <=> Meets(d))
                     /\ Settled(d)' = Settled(d)
           /\ \A d, i : Seen(d, i)' <=> Seen(d, i)
           /\ \A d, i, n : Bridged(d, i, n)' <=> Bridged(d, i, n)
           /\ \A d : Hand(d)' = Hand(d) =>
                 /\ Frontier(d)' <=> Frontier(d)
                 /\ \A i, n : Followed(d, i, n)' <=> Followed(d, i, n)
           /\ Lost' <=> Lost
<1>0. /\ UNCHANGED <<task, pool, open, closed>> /\ task' = task /\ mode' = mode
      /\ bound' = bound /\ goalId' = goalId
      /\ pool' = pool /\ open' = open /\ closed' = closed
  OBVIOUS
<1>1. /\ \A d, i : Cost(d, i)' = Cost(d, i) /\ Bdd(d, i)' = Bdd(d, i)
      /\ \A d : /\ AllClosed(d)' = AllClosed(d) /\ (Ready(d)' <=> Ready(d))
                /\ Settled(d)' = Settled(d)
      /\ \A d \in Dirs : Grows(d)
  BY <1>0, StillNodes
<1>2. NodesOK' /\ ClosedOK'
  BY <1>0, <1>1, OldNodes, NodesOKIf
<1>3. \A d : (Searches(d)' <=> Searches(d)) /\ (Meets(d)' <=> Meets(d))
  BY <1>0, <1>1 DEF Searches, Meets
<1>4. \A d, i, n : Image(d, task.trans[n], Bdd(d, i))' = Image(d, task.trans[n], Bdd(d, i))
  BY <1>0, <1>1 DEF Image
<1>5. /\ \A d, i : Seen(d, i)' <=> Seen(d, i)
      /\ \A d, i, n : Bridged(d, i, n)' <=> Bridged(d, i, n)
  <2>1. \A d, i : Seen(d, i)' <=> Seen(d, i)
    BY <1>0, <1>1 DEF Seen
  <2>2. \A d, i, n : Bridged(d, i, n)' <=> Bridged(d, i, n)
    BY <1>0, <1>1, <1>4, SameTask DEF Bridged
  <2> QED  BY <2>1, <2>2
<1>6. ASSUME NEW d, Hand(d)' = Hand(d)
      PROVE  /\ Frontier(d)' <=> Frontier(d)
             /\ \A i, n : Followed(d, i, n)' <=> Followed(d, i, n)
  <2>1. \A s, c : Covered(d, s, c)' <=> Covered(d, s, c)
    BY <1>0, <1>1, <1>6 DEF Covered
  <2>2. \A i, n : Followed(d, i, n)' <=> Followed(d, i, n)
    BY <1>0, <1>1, <1>4, <2>1, SameTask DEF Followed
  <2> QED  BY <1>0, <2>1, <2>2, SameTask DEF Frontier
<1>7. Lost' <=> Lost
  BY <1>0, <1>1 DEF Lost
<1> QED  BY <1>1, <1>2, <1>3, <1>5, <1>6, <1>7

(* A direction alone has nothing left to step on.                            *)
LEMMA StepNoneKept ==
    ASSUME Inv, NEW d \in Dirs, StepNone(d)
    PROVE  Inv'
<1>0. /\ UNCHANGED <<task, mode, pool, open, closed, bound, goalId>> /\ pc' = pc
      /\ UNCHANGED planVars /\ tri' = tri /\ dir' = dir /\ cur' = cur /\ task' = task /\ mode' = mode
      /\ cont' = [cont EXCEPT ![d] = "notexist"] /\ open[d] = {}
      /\ open' = open /\ closed' = closed /\ bound' = bound /\ goalId' = goalId
      /\ at' = at /\ cut' = cut /\ plan' = plan /\ pool' = pool
  BY DEF StepNone, nodeVars, stepVars, planVars
<1>1. /\ TypeOK /\ OpenOK /\ FrontOK /\ MeetOK /\ pc = "drive" /\ cont[d] = "cont" /\ mode = d
      /\ Frontier(d) /\ \A e : Hand(e) = {} /\ ~Expanding(e)
  BY <1>0, MayStepFacts DEF StepNone, Inv
<1>2. cont \in [Dirs -> {"cont", "found", "notexist", "abort"}]
  BY <1>1 DEF TypeOK
<1>3. cont'[d] = "notexist" /\ \A e \in Dirs : e # d => cont'[e] = cont[e]
  BY <1>0, <1>2
<1>4. \A e : Hand(e)' = Hand(e) /\ ~Expanding(e)'
  BY <1>0, <1>1 DEF Hand, Expanding
<1>5. TypeOK'
  BY <1>0, <1>1, <1>2, SameTask DEF TypeOK
<1>6. TaskOK' /\ PlanOK' /\ TraceOK' /\ EndOK'
  BY <1>0, <1>1, NoPlanYet
<1>7. NodesOK' /\ ClosedOK' /\ HandOK'
  BY <1>0, <1>1, StillKept DEF HandOK
<1>8. OpenOK'
  <2> SUFFICES ASSUME NEW e \in Dirs
               PROVE  /\ open[e] \cap closed[e] = {}
                      /\ ~Searches(e) => open[e] = {} /\ closed[e] = {}
                      /\ \A k \in closed[e] : \A i \in open[e] : Cost(e, k) < Cost(e, i)
                      /\ cont'[e] = "cont" => Ready(e)
                      /\ cont'[e] = "notexist" => mode = e /\ open[e] = {}
                      /\ cont'[e] = "abort" => mode = "fwbw" /\ e = "bw"
    BY <1>0, <1>1, <1>4, StillKept DEF OpenOK
  <2>1. CASE e = d
    BY <1>0, <1>1, <1>3, <2>1 DEF OpenOK
  <2>2. CASE e # d
    BY <1>1, <1>3, <2>2 DEF OpenOK
  <2> QED  BY <2>1, <2>2
<1>9. FrontOK'
  <2>1. ASSUME NEW e \in Dirs, Searches(e)
        PROVE  Frontier(e) \/ (e = "bw" /\ cont'[e] = "abort" /\ Lost)
    BY <1>1, <1>3, <2>1 DEF FrontOK
  <2>2. \A e : (Frontier(e)' <=> Frontier(e)) /\ (Searches(e)' <=> Searches(e)) /\ (Lost' <=> Lost)
    BY <1>0, <1>4, StillKept
  <2> QED  BY <1>0, <1>1, <2>1, <2>2 DEF FrontOK
<1>10. SeenOK'
  BY <1>0, <1>1, StillKept, SameTask DEF Inv, SeenOK
<1>11. MeetOK'
  <2>1. NoneFound' <=> NoneFound
    BY <1>1, <1>3 DEF NoneFound
  <2>2. \A e : Meets(e)' <=> Meets(e)
    BY <1>0, StillKept
  <2> QED  BY <1>0, <1>1, <2>1, <2>2 DEF MeetOK, Halves
<1> QED  BY <1>5, <1>6, <1>7, <1>8, <1>9, <1>10, <1>11 DEF Inv

(* A transition relation that costs too much.                                *)
LEMMA ExpandSkipKept ==
    ASSUME Inv, ExpandSkip
    PROVE  Inv'
<1>0. /\ UNCHANGED <<task, mode, pool, open, closed, bound, goalId>> /\ pc' = pc /\ pc = "expand"
      /\ UNCHANGED planVars /\ tri' = tri + 1 /\ dir' = dir /\ cur' = cur /\ task' = task
      /\ mode' = mode /\ cont' = cont /\ tri <= LastTrans /\ ChildCost >= bound
      /\ open' = open /\ closed' = closed /\ bound' = bound /\ goalId' = goalId
      /\ at' = at /\ cut' = cut /\ plan' = plan /\ pool' = pool
  BY DEF ExpandSkip, nodeVars, planVars
<1>1. /\ TypeOK /\ TaskOK /\ OpenOK /\ HandOK /\ FrontOK /\ SeenOK /\ MeetOK
      /\ cur \in DOMAIN pool[dir] /\ dir \in Dirs
  BY <1>0, OtherTypes DEF Inv, HandOK, Settled
<1>2. /\ LastTrans' = LastTrans /\ LastTrans \in Nat /\ tri \in Trans /\ Weight(tri) \in Nat
      /\ tri \in Nat
  <2>1. LastTrans' = LastTrans /\ LastTrans \in Nat
    BY <1>0, <1>1, SameTask, TaskFacts
  <2>2. tri \in 1..LastTrans + 1 /\ tri <= LastTrans
    BY <1>0, <1>1 DEF TypeOK
  <2>3. tri \in Trans
    BY <2>1, <2>2 DEF Trans
  <2> QED  BY <1>1, <2>1, <2>2, <2>3, TaskFacts
<1>3. \A e : Hand(e)' = Hand(e) /\ (Expanding(e)' <=> Expanding(e))
  BY <1>0 DEF Hand, Expanding, Bdd
<1>4. TypeOK'
  <2>1. tri' \in 1..LastTrans' + 1
    BY <1>0, <1>2 DEF Trans
  <2> QED  BY <1>0, <1>1, <2>1 DEF TypeOK
<1>5. TaskOK' /\ PlanOK' /\ TraceOK' /\ EndOK'
  BY <1>0, NoPlanYet
<1>6. NodesOK' /\ ClosedOK'
  BY <1>0, StillKept
<1>7. /\ \A d, i : Cost(d, i)' = Cost(d, i) /\ Bdd(d, i)' = Bdd(d, i)
      /\ \A d : /\ AllClosed(d)' = AllClosed(d) /\ (Ready(d)' <=> Ready(d))
                /\ (Searches(d)' <=> Searches(d)) /\ (Meets(d)' <=> Meets(d))
                /\ Settled(d)' = Settled(d)
      /\ \A d, i : Seen(d, i)' <=> Seen(d, i)
      /\ \A d, i, n : Bridged(d, i, n)' <=> Bridged(d, i, n)
      /\ \A d : (Frontier(d)' <=> Frontier(d)) /\ \A i, n : Followed(d, i, n)' <=> Followed(d, i, n)
      /\ Lost' <=> Lost
  BY <1>0, <1>3, StillKept
<1>8. OpenOK'
  BY <1>0, <1>1, <1>3, <1>7 DEF OpenOK
<1>9. HandOK'
  <2>1. /\ Cost(dir, cur)' = Cost(dir, cur) /\ Bdd(dir, cur)' = Bdd(dir, cur)
        /\ AllClosed(dir)' = AllClosed(dir) /\ Settled(dir)' = Settled(dir)
        /\ (Searches(dir)' <=> Searches(dir))
        /\ \A i : Cost(dir, i)' = Cost(dir, i)
    BY <1>0, <1>7 DEF Cost, Bdd, AllClosed, Settled, Searches
  <2> QED  BY <1>0, <1>1, <2>1, SameTask DEF HandOK
<1>10. Cost(dir, cur) + Weight(tri) >= bound
  BY <1>0 DEF ChildCost, Weight
<1>11. Cost(dir, cur) \in Nat /\ bound \in Nat /\ \A e \in Dirs : \A j \in closed[e] : Cost(e, j) \in Nat
  BY <1>1, OtherTypes, NodeTypes
<1>12. tri' - 1 = tri /\ \A n \in 1..tri : n \in 1..tri - 1 \/ n = tri
  BY <1>0, <1>2
<1>13. FrontOK'
  <2>1. \A n \in 1..tri : Followed(dir, cur, n)
    <3>1. \A n \in 1..tri - 1 : Followed(dir, cur, n)
      BY <1>0, <1>1 DEF FrontOK
    <3> QED  BY <1>10, <1>12, <3>1 DEF Followed
  <2>2. \A n \in 1..tri' - 1 : Followed(dir, cur, n)'
    <3>1. \A n : Followed(dir, cur, n)' <=> Followed(dir, cur, n)
      BY <1>0, <1>7
    <3> QED  BY <1>12, <2>1, <3>1
  <2> QED  BY <1>0, <1>1, <1>7, <2>2 DEF FrontOK
<1>14. SeenOK'
  <2>1. \A n \in 1..tri : Bridged(dir, cur, n)
    <3>1. \A n \in 1..tri - 1 : Bridged(dir, cur, n)
      BY <1>0, <1>1 DEF SeenOK
    <3>2. \A a, b \in Nat : bound <= a /\ b \in Nat => bound <= a + b
      BY <1>11
    <3>3. Bridged(dir, cur, tri)
      <4>1. Other(dir) \in Dirs
        BY <1>1, ArcTurns
      <4>2. bound <= Cost(dir, cur) + Weight(tri) /\ Cost(dir, cur) + Weight(tri) \in Nat
        BY <1>2, <1>10, <1>11
      <4> QED  BY <1>11, <3>2, <4>1, <4>2 DEF Bridged
    <3> QED  BY <1>12, <3>1, <3>3
  <2>2. /\ \A n : Bridged(dir, cur, n)' <=> Bridged(dir, cur, n)
        /\ Seen(dir, cur)' <=> Seen(dir, cur)
    BY <1>0, <1>7
  <2>3. \A n \in 1..tri' - 1 : Bridged(dir, cur, n)'
    BY <1>12, <2>1, <2>2
  <2> QED  BY <1>0, <1>1, <1>2, <1>7, <2>2, <2>3 DEF SeenOK
<1>15. MeetOK'
  <2>1. (NoneFound' <=> NoneFound) /\ (Halves' <=> Halves)
    BY <1>0 DEF NoneFound, Halves
  <2> QED  BY <1>0, <1>1, <1>7, <2>1 DEF MeetOK
<1> QED  BY <1>4, <1>5, <1>6, <1>8, <1>9, <1>13, <1>14, <1>15 DEF Inv

(* A node is taken from the open nodes.                                      *)
LEMMA PopFacts ==
    ASSUME Inv, UNCHANGED <<task, mode, pool, closed>>, NEW d \in Dirs, NEW i \in open[d], Popped(d, i)
    PROVE  /\ open' \in [Dirs -> SUBSET Nat] /\ open'[d] = open[d] \ {i}
           /\ \A e \in Dirs : e # d => open'[e] = open[e]
           /\ \A e, j : Cost(e, j)' = Cost(e, j) /\ Bdd(e, j)' = Bdd(e, j)
           /\ \A e \in Dirs : /\ Grows(e) /\ open'[e] \subseteq open[e]
                              /\ AllClosed(e)' = AllClosed(e)
                              /\ e # d => (Ready(e)' <=> Ready(e))
                              /\ Settled(e) \subseteq Settled(e)'
                              /\ Searches(e)' <=> Searches(e)
           /\ i \in Settled(d)' /\ i \in Nat
           /\ NodesOK' /\ ClosedOK'
           /\ \A e \in Dirs :
                 /\ open'[e] \cap closed[e] = {}
                 /\ ~Searches(e) => open'[e] = {} /\ closed[e] = {}
                 /\ \A k \in closed[e] : \A j \in open'[e] : Cost(e, k) < Cost(e, j)
<1>0. task' = task /\ pool' = pool /\ closed' = closed /\ mode' = mode /\ TypeOK /\ OpenOK
  BY DEF Inv
<1>1. /\ open \in [Dirs -> SUBSET Nat] /\ open[d] \subseteq DOMAIN pool[d]
      /\ open' = [open EXCEPT ![d] = open[d] \ {i}]
  BY <1>0, OtherTypes, NodeTypes DEF Popped
<1>2. /\ open' \in [Dirs -> SUBSET Nat] /\ open'[d] = open[d] \ {i}
      /\ \A e \in Dirs : e # d => open'[e] = open[e]
      /\ \A e \in Dirs : open'[e] \subseteq open[e]
  BY <1>1
<1>3. \A e, j : Cost(e, j)' = Cost(e, j) /\ Bdd(e, j)' = Bdd(e, j)
  BY <1>0 DEF Cost, Bdd
<1>4. \A e \in Dirs : Grows(e)
  BY <1>0, <1>2, <1>3 DEF Grows
<1>5. \A e \in Dirs : Settled(e) \subseteq Settled(e)'
  BY <1>0, <1>2 DEF Settled
<1>6. i \in Settled(d)'
  BY <1>0, <1>1, <1>2 DEF Settled
<1>7. /\ ClosedOK' /\ \A e \in Dirs : AllClosed(e)' = AllClosed(e)
      /\ NodesOK'
  BY <1>0, <1>4, OldNodes, NodesOKIf
<1>8. ASSUME NEW e \in Dirs, e # d PROVE Ready(e)' <=> Ready(e)
  <2>1. open'[e] = open[e] /\ AllClosed(e)' = AllClosed(e)
    BY <1>2, <1>7, <1>8
  <2>2. \A j : IsTop(e, j)' <=> IsTop(e, j)
    BY <1>3, <2>1 DEF IsTop
  <2> QED  BY <1>0, <1>3, <2>1, <2>2 DEF Ready
<1>9. \A e \in Dirs :
          /\ open'[e] \cap closed[e] = {}
          /\ ~Searches(e) => open'[e] = {} /\ closed[e] = {}
          /\ \A k \in closed[e] : \A j \in open'[e] : Cost(e, k) < Cost(e, j)
  BY <1>0, <1>2 DEF OpenOK
<1>10. \A e \in Dirs : Searches(e)' <=> Searches(e)
  BY <1>0 DEF Searches
<1>11. i \in Nat
  BY <1>1
<1> QED  BY <1>2, <1>3, <1>4, <1>5, <1>6, <1>7, <1>8, <1>9, <1>10, <1>11

(* Covered states stay covered when the node taken has none or is in hand.   *)
LEMMA PopShifts ==
    ASSUME Inv, UNCHANGED <<task, mode, pool, closed>>, NEW d \in Dirs, NEW i \in open[d],
           Popped(d, i), \A e : Hand(e) = {}, Bdd(d, i) \subseteq Hand(d)'
    PROVE  \A e \in Dirs : Shifts(e)
<1>1. /\ open'[d] = open[d] \ {i}
      /\ \A e \in Dirs : e # d => open'[e] = open[e]
      /\ \A e, j : Cost(e, j)' = Cost(e, j) /\ Bdd(e, j)' = Bdd(e, j)
      /\ \A e \in Dirs : AllClosed(e)' = AllClosed(e)
  BY PopFacts
<1>2. \A e \in Dirs : \A j \in open[e] : Cost(e, j) \in Nat /\ Cost(e, j) <= Cost(e, j)
  <2>1. \A e \in Dirs : \A j \in open[e] : Cost(e, j) \in Nat
    BY NodeTypes DEF Inv
  <2> QED  BY <2>1
<1> SUFFICES ASSUME NEW e \in Dirs PROVE Shifts(e)
  OBVIOUS
<1>3. AllClosed(e) \cup Hand(e) \subseteq (AllClosed(e) \cup Hand(e))'
  BY <1>1
<1>4. ASSUME NEW j \in open[e], NEW s \in Bdd(e, j)
      PROVE  \/ s \in (AllClosed(e) \cup Hand(e))'
             \/ \E k \in open'[e] : /\ s \in Bdd(e, k)'
                                    /\ Cost(e, k)' \in Nat /\ Cost(e, k)' <= Cost(e, j)
  <2>1. CASE e = d /\ j = i
    BY <1>4, <2>1
  <2>2. CASE ~(e = d /\ j = i)
    <3>1. j \in open'[e]
      BY <1>1, <2>2
    <3> QED  BY <1>1, <1>2, <1>4, <3>1
  <2> QED  BY <2>1, <2>2
<1> QED  BY <1>3, <1>4 DEF Shifts

(* A node without states is dropped.                                         *)
LEMMA StepEmptyKept ==
    ASSUME Inv, NEW d \in Dirs, StepEmpty(d)
    PROVE  Inv'
<1>0. /\ UNCHANGED <<task, mode, pool, closed>> /\ pc' = pc /\ UNCHANGED planVars
      /\ tri' = tri /\ dir' = dir /\ cur' = cur /\ task' = task /\ mode' = mode /\ cont' = cont
      /\ bound' = bound /\ goalId' = goalId /\ closed' = closed /\ pool' = pool
      /\ at' = at /\ cut' = cut /\ plan' = plan
  BY DEF StepEmpty, stepVars, planVars
<1>1. PICK i \in open[d] : IsTop(d, i) /\ Bdd(d, i) = {} /\ Popped(d, i)
  BY DEF StepEmpty
<1>2. /\ TypeOK /\ TaskOK /\ OpenOK /\ FrontOK /\ SeenOK /\ MeetOK /\ pc = "drive"
      /\ cont[d] = "cont" /\ Frontier(d) /\ Ready(d)
      /\ \A e : Hand(e) = {} /\ ~Expanding(e)
  BY MayStepFacts DEF StepEmpty, Inv
<1>3. /\ open' \in [Dirs -> SUBSET Nat] /\ open'[d] = open[d] \ {i}
      /\ \A e \in Dirs : e # d => open'[e] = open[e]
      /\ \A e, j : Cost(e, j)' = Cost(e, j) /\ Bdd(e, j)' = Bdd(e, j)
      /\ \A e \in Dirs : /\ Grows(e) /\ open'[e] \subseteq open[e]
                         /\ AllClosed(e)' = AllClosed(e)
                         /\ e # d => (Ready(e)' <=> Ready(e))
                         /\ Searches(e)' <=> Searches(e)
      /\ NodesOK' /\ ClosedOK'
      /\ \A e \in Dirs :
            /\ open'[e] \cap closed[e] = {}
            /\ ~Searches(e) => open'[e] = {} /\ closed[e] = {}
            /\ \A k \in closed[e] : \A j \in open'[e] : Cost(e, k) < Cost(e, j)
  BY <1>0, <1>1, PopFacts
<1>4. open'[d] = {}
  BY <1>1, <1>2, <1>3 DEF Ready
<1>5. \A e : Hand(e)' = {} /\ ~Expanding(e)'
  BY <1>0, <1>2 DEF Hand, Expanding
<1>6. \A e \in Dirs : Shifts(e)
  BY <1>0, <1>1, <1>2, PopShifts
<1>7. TypeOK'
  BY <1>0, <1>2, <1>3, SameTask DEF TypeOK
<1>8. TaskOK' /\ PlanOK' /\ TraceOK' /\ EndOK'
  BY <1>0, <1>2, NoPlanYet
<1>9. HandOK'
  BY <1>0, <1>2 DEF HandOK
<1>10. OpenOK'
  <2>1. \A e \in Dirs :
            /\ cont[e] = "cont" => Ready(e)'
            /\ cont[e] = "notexist" => mode = e /\ open'[e] = {}
            /\ cont[e] = "abort" => mode = "fwbw" /\ e = "bw"
    <3> SUFFICES ASSUME NEW e \in Dirs
                 PROVE  /\ cont[e] = "cont" => Ready(e)'
                        /\ cont[e] = "notexist" => mode = e /\ open'[e] = {}
                        /\ cont[e] = "abort" => mode = "fwbw" /\ e = "bw"
      OBVIOUS
    <3>1. CASE e = d
      BY <1>2, <1>4, <3>1 DEF Ready
    <3>2. CASE e # d
      BY <1>2, <1>3, <3>2 DEF OpenOK
    <3> QED  BY <3>1, <3>2
  <2> QED  BY <1>0, <1>3, <1>5, <2>1 DEF OpenOK
<1>11. bound' \in Nat /\ bound' <= bound
  BY <1>0, <1>2, OtherTypes
<1>12. FrontOK'
  <2>1. \A e \in Dirs : Frontier(e) => Frontier(e)'
    BY <1>0, <1>2, <1>3, <1>6, <1>11, FrontierKept
  <2>2. ASSUME NEW e \in Dirs, Searches(e)
        PROVE  Frontier(e)' \/ (e = "bw" /\ cont'[e] = "abort" /\ Lost')
    <3>1. CASE Frontier(e)
      BY <2>1, <3>1
    <3>2. CASE ~Frontier(e)
      <4>1. e # d /\ e = "bw" /\ cont[e] = "abort" /\ Lost
        BY <1>2, <2>2, <3>2 DEF FrontOK
      <4> QED  BY <1>0, <1>3, <4>1 DEF Lost
    <3> QED  BY <3>1, <3>2
  <2> QED  BY <1>0, <1>2, <1>3, <2>2 DEF FrontOK
<1>13. SeenOK'
  <2>1. \A e \in Dirs : \A k \in closed[e] : Seen(e, k)' /\ \A n \in Trans : Bridged(e, k, n)'
    BY <1>0, <1>3, <1>11, OldNodes
  <2> QED  BY <1>0, <1>2, <2>1, SameTask DEF SeenOK, Trans
<1>14. MeetOK'
  <2>1. (NoneFound' <=> NoneFound) /\ (Halves' <=> Halves)
    BY <1>0 DEF NoneFound, Halves
  <2>2. \A e : Meets(e)' <=> Meets(e)
    BY <1>0, <1>3 DEF Meets
  <2> QED  BY <1>0, <1>2, <2>1, <2>2 DEF MeetOK
<1> QED  BY <1>3, <1>7, <1>8, <1>9, <1>10, <1>12, <1>13, <1>14 DEF Inv

(* A direction that finds the target alone has found it for the least cost.  *)
LEMMA GoalIsLeast ==
    ASSUME Inv, NEW d \in Dirs, MayStep(d), NEW i \in open[d], IsTop(d, i), Cost(d, i) <= bound,
           NEW s \in Bdd(d, i) \cap Target(d)
    PROVE  IsLeast(Cost(d, i))
<1>0. /\ TypeOK /\ TaskOK /\ NodesOK /\ OpenOK /\ ClosedOK
      /\ Frontier(d) /\ Ready(d) /\ Hand(d) = {}
  BY MayStepFacts
<1>1. /\ \A x \in Bdd(d, i) : Exact(d, x, Cost(d, i))
      /\ \A x, c : Exact(d, x, c) /\ c < Cost(d, i) => x \in AllClosed(d)
  BY <1>0, TopExact
<1>2. ASSUME NEW h \in Target(d), NEW b, Exact(d, h, b) PROVE Cost(d, i) <= b
  <2>1. h \notin AllClosed(d)
    BY <1>0, ClosedStates DEF ClosedOK
  <2>2. ~(b < Cost(d, i)) /\ b \in Nat /\ Cost(d, i) \in Nat
    BY <1>0, <1>1, <1>2, <2>1, WalkTypes, NodeTypes
  <2> QED  BY <2>2
<1> QED  BY <1>0, <1>1, <1>2, LeastEither

(* A direction finds a plan alone, and the cheapest one.                     *)
LEMMA StepGoalKept ==
    ASSUME Inv, NEW d \in Dirs, StepGoal(d)
    PROVE  Inv'
<1>0. /\ UNCHANGED <<task, mode, pool, closed>>
      /\ tri' = tri /\ task' = task /\ mode' = mode /\ cont' = [cont EXCEPT ![d] = "found"]
      /\ bound' = bound /\ closed' = closed /\ pool' = pool
      /\ cut' = cut /\ plan' = plan
  BY DEF StepGoal
<1>1. PICK i \in open[d] :
          /\ IsTop(d, i)
          /\ Cost(d, i) <= bound
          /\ Popped(d, i)
          /\ goalId' = [goalId EXCEPT ![d] = i]
          /\ \E s \in Bdd(d, i) \cap Target(d) : Trace(d, i, s)
  BY DEF StepGoal
<1>2. PICK s \in Bdd(d, i) \cap Target(d) : Trace(d, i, s)
  BY <1>1
<1>3. /\ TypeOK /\ TaskOK /\ NodesOK /\ OpenOK /\ SeenOK /\ MeetOK /\ PlanOK /\ pc = "drive"
      /\ MayStep(d) /\ i \in DOMAIN pool[d] /\ i \in Nat
      /\ cont[d] = "cont" /\ \A e : Hand(e) = {} /\ ~Expanding(e)
      /\ Both \/ mode = d
  <2>1. MayStep(d)
    BY DEF StepGoal
  <2>2. /\ TypeOK /\ TaskOK /\ NodesOK /\ OpenOK /\ SeenOK /\ MeetOK /\ PlanOK /\ pc = "drive"
        /\ cont[d] = "cont" /\ \A e : Hand(e) = {} /\ ~Expanding(e)
        /\ Both \/ mode = d
    BY <2>1, MayStepFacts DEF Inv
  <2> QED  BY <2>1, <2>2, NodeTypes
<1>4. /\ pc' = "trace" /\ dir' = d /\ at' = s /\ s \in task.states
      /\ cur' \in DOMAIN pool[d] /\ pool[d][cur'].parents = {}
      /\ s \in Bdd(d, cur') /\ pool[d][cur'].cost = Cost(d, i)
  BY <1>2, <1>3, TraceFacts
<1>5. /\ open' \in [Dirs -> SUBSET Nat]
      /\ \A e \in Dirs : e # d => open'[e] = open[e]
      /\ \A e, j : Cost(e, j)' = Cost(e, j) /\ Bdd(e, j)' = Bdd(e, j)
      /\ \A e \in Dirs : /\ Grows(e) /\ open'[e] \subseteq open[e]
                         /\ e # d => (Ready(e)' <=> Ready(e))
                         /\ Searches(e)' <=> Searches(e)
      /\ NodesOK' /\ ClosedOK'
      /\ \A e \in Dirs :
            /\ open'[e] \cap closed[e] = {}
            /\ ~Searches(e) => open'[e] = {} /\ closed[e] = {}
            /\ \A k \in closed[e] : \A j \in open'[e] : Cost(e, k) < Cost(e, j)
  BY <1>0, <1>1, PopFacts
<1>6. cont \in [Dirs -> {"cont", "found", "notexist", "abort"}] /\ goalId \in [Dirs -> Nat]
  BY <1>3 DEF TypeOK
<1>7. cont'[d] = "found" /\ \A e \in Dirs : e # d => cont'[e] = cont[e]
  BY <1>0, <1>6
<1>8. TypeOK'
  <2>1. cur' \in Nat
    BY <1>3, <1>4, NodeTypes
  <2>2. goalId' \in [Dirs -> Nat] /\ cont' \in [Dirs -> {"cont", "found", "notexist", "abort"}]
    BY <1>0, <1>1, <1>3, <1>6
  <2>3. /\ \A e \in Dirs : open'[e] \cup closed[e] \subseteq DOMAIN pool[e]
        /\ closed \in [Dirs -> SUBSET Nat]
    BY <1>3, <1>5, NodeTypes, OtherTypes
  <2>4. /\ pool \in [Dirs -> Seq([cost : Nat, parent : Nat, parents : SUBSET Nat,
                                 trans : Nat, bdd : SUBSET task.states])]
        /\ bound \in 0..MaxCost /\ tri \in 1..LastTrans + 1 /\ LastTrans' = LastTrans
        /\ {s, cut} \subseteq task.states /\ plan \in Seq(task.states \X Nat \X task.states)
    BY <1>0, <1>3, <1>4, SameTask DEF TypeOK
  <2>5. pc' \in {"drive", "expand", "trace", "found", "notexist", "panic"} /\ dir' \in Dirs
    BY <1>4
  <2>6. {open', closed'} \subseteq [Dirs -> SUBSET Nat]
    BY <1>0, <1>5, <2>3
  <2>7. {at', cut'} \subseteq task'.states
    BY <1>0, <1>4, <2>4
  <2> QED  BY <1>0, <2>1, <2>2, <2>3, <2>4, <2>5, <2>6, <2>7 DEF TypeOK
<1>9. TaskOK'
  BY <1>0, <1>3 DEF TaskOK
<1>10. OpenOK'
  <2>1. \A e \in Dirs :
            /\ cont'[e] = "cont" => Ready(e)'
            /\ cont'[e] = "notexist" => mode = e /\ open'[e] = {}
            /\ cont'[e] = "abort" => mode = "fwbw" /\ e = "bw"
    <3> SUFFICES ASSUME NEW e \in Dirs
                 PROVE  /\ cont'[e] = "cont" => Ready(e)'
                        /\ cont'[e] = "notexist" => mode = e /\ open'[e] = {}
                        /\ cont'[e] = "abort" => mode = "fwbw" /\ e = "bw"
      OBVIOUS
    <3>1. CASE e = d
      BY <1>7, <3>1
    <3>2. CASE e # d
      BY <1>3, <1>5, <1>7, <3>2 DEF OpenOK
    <3> QED  BY <3>1, <3>2
  <2> QED  BY <1>0, <1>5, <2>1 DEF OpenOK
<1>11. HandOK' /\ FrontOK'
  BY <1>4 DEF HandOK, FrontOK
<1>12. bound' \in Nat /\ bound' <= bound
  BY <1>0, <1>3, OtherTypes
<1>13. SeenOK'
  <2>1. \A e \in Dirs : \A k \in closed[e] : Seen(e, k)' /\ \A n \in Trans : Bridged(e, k, n)'
    BY <1>0, <1>5, <1>12, OldNodes
  <2> QED  BY <1>0, <1>4, <2>1, SameTask DEF SeenOK, Trans
<1>14. ~Halves' /\ ~NoneFound'
  BY <1>7 DEF Halves, NoneFound
<1>15. MeetOK'
  BY <1>0, <1>3, <1>4, <1>14 DEF MeetOK
<1>16. plan = <<>> /\ plan' = <<>> /\ IsFiniteSet(Units(plan))
  BY <1>0, <1>3 DEF PlanOK
<1>17. Cost(dir, cur)' = Cost(d, i) /\ Bdd(dir, cur)' = Bdd(d, cur')
  BY <1>0, <1>4 DEF Cost, Bdd
<1>18. PlanOK'
  <2>1. Units(plan)' = {} /\ IsFiniteSet(Units(plan))'
    BY <1>16, FS_EmptySet DEF Units
  <2>2. Linked'
    BY <1>16 DEF Linked
  <2>3. Rest' = Cost(d, i) + 0
    BY <1>4, <1>14, <1>17 DEF Rest
  <2>4. Cost(d, i) \in Nat /\ PlanCost' = 0
    BY <1>3, <2>1, NodeTypes, FS_EmptySet DEF PlanCost
  <2>5. (PlanCost + Rest)' = Cost(d, i)
    BY <2>3, <2>4
  <2>6. IsLeast(PlanCost + Rest)'
    <3>1. IsLeast(Cost(d, i))
      BY <1>1, <1>2, <1>3, GoalIsLeast
    <3> QED  BY <1>0, <2>5, <3>1, SameTask
  <2> QED  BY <1>4, <2>1, <2>2, <2>6 DEF PlanOK
<1>19. TraceOK'
  <2>1. First' = s /\ Last' = s
    BY <1>4, <1>16 DEF First, Last
  <2>2. d = "fw" => s \in task.goal
    BY DEF Target, Source, Sources, Other
  <2>3. d = "bw" => s = task.init
    BY DEF Target, Source, Sources, Other
  <2>4. d = "fw" => cont'["fw"] = "found"
    BY <1>7
  <2> QED  BY <1>0, <1>4, <1>14, <1>17, <2>1, <2>2, <2>3, <2>4 DEF TraceOK
<1>20. EndOK'
  BY <1>4 DEF EndOK
<1> QED  BY <1>5, <1>8, <1>9, <1>10, <1>11, <1>13, <1>15, <1>18, <1>19, <1>20 DEF Inv

(* A node that is taken to be expanded never costs too much.                 *)
LEMMA StepOnFacts ==
    ASSUME Inv, NEW d \in Dirs, StepOn(d)
    PROVE  \E i \in open[d] :
              /\ IsTop(d, i) /\ Bdd(d, i) # {} /\ Popped(d, i) /\ cur' = i /\ tri' = 1
              /\ Bdd(d, i) \cap Target(d) = {} /\ Bdd(d, i) \cap AllClosed(d) = {}
              /\ Cost(d, i) <= bound /\ Meet(d, i, Cost(d, i), Bdd(d, i))
              /\ \A j \in open[d] : j # i => Cost(d, i) < Cost(d, j) /\ pool[d][j].parents = {}
<1>0. /\ TypeOK /\ TaskOK /\ NodesOK /\ MeetOK /\ MayStep(d) /\ Ready(d)
      /\ \A e \in Dirs : \A j \in open[e] : Cost(e, j) \in Nat
      /\ bound \in Nat /\ open[d] \subseteq DOMAIN pool[d]
  <2>1. MayStep(d)
    BY DEF StepOn
  <2>2. TypeOK /\ TaskOK /\ NodesOK /\ MeetOK /\ Ready(d)
    BY <2>1, MayStepFacts DEF Inv
  <2>3. \A e \in Dirs : \A j \in open[e] : Cost(e, j) \in Nat
    BY <2>2, NodeTypes
  <2> QED  BY <2>1, <2>2, <2>3, OtherTypes, NodeTypes
<1>1. PICK i \in open[d] :
          LET worth == Cost(d, i) <= bound
          IN  /\ IsTop(d, i)
              /\ Bdd(d, i) # {}
              /\ worth => Bdd(d, i) \cap Target(d) = {}
              /\ Popped(d, i)
              /\ IF worth THEN Meet(d, i, Cost(d, i), Bdd(d, i))
                          ELSE UNCHANGED <<bound, goalId>>
              /\ tri' = IF worth /\ ~(Bdd(d, i) \subseteq AllClosed(d))
                        THEN 1 ELSE LastTrans + 1
              /\ cur' = i
  BY DEF StepOn
<1>2. Cost(d, i) <= bound
  <2>1. CASE Both
    <3>1. ASSUME NEW e \in Dirs
          PROVE  /\ MinOpenCost(e) \in Nat
                 /\ \E j \in open[e] : MinOpenCost(e) = Cost(e, j)
      <4> DEFINE S == {Cost(e, j) : j \in open[e]}
      <4>1. open[e] # {}
        BY <1>0, <2>1 DEF MayStep, GoesOn, Dirs
      <4>2. S \in SUBSET Nat /\ S # {}
        BY <1>0, <4>1
      <4>3. Min(S) \in S
        <5> HIDE DEF S
        <5> QED  BY <4>2, MinOfNat
      <4> QED  BY <4>2, <4>3 DEF MinOpenCost
    <3>2. MinOpenCost("fw") + MinOpenCost("bw") < bound
      BY <1>0, <2>1 DEF MayStep, GoesOn
    <3>3. MinOpenCost(d) <= bound
      <4>1. MinOpenCost("fw") \in Nat /\ MinOpenCost("bw") \in Nat
        BY <3>1 DEF Dirs
      <4>2. MinOpenCost("fw") <= bound /\ MinOpenCost("bw") <= bound
        BY <1>0, <3>2, <4>1
      <4> QED  BY <4>2 DEF Dirs
    <3>4. PICK j \in open[d] : MinOpenCost(d) = Cost(d, j)
      BY <3>1
    <3>5. Cost(d, i) <= Cost(d, j)
      BY <1>1 DEF IsTop
    <3> QED  BY <1>0, <3>3, <3>4, <3>5
  <2>2. CASE ~Both
    <3>1. bound = MaxCost
      BY <1>0, <2>2 DEF MeetOK, Both
    <3>2. Cost(d, i) <= MaxCost
      BY <1>0 DEF NodesOK, NodeOK
    <3> QED  BY <3>1, <3>2
  <2> QED  BY <2>1, <2>2
<1>3. Bdd(d, i) \cap AllClosed(d) = {} /\ ~(Bdd(d, i) \subseteq AllClosed(d))
  BY <1>0, <1>1 DEF Ready
<1>4. ASSUME NEW j \in open[d], j # i PROVE Cost(d, i) < Cost(d, j) /\ pool[d][j].parents = {}
  <2>1. ~(Cost(d, j) <= Cost(d, i))
    BY <1>0, <1>1, <1>4 DEF Ready
  <2>2. Cost(d, i) < Cost(d, j)
    BY <1>0, <2>1
  <2>3. ~IsTop(d, j)
    BY <2>1 DEF IsTop
  <2> QED  BY <1>0, <2>2, <2>3 DEF Ready
<1> QED  BY <1>1, <1>2, <1>3, <1>4

(* Where a node meets the other direction the bound and the two nodes agree. *)
LEMMA MetMeets ==
    ASSUME Inv, TypeOK', task' = task, mode' = mode, NoneFound, NoneFound', NEW d \in Dirs,
           \A e \in Dirs : Grows(e), closed' = closed, NEW i, NEW c \in Nat, NEW B,
           Met(d, i, c, B), i \in DOMAIN pool'[d], Cost(d, i)' = c, Bdd(d, i)' = B,
           \A e \in Dirs : \A j \in DOMAIN pool[e] : Bdd(e, j)' = Bdd(e, j)
    PROVE  MeetOK'
<1> DEFINE o == Other(d)
<1>0. /\ TypeOK /\ MeetOK /\ o \in Dirs /\ Other(o) = d /\ o # d /\ Dirs = {d, o}
      /\ bound <= MaxCost /\ bound \in Nat /\ MaxCost \in Nat /\ goalId \in [Dirs -> Nat]
  BY ArcTurns, OtherTypes DEF Inv, TypeOK, Dirs, Other
<1>1. (Halves' <=> Halves) /\ (Halves <=> Both)
  BY DEF Halves, Both
<1>2. CASE UNCHANGED <<bound, goalId>>
  <2>1. \A e \in Dirs : Other(e) \in Dirs
    BY ArcTurns
  <2>2. \A e \in Dirs : \A j \in DOMAIN pool[e] :
            j \in DOMAIN pool'[e] /\ Cost(e, j)' = Cost(e, j) /\ Bdd(e, j)' = Bdd(e, j)
    BY DEF Grows
  <2>3. \A e \in Dirs : \A j \in closed[e] : j \in DOMAIN pool[e]
    BY <1>0, NodeTypes
  <2>4. \A e \in Dirs : Meets(e) => Meets(e)'
    BY <1>2, <2>1, <2>2, <2>3 DEF Meets
  <2> QED  BY <1>0, <1>1, <1>2, <2>4 DEF MeetOK
<1>3. CASE ~UNCHANGED <<bound, goalId>>
  <2>1. Both /\ bound' < bound /\ bound' \in Nat
    BY <1>3 DEF Met
  <2>2. PICK j \in closed[o] : /\ B \cap Bdd(o, j) # {} /\ bound' = c + Cost(o, j)
                               /\ goalId' = [goalId EXCEPT ![d] = i, ![o] = j]
    BY <1>3 DEF Met
  <2>3. goalId'[d] = i /\ goalId'[o] = j
    BY <1>0, <2>2
  <2>4. j \in DOMAIN pool[o] /\ Cost(o, j)' = Cost(o, j) /\ Bdd(o, j)' = Bdd(o, j)
    BY <1>0, <2>2, NodeTypes DEF Grows
  <2>5. Meets(d)'
    BY <2>2, <2>3, <2>4 DEF Meets
  <2>6. bound' < MaxCost
    BY <1>0, <2>1
  <2> QED  BY <1>0, <1>1, <2>1, <2>5, <2>6 DEF MeetOK, Both
<1> QED  BY <1>2, <1>3

(* The node goes from the open nodes into the hand.                          *)
LEMMA StepOnKept ==
    ASSUME Inv, NEW d \in Dirs, StepOn(d)
    PROVE  Inv'
<1>0. /\ UNCHANGED <<task, mode, pool, closed>> /\ UNCHANGED planVars
      /\ task' = task /\ mode' = mode /\ cont' = cont /\ closed' = closed /\ pool' = pool
      /\ dir' = d /\ pc' = "expand" /\ at' = at /\ cut' = cut /\ plan' = plan
  BY DEF StepOn, planVars
<1>1. PICK i \in open[d] :
          /\ IsTop(d, i) /\ Bdd(d, i) # {} /\ Popped(d, i) /\ cur' = i /\ tri' = 1
          /\ Bdd(d, i) \cap Target(d) = {} /\ Bdd(d, i) \cap AllClosed(d) = {}
          /\ Cost(d, i) <= bound /\ Meet(d, i, Cost(d, i), Bdd(d, i))
          /\ \A j \in open[d] : j # i => Cost(d, i) < Cost(d, j) /\ pool[d][j].parents = {}
  BY StepOnFacts
<1>2. /\ TypeOK /\ TaskOK /\ NodesOK /\ OpenOK /\ ClosedOK /\ FrontOK /\ SeenOK /\ MeetOK
      /\ pc = "drive" /\ cont[d] = "cont" /\ Frontier(d) /\ Ready(d) /\ NoneFound /\ Searches(d)
      /\ Both \/ mode = d
      /\ \A e : Hand(e) = {} /\ ~Expanding(e)
  BY MayStepFacts DEF StepOn, Inv
<1>3. /\ open' \in [Dirs -> SUBSET Nat] /\ open'[d] = open[d] \ {i}
      /\ \A e, j : Cost(e, j)' = Cost(e, j) /\ Bdd(e, j)' = Bdd(e, j)
      /\ \A e \in Dirs : /\ Grows(e) /\ open'[e] \subseteq open[e]
                         /\ AllClosed(e)' = AllClosed(e)
                         /\ e # d => (Ready(e)' <=> Ready(e))
                         /\ Searches(e)' <=> Searches(e)
      /\ \A e \in Dirs : e # d => open'[e] = open[e]
      /\ i \in Settled(d)' /\ i \in Nat
      /\ NodesOK' /\ ClosedOK'
      /\ \A e \in Dirs :
            /\ open'[e] \cap closed[e] = {}
            /\ ~Searches(e) => open'[e] = {} /\ closed[e] = {}
            /\ \A k \in closed[e] : \A j \in open'[e] : Cost(e, k) < Cost(e, j)
  BY <1>0, <1>1, PopFacts
<1>4. /\ i \in DOMAIN pool[d] /\ i \notin closed[d] /\ Cost(d, i) \in Nat
      /\ \A k \in closed[d] : Cost(d, k) < Cost(d, i)
  BY <1>2, NodeTypes DEF OpenOK
<1>5. Met(d, i, Cost(d, i), Bdd(d, i)) /\ goalId' \in [Dirs -> Nat]
  BY <1>1, <1>2, <1>3, <1>4, MeetFacts
<1>6. bound' \in Nat /\ bound' <= bound /\ bound' \in 0..MaxCost
  <2>1. bound' \in Nat /\ bound' <= bound /\ bound \in Nat /\ bound <= MaxCost /\ MaxCost \in Nat
    BY <1>2, <1>5, OtherTypes DEF Met
  <2> QED  BY <2>1
<1>7. /\ Hand(d)' = Bdd(d, i) /\ Expanding(d)'
      /\ \A e \in Dirs : e # d => Hand(e)' = {} /\ ~Expanding(e)'
  BY <1>0, <1>1 DEF Hand, Expanding, Bdd
<1>8. TypeOK'
  <2>1. tri' \in 1..LastTrans' + 1
    <3>1. LastTrans' = LastTrans /\ LastTrans \in Nat
      BY <1>0, <1>2, SameTask, TaskFacts
    <3> QED  BY <1>1, <3>1
  <2>2. \A e \in Dirs : open'[e] \cup closed[e] \subseteq DOMAIN pool[e]
    BY <1>2, <1>3, NodeTypes
  <2>3. {open', closed'} \subseteq [Dirs -> SUBSET Nat]
    BY <1>0, <1>2, <1>3, OtherTypes
  <2>4. /\ pool \in [Dirs -> Seq([cost : Nat, parent : Nat, parents : SUBSET Nat,
                                 trans : Nat, bdd : SUBSET task.states])]
        /\ cont \in [Dirs -> {"cont", "found", "notexist", "abort"}]
        /\ {at, cut} \subseteq task.states /\ plan \in Seq(task.states \X Nat \X task.states)
    BY <1>2 DEF TypeOK
  <2> QED  BY <1>0, <1>1, <1>3, <1>5, <1>6, <2>1, <2>2, <2>3, <2>4 DEF TypeOK
<1>9. TaskOK' /\ PlanOK' /\ TraceOK' /\ EndOK'
  BY <1>0, <1>2, NoPlanYet
<1>10. OpenOK'
  <2>1. \A e \in Dirs :
            /\ (cont[e] = "cont" /\ ~Expanding(e)') => Ready(e)'
            /\ cont[e] = "notexist" => mode = e /\ open'[e] = {}
            /\ cont[e] = "abort" => mode = "fwbw" /\ e = "bw"
    <3> SUFFICES ASSUME NEW e \in Dirs
                 PROVE  /\ (cont[e] = "cont" /\ ~Expanding(e)') => Ready(e)'
                        /\ cont[e] = "notexist" => mode = e /\ open'[e] = {}
                        /\ cont[e] = "abort" => mode = "fwbw" /\ e = "bw"
      OBVIOUS
    <3>1. CASE e = d
      BY <1>2, <1>7, <3>1
    <3>2. CASE e # d
      BY <1>2, <1>3, <3>2 DEF OpenOK
    <3> QED  BY <3>1, <3>2
  <2> QED  BY <1>0, <1>3, <2>1 DEF OpenOK
<1>11. HandOK'
  <2>1. \A s \in Bdd(d, i) : Exact(d, s, Cost(d, i)) /\ s \notin Target(d)
    <3>1. \A s \in Bdd(d, i) : Exact(d, s, Cost(d, i))
      BY <1>1, <1>2, TopExact DEF Inv
    <3> QED  BY <1>1, <3>1
  <2>2. \A j \in open'[d] : Cost(d, i) < Cost(d, j) /\ pool[d][j].parents = {}
    BY <1>1, <1>3
  <2>3. /\ Cost(d, i)' = Cost(d, i) /\ Bdd(d, i)' = Bdd(d, i) /\ AllClosed(d)' = AllClosed(d)
        /\ Searches(d)'
    BY <1>2, <1>3
  <2>4. /\ (cur \in Settled(dir) \ closed[dir])' /\ Searches(dir)' /\ (cont[dir] = "cont")'
    BY <1>0, <1>1, <1>2, <1>3, <1>4, <2>3
  <2>5. (\A k \in closed[dir] : Cost(dir, k) < Cost(dir, cur))'
    BY <1>0, <1>1, <1>3, <1>4
  <2>6. (\A k \in open[dir] : Cost(dir, cur) < Cost(dir, k) /\ pool[dir][k].parents = {})'
    BY <1>0, <1>1, <1>3, <2>2
  <2>7. (Bdd(dir, cur) # {} /\ Bdd(dir, cur) \cap AllClosed(dir) = {})'
    BY <1>0, <1>1, <2>3
  <2>8. (\A s \in Bdd(dir, cur) : Exact(dir, s, Cost(dir, cur)) /\ s \notin Target(dir))'
    BY <1>0, <1>1, <2>1, <2>3, SameTask
  <2> QED  BY <2>4, <2>5, <2>6, <2>7, <2>8 DEF HandOK
<1>12. FrontOK'
  <2>1. \A e \in Dirs : Shifts(e)
    BY <1>0, <1>1, <1>2, <1>7, PopShifts
  <2>2. \A e \in Dirs : Frontier(e) => Frontier(e)'
    BY <1>0, <1>2, <1>3, <1>6, <2>1, FrontierKept
  <2>3. ASSUME NEW e \in Dirs, Searches(e)
        PROVE  Frontier(e)' \/ (e = "bw" /\ cont'[e] = "abort" /\ Lost')
    <3>1. CASE Frontier(e)
      BY <2>2, <3>1
    <3>2. CASE ~Frontier(e)
      <4>1. e # d /\ e = "bw" /\ cont[e] = "abort" /\ Lost
        BY <1>2, <2>3, <3>2 DEF FrontOK
      <4> QED  BY <1>0, <1>3, <4>1 DEF Lost
    <3> QED  BY <3>1, <3>2
  <2>4. 1..tri' - 1 = {}
    BY <1>1
  <2> QED  BY <1>0, <1>2, <1>3, <2>3, <2>4 DEF FrontOK
<1>13. SeenOK'
  <2>1. \A e \in Dirs : \A k \in closed[e] : Seen(e, k)' /\ \A n \in Trans : Bridged(e, k, n)'
    BY <1>0, <1>3, <1>6, OldNodes
  <2>2. Seen(d, i)'
    <3>1. Other(d) \in Dirs
      BY ArcTurns
    <3>2. CASE Both
      BY <1>0, <1>3, <1>5, <3>2 DEF Met, Seen
    <3>3. CASE ~Both
      <4>1. closed[Other(d)] = {}
        BY <1>2, <1>3, <3>1, <3>3, ArcTurns DEF Searches, Both
      <4> QED  BY <1>0, <4>1 DEF Seen
    <3> QED  BY <3>2, <3>3
  <2>3. 1..tri' - 1 = {}
    BY <1>1
  <2> QED  BY <1>0, <1>1, <2>1, <2>2, <2>3, SameTask DEF SeenOK, Trans
<1>14. MeetOK'
  <2>1. NoneFound'
    BY <1>0, <1>2 DEF NoneFound
  <2>2. /\ i \in DOMAIN pool'[d] /\ Cost(d, i)' = Cost(d, i) /\ Bdd(d, i)' = Bdd(d, i)
        /\ \A e \in Dirs : Grows(e)
        /\ \A e \in Dirs : \A j \in DOMAIN pool[e] : Bdd(e, j)' = Bdd(e, j)
    BY <1>0, <1>3, <1>4
  <2> QED  BY <1>0, <1>2, <1>4, <1>5, <1>8, <2>1, <2>2, MetMeets
<1> QED  BY <1>3, <1>8, <1>9, <1>10, <1>11, <1>12, <1>13, <1>14 DEF Inv

(* The node in hand i gets a child k of cost c by relation n.                *)
LEMMA ChildFacts ==
    ASSUME Inv, UNCHANGED <<task, mode, closed>>, pc = "expand", tri <= LastTrans,
           ChildCost < bound, NEW d \in Dirs, d = dir, NEW i, i = cur, NEW n, n = tri,
           NEW k, k = NewId, NEW c, c = ChildCost, NEW B \in SUBSET ChildBdd, AddChild(B)
    PROVE  /\ n \in Trans /\ i \in DOMAIN pool[d] /\ i \notin open[d] /\ k \notin DOMAIN pool[d]
           /\ k \in Nat /\ c \in Nat /\ c = Cost(d, i) + Weight(n) /\ c < bound
           /\ open'[d] = open[d] \cup {k}
           /\ Cost(d, k)' = c /\ Bdd(d, k)' = B /\ pool'[d][k].parents = {}
           /\ pool' \in [Dirs -> Seq(NodeRec)] /\ open' \in [Dirs -> SUBSET Nat]
           /\ DOMAIN pool'[d] = DOMAIN pool[d] \cup {k}
           /\ \A e \in Dirs : \A j \in DOMAIN pool[e] :
                 pool'[e][j] = pool[e][j] /\ Cost(e, j)' = Cost(e, j) /\ Bdd(e, j)' = Bdd(e, j)
           /\ \A e \in Dirs : /\ Grows(e) /\ AllClosed(e)' = AllClosed(e)
                              /\ Settled(e) \subseteq Settled(e)'
                              /\ (Searches(e)' <=> Searches(e))
                              /\ open'[e] \cup closed[e] \subseteq DOMAIN pool'[e]
           /\ \A e \in Dirs : e # d => /\ pool'[e] = pool[e] /\ open'[e] = open[e]
                                       /\ (Ready(e)' <=> Ready(e))
           /\ NodesOK' /\ ClosedOK'
           /\ \A e \in Dirs :
                 /\ open'[e] \cap closed[e] = {}
                 /\ ~Searches(e) => open'[e] = {} /\ closed[e] = {}
                 /\ \A x \in closed[e] : \A j \in open'[e] : Cost(e, x) < Cost(e, j)'
<1>0. /\ TypeOK /\ TaskOK /\ OpenOK /\ HandOK /\ task' = task /\ mode' = mode /\ closed' = closed
      /\ d \in Dirs /\ Other(d) \in Dirs /\ Dirs = {d, Other(d)} /\ Other(d) # d
      /\ bound \in Nat /\ MaxCost \in Nat /\ bound <= MaxCost
  BY OtherTypes, ArcTurns DEF Inv, Dirs, Other
<1>1. /\ i \in Settled(d) \ closed[d] /\ Searches(d)
      /\ \A x \in closed[d] : Cost(d, x) < Cost(d, i)
      /\ \A s \in Bdd(d, i) : Exact(d, s, Cost(d, i))
  BY <1>0 DEF HandOK
<1>2. i \in DOMAIN pool[d] /\ i \notin open[d] /\ Cost(d, i) \in Nat /\ i # NoNode
  <2>1. i \in DOMAIN pool[d] /\ i \notin open[d]
    BY <1>1 DEF Settled
  <2> QED  BY <1>0, <2>1, NodeTypes DEF NoNode
<1>3. n \in Trans /\ Weight(n) \in Nat \ {0}
  <2>1. tri \in 1..LastTrans + 1 /\ LastTrans \in Nat
    BY <1>0, TaskFacts DEF TypeOK
  <2>2. n \in Trans
    BY <2>1 DEF Trans
  <2> QED  BY <1>0, <2>2, TaskFacts
<1>4. ChildBdd = Image(d, task.trans[n], Bdd(d, i)) \ AllClosed(d) /\ B \in SUBSET task.states
  BY <1>0, <1>3, ImageIs DEF ChildBdd
<1>5. Added(B) /\ c \in Nat /\ c = Cost(d, i) + Weight(n)
  BY <1>0, <1>2, <1>3, <1>4, AddFacts
<1>6. /\ k \in Nat /\ k \notin DOMAIN pool[d]
      /\ pool' \in [Dirs -> Seq(NodeRec)] /\ open' \in [Dirs -> SUBSET Nat]
      /\ DOMAIN pool'[d] = DOMAIN pool[d] \cup {k} /\ open'[d] = open[d] \cup {k}
      /\ \A j \in DOMAIN pool[d] : pool'[d][j] = pool[d][j]
      /\ pool'[d][k] = Child(c, i, n, B)
      /\ pool'[Other(d)] = pool[Other(d)] /\ open'[Other(d)] = open[Other(d)]
  BY <1>5 DEF Added
<1>7. /\ Cost(d, k)' = c /\ Bdd(d, k)' = B /\ pool'[d][k].parents = {}
      /\ pool'[d][k].parent = i /\ pool'[d][k].trans = n
  BY <1>6 DEF Cost, Bdd, Child
<1>8. \A e \in Dirs : \A j \in DOMAIN pool[e] :
          /\ j \in DOMAIN pool'[e]
          /\ pool'[e][j] = pool[e][j] /\ Cost(e, j)' = Cost(e, j) /\ Bdd(e, j)' = Bdd(e, j)
  BY <1>0, <1>6 DEF Cost, Bdd
<1>9. \A e \in Dirs : open[e] \subseteq DOMAIN pool[e] /\ closed[e] \subseteq DOMAIN pool[e]
  BY <1>0, NodeTypes
<1>10. \A e \in Dirs : /\ open'[e] \cup closed[e] \subseteq DOMAIN pool'[e]
                       /\ \A j \in DOMAIN pool[e] : j \notin open[e] => j \notin open'[e]
  BY <1>0, <1>6, <1>9
<1>11. \A e \in Dirs : Grows(e) /\ Settled(e) \subseteq Settled(e)' /\ (Searches(e)' <=> Searches(e))
  <2>1. \A e \in Dirs : Grows(e)
    BY <1>8, <1>10 DEF Grows
  <2>2. \A e \in Dirs : Settled(e) \subseteq Settled(e)' /\ (Searches(e)' <=> Searches(e))
    BY <1>0, <1>8, <1>10 DEF Settled, Searches
  <2> QED  BY <2>1, <2>2
<1>12. ClosedOK' /\ (\A e \in Dirs : AllClosed(e)' = AllClosed(e))
       /\ \A e \in Dirs : \A j \in DOMAIN pool[e] : NodeOK(e, j)'
  BY <1>0, <1>11, OldNodes
<1>13. NodeOK(d, k)'
  <2>1. c <= MaxCost
    BY <1>0, <1>5
  <2>2. ASSUME NEW s \in B PROVE Within(d, s, c)
    <3>1. s \in Image(d, task.trans[n], Bdd(d, i))
      BY <1>4
    <3>2. PICK x \in Bdd(d, i) : Arc(d, n, x, s)
      BY <1>0, <1>3, <3>1, ImageIs
    <3> QED  BY <1>0, <1>1, <1>3, <1>5, <3>2, WalkOn
  <2>3. IsChild(d, k)'
    <3>1. i \in Settled(d)' /\ Cost(d, i)' = Cost(d, i) /\ Bdd(d, i)' = Bdd(d, i)
      BY <1>1, <1>2, <1>8, <1>11
    <3>2. Weight(n)' = Weight(n) /\ LastTrans' = LastTrans /\ n \in 1..LastTrans
      BY <1>0, <1>3, SameTask DEF Trans
    <3>3. B \subseteq Image(d, task.trans[n], Bdd(d, i))'
      BY <1>0, <1>4, <3>1 DEF Image
    <3> QED  BY <1>0, <1>5, <1>7, <3>1, <3>2, <3>3 DEF IsChild
  <2>4. \A s \in Bdd(d, k)' : Within(d, s, Cost(d, k))'
    BY <1>0, <1>7, <2>2, SameTask
  <2> QED  BY <1>2, <1>7, <2>1, <2>3, <2>4 DEF NodeOK, NoNode
<1>14. NodesOK'
  <2>1. \A e \in Dirs : \A j \in DOMAIN pool'[e] : NodeOK(e, j)'
    BY <1>0, <1>6, <1>12, <1>13
  <2> QED  BY <2>1, NodesOKIf
<1>15. ASSUME NEW e \in Dirs, e # d
       PROVE  pool'[e] = pool[e] /\ open'[e] = open[e] /\ (Ready(e)' <=> Ready(e))
  <2>1. pool'[e] = pool[e] /\ open'[e] = open[e] /\ AllClosed(e)' = AllClosed(e)
    BY <1>0, <1>6, <1>12, <1>15
  <2>2. \A j : Cost(e, j)' = Cost(e, j) /\ Bdd(e, j)' = Bdd(e, j)
    BY <2>1 DEF Cost, Bdd
  <2>3. \A j : IsTop(e, j)' <=> IsTop(e, j)
    BY <2>1, <2>2 DEF IsTop
  <2> QED  BY <2>1, <2>2, <2>3 DEF Ready
<1>16. ASSUME NEW e \in Dirs
       PROVE  /\ open'[e] \cap closed[e] = {}
              /\ ~Searches(e) => open'[e] = {} /\ closed[e] = {}
              /\ \A x \in closed[e] : \A j \in open'[e] : Cost(e, x) < Cost(e, j)'
  <2>1. CASE e = d
    <3>1. open'[d] \cap closed[d] = {}
      BY <1>0, <1>6, <1>9 DEF OpenOK
    <3>2. ASSUME NEW x \in closed[d], NEW j \in open'[d] PROVE Cost(d, x) < Cost(d, j)'
      <4>1. CASE j = k
        <5>1. Cost(d, x) \in Nat /\ Cost(d, x) < Cost(d, i)
          BY <1>0, <1>1, NodeTypes
        <5> QED  BY <1>2, <1>3, <1>5, <1>7, <4>1, <5>1
      <4>2. CASE j # k
        BY <1>0, <1>6, <1>8, <1>9, <3>2, <4>2 DEF OpenOK
      <4> QED  BY <4>1, <4>2
    <3> QED  BY <1>1, <2>1, <3>1, <3>2
  <2>2. CASE e # d
    BY <1>0, <1>8, <1>9, <1>15, <2>2 DEF OpenOK
  <2> QED  BY <2>1, <2>2
<1> HIDE DEF NewId
<1> QED  BY <1>2, <1>3, <1>5, <1>6, <1>7, <1>8, <1>10, <1>11, <1>12, <1>14, <1>15, <1>16

(* The node in hand is expanded by one relation more.                        *)
LEMMA ExpandChildKept ==
    ASSUME Inv, ExpandChild
    PROVE  Inv'
<1>0. /\ UNCHANGED <<task, mode, closed>> /\ UNCHANGED planVars
      /\ task' = task /\ mode' = mode /\ cont' = cont /\ closed' = closed
      /\ dir' = dir /\ cur' = cur /\ pc' = pc /\ pc = "expand" /\ tri' = tri + 1
      /\ at' = at /\ cut' = cut /\ plan' = plan
      /\ tri <= LastTrans /\ ChildCost < bound /\ AddChild(ChildBdd)
      /\ Meet(dir, NewId, ChildCost, ChildBdd)
  BY DEF ExpandChild, planVars, NewId
<1>1. /\ TypeOK /\ TaskOK /\ OpenOK /\ HandOK /\ ClosedOK /\ FrontOK /\ SeenOK /\ MeetOK
      /\ NoneFound /\ dir \in Dirs
  BY <1>0, OtherTypes DEF Inv, MeetOK
<1>2. PICK d \in Dirs : d = dir
  BY <1>1
<1>3. PICK i, n, k, c, B : i = cur /\ n = tri /\ k = NewId /\ c = ChildCost /\ B = ChildBdd
  OBVIOUS
<1>4. /\ n \in Trans /\ i \in DOMAIN pool[d] /\ i \notin open[d] /\ k \notin DOMAIN pool[d]
      /\ k \in Nat /\ c \in Nat /\ c = Cost(d, i) + Weight(n) /\ c < bound
      /\ open'[d] = open[d] \cup {k}
      /\ Cost(d, k)' = c /\ Bdd(d, k)' = B /\ pool'[d][k].parents = {}
      /\ pool' \in [Dirs -> Seq(NodeRec)] /\ open' \in [Dirs -> SUBSET Nat]
      /\ DOMAIN pool'[d] = DOMAIN pool[d] \cup {k}
  BY <1>0, <1>2, <1>3, ChildFacts
<1>5. /\ \A e \in Dirs : \A j \in DOMAIN pool[e] :
            pool'[e][j] = pool[e][j] /\ Cost(e, j)' = Cost(e, j) /\ Bdd(e, j)' = Bdd(e, j)
      /\ \A e \in Dirs : /\ Grows(e) /\ AllClosed(e)' = AllClosed(e)
                         /\ Settled(e) \subseteq Settled(e)'
                         /\ (Searches(e)' <=> Searches(e))
                         /\ open'[e] \cup closed[e] \subseteq DOMAIN pool'[e]
      /\ \A e \in Dirs : e # d => /\ pool'[e] = pool[e] /\ open'[e] = open[e]
                                  /\ (Ready(e)' <=> Ready(e))
  BY <1>0, <1>2, <1>3, ChildFacts
<1>6. /\ NodesOK' /\ ClosedOK'
      /\ \A e \in Dirs :
            /\ open'[e] \cap closed[e] = {}
            /\ ~Searches(e) => open'[e] = {} /\ closed[e] = {}
            /\ \A x \in closed[e] : \A j \in open'[e] : Cost(e, x) < Cost(e, j)'
  BY <1>0, <1>2, <1>3, ChildFacts
<1>7. /\ i \in Settled(d) \ closed[d] /\ Searches(d) /\ cont[d] = "cont"
      /\ \A x \in closed[d] : Cost(d, x) < Cost(d, i)
      /\ \A j \in open[d] : Cost(d, i) < Cost(d, j) /\ pool[d][j].parents = {}
      /\ Bdd(d, i) # {} /\ Bdd(d, i) \cap AllClosed(d) = {}
      /\ \A s \in Bdd(d, i) : Exact(d, s, Cost(d, i)) /\ s \notin Target(d)
  BY <1>0, <1>1, <1>2, <1>3 DEF HandOK
<1>8. /\ Cost(d, i) \in Nat /\ Weight(n) \in Nat \ {0} /\ bound \in Nat /\ Cost(d, i) < c
      /\ \A e \in Dirs : \A x \in closed[e] : Cost(e, x) \in Nat /\ x \in DOMAIN pool[e]
      /\ \A e \in Dirs : \A x \in open[e] : Cost(e, x) \in Nat /\ x \in DOMAIN pool[e]
  <2>1. Cost(d, i) \in Nat /\ Weight(n) \in Nat \ {0} /\ bound \in Nat
    BY <1>1, <1>4, NodeTypes, OtherTypes, TaskFacts
  <2> QED  BY <1>1, <1>4, <2>1, NodeTypes
<1>9. Met(d, k, c, B) /\ goalId' \in [Dirs -> Nat]
  BY <1>0, <1>1, <1>2, <1>3, <1>4, MeetFacts
<1>10. bound' \in Nat /\ bound' <= bound /\ bound' \in 0..MaxCost
  <2>1. bound' \in Nat /\ bound' <= bound /\ bound \in Nat /\ bound <= MaxCost /\ MaxCost \in Nat
    BY <1>1, <1>9, OtherTypes DEF Met
  <2> QED  BY <2>1
<1>11. /\ dir' = d /\ cur' = i /\ tri' = n + 1 /\ n \in Nat /\ n + 1 - 1 = n
       /\ \A m \in 1..n : m \in Trans /\ (m \in 1..tri - 1 \/ m = n)
  <2>1. LastTrans \in Nat
    BY <1>1, TaskFacts
  <2>2. n \in 1..LastTrans
    BY <1>4 DEF Trans
  <2>3. \A m \in 1..n : m \in 1..LastTrans /\ (m \in 1..n - 1 \/ m = n)
    BY <2>1, <2>2
  <2> QED  BY <1>0, <1>2, <1>3, <2>2, <2>3 DEF Trans
<1>12. /\ \A e \in Dirs : Expanding(e)' <=> e = d
       /\ Hand(d) = Bdd(d, i) /\ Hand(d)' = Bdd(d, i)
       /\ \A e \in Dirs : e # d => Hand(e) = {} /\ Hand(e)' = {}
  <2>1. Bdd(d, i)' = Bdd(d, i)
    BY <1>4, <1>5
  <2>2. \A e \in Dirs : (Expanding(e)' <=> e = d) /\ (Expanding(e) <=> e = d)
    BY <1>0, <1>2 DEF Expanding
  <2>3. Hand(d) = Bdd(d, i)
    BY <1>3, <2>2 DEF Hand
  <2>4. Hand(d)' = Bdd(d, cur)'
    BY <2>2 DEF Hand
  <2>5. Bdd(d, cur)' = Bdd(d, i)
    BY <1>11, <2>1 DEF Bdd
  <2>6. \A e \in Dirs : e # d => Hand(e) = {} /\ Hand(e)' = {}
    BY <2>2 DEF Hand
  <2> QED  BY <2>2, <2>3, <2>4, <2>5, <2>6
<1>13. TypeOK'
  <2>1. tri' \in 1..LastTrans' + 1 /\ cur' \in Nat
    <3>1. LastTrans' = LastTrans /\ LastTrans \in Nat
      BY <1>0, <1>1, SameTask, TaskFacts
    <3>2. n \in 1..LastTrans
      BY <1>4 DEF Trans
    <3>3. n + 1 \in 1..LastTrans + 1
      BY <3>1, <3>2
    <3>4. cur \in Nat
      BY <1>1 DEF TypeOK
    <3> QED  BY <1>0, <1>11, <3>1, <3>3, <3>4
  <2>2. \A e \in Dirs : open'[e] \cup closed'[e] \subseteq DOMAIN pool'[e]
    BY <1>0, <1>5
  <2>3. {open', closed'} \subseteq [Dirs -> SUBSET Nat]
    BY <1>0, <1>1, <1>4, OtherTypes
  <2>4. /\ cont \in [Dirs -> {"cont", "found", "notexist", "abort"}]
        /\ {at, cut} \subseteq task.states /\ plan \in Seq(task.states \X Nat \X task.states)
    BY <1>1 DEF TypeOK
  <2>5. pool' \in [Dirs -> Seq([cost : Nat, parent : Nat, parents : SUBSET Nat,
                                trans : Nat, bdd : SUBSET task'.states])]
    BY <1>0, <1>4 DEF NodeRec
  <2> QED  BY <1>0, <1>9, <1>10, <1>11, <2>1, <2>2, <2>3, <2>4, <2>5 DEF TypeOK
<1>14. TaskOK' /\ PlanOK' /\ TraceOK' /\ EndOK'
  BY <1>0, NoPlanYet
<1>15. OpenOK'
  <2>1. \A e \in Dirs : \A x \in closed[e] : Cost(e, x)' = Cost(e, x)
    BY <1>5, <1>8
  <2>2. \A e \in Dirs :
            /\ (cont[e] = "cont" /\ ~Expanding(e)') => Ready(e)'
            /\ cont[e] = "notexist" => mode = e /\ open'[e] = {}
            /\ cont[e] = "abort" => mode = "fwbw" /\ e = "bw"
    <3> SUFFICES ASSUME NEW e \in Dirs
                 PROVE  /\ (cont[e] = "cont" /\ ~Expanding(e)') => Ready(e)'
                        /\ cont[e] = "notexist" => mode = e /\ open'[e] = {}
                        /\ cont[e] = "abort" => mode = "fwbw" /\ e = "bw"
      OBVIOUS
    <3>1. CASE e = d
      BY <1>7, <1>12, <3>1
    <3>2. CASE e # d
      <4>1. ~Expanding(e)
        BY <1>2, <3>2 DEF Expanding
      <4> QED  BY <1>1, <1>5, <3>2, <4>1 DEF OpenOK
    <3> QED  BY <3>1, <3>2
  <2> QED  BY <1>0, <1>5, <1>6, <2>1, <2>2 DEF OpenOK
<1>16. HandOK'
  <2>1. Cost(d, i)' = Cost(d, i) /\ Bdd(d, i)' = Bdd(d, i) /\ AllClosed(d)' = AllClosed(d)
    BY <1>4, <1>5
  <2>2. (cur \in Settled(dir) \ closed[dir])' /\ Searches(dir)' /\ (cont[dir] = "cont")'
    BY <1>0, <1>5, <1>7, <1>11
  <2>3. (\A x \in closed[dir] : Cost(dir, x) < Cost(dir, cur))'
    BY <1>0, <1>5, <1>7, <1>8, <1>11, <2>1
  <2>4. \A j \in open'[d] : Cost(d, i) < Cost(d, j)' /\ pool'[d][j].parents = {}
    <3>1. \A j \in open[d] : Cost(d, i) < Cost(d, j)' /\ pool'[d][j].parents = {}
      BY <1>5, <1>7, <1>8
    <3> QED  BY <1>4, <1>8, <3>1
  <2>5. (\A j \in open[dir] : Cost(dir, cur) < Cost(dir, j) /\ pool[dir][j].parents = {})'
    BY <1>11, <2>1, <2>4
  <2>6. (Bdd(dir, cur) # {} /\ Bdd(dir, cur) \cap AllClosed(dir) = {})'
    BY <1>7, <1>11, <2>1
  <2>7. (\A s \in Bdd(dir, cur) : Exact(dir, s, Cost(dir, cur)) /\ s \notin Target(dir))'
    BY <1>0, <1>7, <1>11, <2>1, SameTask
  <2> QED  BY <2>2, <2>3, <2>5, <2>6, <2>7 DEF HandOK
<1>17. \A e \in Dirs : Shifts(e)
  <2> SUFFICES ASSUME NEW e \in Dirs PROVE Shifts(e)
    OBVIOUS
  <2>1. AllClosed(e)' = AllClosed(e) /\ Hand(e)' = Hand(e)
    BY <1>5, <1>12
  <2>2. open[e] \subseteq open'[e]
    BY <1>4, <1>5
  <2>3. \A j \in open[e] : /\ Cost(e, j)' = Cost(e, j) /\ Bdd(e, j)' = Bdd(e, j)
                           /\ Cost(e, j) \in Nat /\ Cost(e, j) <= Cost(e, j)
    BY <1>5, <1>8
  <2> QED  BY <2>1, <2>2, <2>3 DEF Shifts
<1>18. FrontOK'
  <2>1. \A e \in Dirs : Frontier(e) => Frontier(e)'
    BY <1>0, <1>1, <1>5, <1>10, <1>17, FrontierKept
  <2>2. ASSUME NEW e \in Dirs, Searches(e)
        PROVE  Frontier(e)' \/ (e = "bw" /\ cont'[e] = "abort" /\ Lost')
    <3>1. CASE Frontier(e)
      BY <2>1, <3>1
    <3>2. CASE ~Frontier(e)
      <4>1. e = "bw" /\ cont[e] = "abort" /\ Lost /\ e # d
        BY <1>0, <1>1, <1>7, <2>2, <3>2 DEF FrontOK
      <4> QED  BY <1>0, <1>5, <4>1 DEF Lost, Cost
    <3> QED  BY <3>1, <3>2
  <2>3. \A m \in 1..n : Followed(d, i, m)'
    <3>1. ASSUME NEW m \in 1..tri - 1, m \in Trans PROVE Followed(d, i, m)'
      <4>1. Followed(d, i, m)
        BY <1>0, <1>1, <1>2, <1>3, <3>1 DEF FrontOK
      <4> QED  BY <1>0, <1>1, <1>4, <1>5, <1>10, <1>17, <3>1, <4>1, FollowedKept
    <3>2. Followed(d, i, n)'
      <4>1. /\ Image(d, task.trans[n], Bdd(d, i))' = Image(d, task.trans[n], Bdd(d, i))
            /\ (Cost(d, i) + Weight(n))' = c
        BY <1>0, <1>4, <1>5, SameTask DEF Image
      <4>2. Image(d, task.trans[n], Bdd(d, i)) \subseteq AllClosed(d) \cup B
        BY <1>2, <1>3 DEF ChildBdd
      <4>3. k \in open'[d] /\ Cost(d, k)' <= c
        BY <1>4
      <4>4. \A s \in AllClosed(d) \cup B : Covered(d, s, c)'
        BY <1>4, <1>5, <4>3 DEF Covered
      <4>5. (\A s \in Image(d, task.trans[n], Bdd(d, i)) : Covered(d, s, Cost(d, i) + Weight(n)))'
        BY <4>1, <4>2, <4>4
      <4> QED  BY <4>5 DEF Followed
    <3> QED  BY <1>11, <3>1, <3>2
  <2>4. (\A m \in 1..tri - 1 : Followed(dir, cur, m))'
    BY <1>11, <2>3
  <2> QED  BY <1>0, <1>5, <2>2, <2>4 DEF FrontOK
<1>19. SeenOK'
  <2>0. Other(d) \in Dirs /\ Other(d) # d
    BY ArcTurns
  <2>1. \A e \in Dirs : \A x \in closed[e] : Seen(e, x)' /\ \A m \in Trans : Bridged(e, x, m)'
    BY <1>0, <1>5, <1>10, OldNodes
  <2>2. /\ Seen(d, i) => Seen(d, i)'
        /\ \A m \in Trans : Bridged(d, i, m) => Bridged(d, i, m)'
    BY <1>0, <1>1, <1>4, <1>5, <1>10, <2>0, SeenKept
  <2>3. Seen(d, i) /\ \A m \in 1..tri - 1 : Bridged(d, i, m)
    BY <1>0, <1>1, <1>2, <1>3 DEF SeenOK
  <2>4. Bridged(d, i, n)'
    <3>1. /\ Image(d, task.trans[n], Bdd(d, i))' = Image(d, task.trans[n], Bdd(d, i))
          /\ (Cost(d, i) + Weight(n))' = c
      BY <1>0, <1>4, <1>5, SameTask DEF Image
    <3>2. ASSUME NEW j \in closed[Other(d)],
                 Image(d, task.trans[n], Bdd(d, i)) \cap Bdd(Other(d), j) # {}
          PROVE  bound' <= c + Cost(Other(d), j)
      <4>1. Both
        BY <1>1, <1>7, <2>0, <3>2 DEF OpenOK, Searches, Both, Dirs
      <4>2. PICK y \in Image(d, task.trans[n], Bdd(d, i)) : y \in Bdd(Other(d), j)
        BY <3>2
      <4>3. CASE y \in B
        BY <1>9, <4>1, <4>2, <4>3 DEF Met
      <4>4. CASE y \notin B
        <5>1. y \in AllClosed(d)
          BY <1>2, <1>3, <4>4 DEF ChildBdd
        <5>2. PICK x \in closed[d] : y \in Bdd(d, x)
          BY <5>1, ClosedStates
        <5>3. Seen(d, x)
          BY <1>1 DEF SeenOK
        <5>4. bound <= Cost(d, x) + Cost(Other(d), j)
          BY <4>2, <5>2, <5>3 DEF Seen
        <5>5. Cost(d, x) < Cost(d, i)
          BY <1>7
        <5>6. /\ Cost(d, x) \in Nat /\ Cost(Other(d), j) \in Nat /\ Cost(d, i) \in Nat
              /\ bound \in Nat /\ bound' \in Nat /\ c \in Nat /\ bound' <= bound /\ Cost(d, i) < c
          BY <1>4, <1>8, <1>10, <2>0
        <5> QED  BY <5>4, <5>5, <5>6
      <4> QED  BY <4>3, <4>4
    <3>3. \A j \in closed[Other(d)] :
             Cost(Other(d), j)' = Cost(Other(d), j) /\ Bdd(Other(d), j)' = Bdd(Other(d), j)
      BY <1>5, <1>8, <2>0
    <3> QED  BY <1>0, <3>1, <3>2, <3>3 DEF Bridged
  <2>5. \A m \in 1..n : Bridged(d, i, m)'
    BY <1>11, <2>2, <2>3, <2>4
  <2>6. (Seen(dir, cur) /\ \A m \in 1..tri - 1 : Bridged(dir, cur, m))'
    BY <1>11, <2>2, <2>3, <2>5
  <2> QED  BY <1>0, <2>1, <2>6, SameTask DEF SeenOK, Trans
<1>20. MeetOK'
  <2>1. NoneFound'
    BY <1>0, <1>1 DEF NoneFound
  <2>2. k \in DOMAIN pool'[d] /\ \A e \in Dirs : \A j \in DOMAIN pool[e] : Bdd(e, j)' = Bdd(e, j)
    BY <1>4, <1>5
  <2> QED  BY <1>0, <1>1, <1>4, <1>5, <1>9, <1>13, <2>1, <2>2, MetMeets
<1> QED  BY <1>6, <1>13, <1>14, <1>15, <1>16, <1>18, <1>19, <1>20 DEF Inv

(* The image is not ready in time: the child has no states, but costs little *)
(* enough for the search to go on until the other direction finds a plan.    *)
LEMMA ExpandTimeOutKept ==
    ASSUME Inv, ExpandTimeOut
    PROVE  Inv'
<1>0. /\ UNCHANGED <<task, mode, closed>> /\ UNCHANGED planVars
      /\ task' = task /\ mode' = mode /\ closed' = closed
      /\ dir' = dir /\ cur' = cur /\ pc' = "drive" /\ pc = "expand" /\ tri' = tri
      /\ at' = at /\ cut' = cut /\ plan' = plan /\ bound' = bound /\ goalId' = goalId
      /\ cont' = [cont EXCEPT ![dir] = "abort"] /\ mode = "fwbw" /\ dir = "bw"
      /\ tri <= LastTrans /\ ChildCost < bound /\ AddChild({})
  BY DEF ExpandTimeOut, planVars, stepVars, Limited, Both
<1>1. /\ TypeOK /\ TaskOK /\ OpenOK /\ HandOK /\ ClosedOK /\ FrontOK /\ SeenOK /\ MeetOK
      /\ NoneFound /\ dir \in Dirs
  BY <1>0, OtherTypes DEF Inv, MeetOK
<1>2. PICK d \in Dirs : d = dir
  BY <1>1
<1>3. PICK i, n, k, c : i = cur /\ n = tri /\ k = NewId /\ c = ChildCost
  OBVIOUS
<1>4. /\ n \in Trans /\ i \in DOMAIN pool[d]
      /\ k \in Nat /\ c \in Nat /\ c = Cost(d, i) + Weight(n)
      /\ open'[d] = open[d] \cup {k} /\ Cost(d, k)' = c /\ Bdd(d, k)' = {}
      /\ pool' \in [Dirs -> Seq(NodeRec)] /\ open' \in [Dirs -> SUBSET Nat]
      /\ DOMAIN pool'[d] = DOMAIN pool[d] \cup {k}
  BY <1>0, <1>2, <1>3, ChildFacts
<1>5. /\ \A e \in Dirs : \A j \in DOMAIN pool[e] :
            pool'[e][j] = pool[e][j] /\ Cost(e, j)' = Cost(e, j) /\ Bdd(e, j)' = Bdd(e, j)
      /\ \A e \in Dirs : /\ Grows(e) /\ AllClosed(e)' = AllClosed(e)
                         /\ (Searches(e)' <=> Searches(e))
                         /\ open'[e] \cup closed[e] \subseteq DOMAIN pool'[e]
      /\ \A e \in Dirs : e # d => /\ pool'[e] = pool[e] /\ open'[e] = open[e]
                                  /\ (Ready(e)' <=> Ready(e))
  BY <1>0, <1>2, <1>3, ChildFacts
<1>6. /\ NodesOK' /\ ClosedOK'
      /\ \A e \in Dirs :
            /\ open'[e] \cap closed[e] = {}
            /\ ~Searches(e) => open'[e] = {} /\ closed[e] = {}
            /\ \A x \in closed[e] : \A j \in open'[e] : Cost(e, x) < Cost(e, j)'
  BY <1>0, <1>2, <1>3, ChildFacts
<1>7. /\ \A e \in Dirs : open[e] \subseteq DOMAIN pool[e] /\ closed[e] \subseteq DOMAIN pool[e]
      /\ \A e \in Dirs : \A x \in open[e] : Cost(e, x) \in Nat
      /\ bound \in Nat /\ bound <= bound /\ Cost(d, i) \in Nat /\ Weight(n) \in Nat
  <2>1. Cost(d, i) \in Nat /\ Weight(n) \in Nat /\ bound \in Nat
    BY <1>1, <1>4, NodeTypes, OtherTypes, TaskFacts
  <2> QED  BY <1>1, <2>1, NodeTypes
<1>8. \A e : Hand(e)' = {} /\ ~Expanding(e)'
  BY <1>0 DEF Hand, Expanding
<1>9. cont'[d] = "abort" /\ \A e \in Dirs : e # d => cont'[e] = cont[e]
      /\ cont' \in [Dirs -> {"cont", "found", "notexist", "abort"}]
  <2>1. cont \in [Dirs -> {"cont", "found", "notexist", "abort"}]
    BY <1>1 DEF TypeOK
  <2> QED  BY <1>0, <1>2, <2>1
<1>10. TypeOK'
  <2>1. tri' \in 1..LastTrans' + 1 /\ cur' \in Nat
    <3>1. LastTrans' = LastTrans
      BY <1>0, SameTask
    <3>2. cur \in Nat /\ tri \in 1..LastTrans + 1
      BY <1>1 DEF TypeOK
    <3> QED  BY <1>0, <3>1, <3>2
  <2>2. \A e \in Dirs : open'[e] \cup closed'[e] \subseteq DOMAIN pool'[e]
    BY <1>0, <1>5
  <2>3. {open', closed'} \subseteq [Dirs -> SUBSET Nat]
    BY <1>0, <1>1, <1>4, OtherTypes
  <2>4. /\ bound \in 0..MaxCost /\ goalId \in [Dirs -> Nat]
        /\ {at, cut} \subseteq task.states /\ plan \in Seq(task.states \X Nat \X task.states)
    BY <1>1 DEF TypeOK
  <2>5. pool' \in [Dirs -> Seq([cost : Nat, parent : Nat, parents : SUBSET Nat,
                                trans : Nat, bdd : SUBSET task'.states])]
    BY <1>0, <1>4 DEF NodeRec
  <2> QED  BY <1>0, <1>1, <1>9, <2>1, <2>2, <2>3, <2>4, <2>5 DEF TypeOK
<1>11. TaskOK' /\ PlanOK' /\ TraceOK' /\ EndOK'
  BY <1>0, NoPlanYet
<1>12. OpenOK'
  <2>1. \A e \in Dirs : \A x \in closed[e] : Cost(e, x)' = Cost(e, x)
    BY <1>5, <1>7
  <2>2. \A e \in Dirs :
            /\ (cont'[e] = "cont" /\ ~Expanding(e)') => Ready(e)'
            /\ cont'[e] = "notexist" => mode = e /\ open'[e] = {}
            /\ cont'[e] = "abort" => mode = "fwbw" /\ e = "bw"
    <3> SUFFICES ASSUME NEW e \in Dirs
                 PROVE  /\ cont'[e] = "cont" => Ready(e)'
                        /\ cont'[e] = "notexist" => mode = e /\ open'[e] = {}
                        /\ cont'[e] = "abort" => mode = "fwbw" /\ e = "bw"
      OBVIOUS
    <3>1. CASE e = d
      BY <1>0, <1>2, <1>9, <3>1
    <3>2. CASE e # d
      <4>1. ~Expanding(e)
        BY <1>2, <3>2 DEF Expanding
      <4> QED  BY <1>1, <1>5, <1>9, <3>2, <4>1 DEF OpenOK
    <3> QED  BY <3>1, <3>2
  <2> QED  BY <1>0, <1>5, <1>6, <2>1, <2>2 DEF OpenOK
<1>13. HandOK'
  BY <1>0 DEF HandOK
<1>14. Lost'
  <2>1. /\ \A s \in Bdd(d, i) : Exact(d, s, Cost(d, i))
        /\ Bdd(d, i) # {}
    BY <1>0, <1>1, <1>2, <1>3 DEF HandOK
  <2>2. PICK s \in Bdd(d, i) : <<s, Cost(d, i)>> \in task.shortest["bw"]
    BY <1>0, <1>2, <2>1 DEF Exact
  <2>3. task.trans[n] \in Range(task.trans) /\ OpCost(task.trans[n]) = Weight(n)
    BY <1>1, <1>4, TaskFacts DEF Range, Weight
  <2>4. ASSUME NEW p \in task.shortest["fw"] PROVE p[2] + c < MaxCost
    <3>1. p[2] + <<s, Cost(d, i)>>[2] + OpCost(task.trans[n]) < MaxCost
      BY <1>1, <2>2, <2>3, TaskFacts DEF CostsFit
    <3>2. p[2] + Cost(d, i) + Weight(n) < MaxCost
      BY <2>3, <3>1
    <3>3. p[2] \in Nat
      BY <1>1, TaskFacts DEF AreShortest, Dirs
    <3>4. \A a, b, w \in Nat : a + b + w = a + (b + w)
      OBVIOUS
    <3> QED  BY <1>4, <1>7, <3>2, <3>3, <3>4
  <2>5. k \in open'["bw"] /\ Cost("bw", k)' = c
    BY <1>0, <1>2, <1>4
  <2> QED  BY <1>0, <2>4, <2>5 DEF Lost
<1>15. FrontOK'
  <2>1. ASSUME NEW e \in Dirs, e # d, Searches(e) PROVE Frontier(e)'
    <3>1. Frontier(e)
      BY <1>0, <1>1, <1>2, <2>1 DEF FrontOK
    <3>2. AllClosed(e)' = AllClosed(e) /\ Hand(e) = {} /\ Hand(e)' = {}
      BY <1>2, <1>5, <1>8, <2>1 DEF Hand, Expanding
    <3>3. open[e] = open'[e]
      BY <1>5, <2>1
    <3>4. \A j \in open[e] : /\ Cost(e, j)' = Cost(e, j) /\ Bdd(e, j)' = Bdd(e, j)
                             /\ Cost(e, j) \in Nat /\ Cost(e, j) <= Cost(e, j)
      BY <1>5, <1>7
    <3>5. Shifts(e)
      BY <3>2, <3>3, <3>4 DEF Shifts
    <3> QED  BY <1>0, <1>1, <1>5, <1>7, <3>1, <3>5, FrontierKept
  <2>2. \A e \in Dirs : Searches(e)' =>
           Frontier(e)' \/ (e = "bw" /\ cont'[e] = "abort" /\ Lost')
    BY <1>0, <1>2, <1>5, <1>9, <1>14, <2>1
  <2> QED  BY <1>0, <2>2 DEF FrontOK
<1>16. SeenOK'
  <2>1. \A e \in Dirs : \A x \in closed[e] : Seen(e, x)' /\ \A m \in Trans : Bridged(e, x, m)'
    BY <1>0, <1>5, <1>7, OldNodes
  <2> QED  BY <1>0, <2>1, SameTask DEF SeenOK, Trans
<1>17. MeetOK'
  <2>1. NoneFound'
    BY <1>1, <1>9 DEF NoneFound
  <2>2. k \in DOMAIN pool'[d] /\ \A e \in Dirs : \A j \in DOMAIN pool[e] : Bdd(e, j)' = Bdd(e, j)
    BY <1>4, <1>5
  <2>3. Met(d, k, c, {})
    BY <1>0, <1>7 DEF Met
  <2> QED  BY <1>0, <1>1, <1>4, <1>5, <1>10, <2>1, <2>2, <2>3, MetMeets
<1> QED  BY <1>6, <1>10, <1>11, <1>12, <1>13, <1>15, <1>16, <1>17 DEF Inv

(* The nodes on top, of those that are open when some states are done.       *)
TopSaid(d, T, O, done) ==
    /\ T \subseteq O /\ O \subseteq open[d]
    /\ \A j \in open[d] : j \in O /\ j \notin T => Bdd(d, j) \subseteq done
    /\ \A j \in T : ~(Bdd(d, j) \subseteq done)
    /\ \A j, k \in T : Cost(d, j) = Cost(d, k)
    /\ T = {} => O = open[d]
    /\ \A j \in T : \A k \in open[d] \ O : Cost(d, j) < Cost(d, k)

(* Those that drop out have nothing to close, and those left cost alike.     *)
LEMMA TopFacts ==
    ASSUME TypeOK, NEW done
    PROVE  TopSaid(dir, Top(done), Out(done), done)
<1> DEFINE d == dir
<1>0. d \in Dirs
  BY OtherTypes
<1>1. /\ Top(done) \subseteq Out(done) /\ Out(done) \subseteq open[d]
      /\ Alive(done) \subseteq open[d]
      /\ \A j \in open[d] : Cost(d, j) \in Nat
      /\ \A j \in open[d] : j \in Alive(done) <=> ~(Bdd(d, j) \subseteq done)
      /\ \A j \in open[d] : j \in Out(done) <=> \A k \in Alive(done) : Cost(d, j) <= Cost(d, k)
      /\ Top(done) = Alive(done) \cap Out(done)
  BY <1>0, NodeTypes DEF Top, Out, Alive
<1> HIDE DEF d
<1>2. \A j, k \in Top(done) : Cost(d, j) = Cost(d, k)
  <2>1. \A j, k \in Top(done) : Cost(d, j) <= Cost(d, k) /\ Cost(d, k) <= Cost(d, j)
    BY <1>1
  <2> QED  BY <1>1, <2>1
<1>3. Alive(done) # {} => Top(done) # {}
  <2> SUFFICES ASSUME Alive(done) # {} PROVE Top(done) # {}
    OBVIOUS
  <2> DEFINE S == {Cost(d, j) : j \in Alive(done)}
  <2>1. S \in SUBSET Nat /\ S # {}
    BY <1>1
  <2>2. Min(S) \in S /\ \A x \in S : Min(S) <= x
    <3> HIDE DEF S
    <3> QED  BY <2>1, MinOfNat
  <2>3. PICK j \in Alive(done) : \A k \in Alive(done) : Cost(d, j) <= Cost(d, k)
    BY <2>2
  <2> QED  BY <1>1, <2>3
<1>4. Alive(done) = {} => Out(done) = open[d]
  BY <1>1
<1>5. ASSUME NEW j \in Top(done), NEW k \in open[d] \ Out(done) PROVE Cost(d, j) < Cost(d, k)
  <2>1. PICK x \in Alive(done) : ~(Cost(d, k) <= Cost(d, x))
    BY <1>1
  <2>2. Cost(d, j) <= Cost(d, x)
    BY <1>1
  <2>3. Cost(d, j) \in Nat /\ Cost(d, k) \in Nat /\ Cost(d, x) \in Nat
    BY <1>1
  <2> QED  BY <2>1, <2>2, <2>3
<1>6. TopSaid(d, Top(done), Out(done), done)
  BY <1>1, <1>2, <1>3, <1>4, <1>5 DEF TopSaid
<1> QED  BY <1>6 DEF d

(* The nodes when node i is closed.                                          *)
Done(d, i) == AllClosed(d) \cup Bdd(d, i)

(* What preparing the next node leaves open costs more than node i.          *)
LEMMA EndFacts ==
    ASSUME Inv, ExpandEnd, NEW d \in Dirs, d = dir, NEW i, i = cur,
           NEW done, done = Done(d, i)
    PROVE  /\ i \in DOMAIN pool[d] /\ i \notin open[d] /\ i \notin closed[d]
           /\ pool' \in [Dirs -> Seq(NodeRec)] /\ open' \in [Dirs -> SUBSET Nat]
           /\ \A e \in Dirs : /\ Grows(e) /\ DOMAIN pool[e] \subseteq DOMAIN pool'[e]
                              /\ open'[e] \subseteq DOMAIN pool'[e]
                              /\ open'[e] \cap DOMAIN pool[e] \subseteq open[e]
                              /\ \A j \in DOMAIN pool[e] : Cost(e, j)' = Cost(e, j)
           /\ \A e \in Dirs : e # d => pool'[e] = pool[e] /\ open'[e] = open[e]
           /\ \A j \in DOMAIN pool[d] : /\ Bdd(d, j) \ done \subseteq Bdd(d, j)'
                                        /\ j \notin open[d] => Bdd(d, j)' = Bdd(d, j)
           /\ NodesOK'
           /\ \A j \in open'[d] : Cost(d, j)' \in Nat /\ Cost(d, i) < Cost(d, j)'
           /\ open'[d] # {} => \E t \in open'[d] :
                 /\ \A j \in open'[d] \ {t} : /\ Cost(d, t)' < Cost(d, j)'
                                              /\ pool'[d][j].parents = {}
                 /\ Bdd(d, t)' # {} /\ Bdd(d, t)' \cap done = {}
           /\ \A j \in open[d] : \A s \in Bdd(d, j) :
                 \/ s \in done
                 \/ \E k \in open'[d] : s \in Bdd(d, k)' /\ Cost(d, k)' <= Cost(d, j)
<1>0. /\ TypeOK /\ TaskOK /\ NodesOK /\ OpenOK /\ HandOK /\ task' = task
      /\ Dirs = {d, Other(d)} /\ Other(d) # d /\ Other(d) \in Dirs
      /\ pc = "expand" /\ PrepareNext(done)
  BY ArcTurns DEF Inv, ExpandEnd, Dirs, Other, Done
<1>1. /\ i \in DOMAIN pool[d] /\ i \notin open[d] /\ i \notin closed[d]
      /\ \A j \in open[d] : Cost(d, i) < Cost(d, j) /\ pool[d][j].parents = {}
  BY <1>0 DEF HandOK, Settled
<1>2. /\ \A e \in Dirs : open[e] \subseteq DOMAIN pool[e]
      /\ \A j \in DOMAIN pool[d] : Cost(d, j) \in Nat
      /\ Cost(d, i) \in Nat /\ done \in SUBSET task.states
  BY <1>0, <1>1, NodeTypes DEF AllClosed, Done
<1>3. Prepared(done)
  BY <1>0, <1>2, PrepareFacts
<1>4. TopSaid(d, Top(done), Out(done), done)
  BY <1>0, TopFacts
<1> DEFINE O == Out(done)
           T == Top(done)
<1>4a. /\ T \subseteq O /\ O \subseteq open[d]
       /\ \A j \in open[d] : j \in O /\ j \notin T => Bdd(d, j) \subseteq done
       /\ \A j \in T : ~(Bdd(d, j) \subseteq done)
       /\ \A j, k \in T : Cost(d, j) = Cost(d, k)
       /\ T = {} => O = open[d]
       /\ \A j \in T : \A k \in open[d] \ O : Cost(d, j) < Cost(d, k)
  BY <1>4 DEF TopSaid
<1>5. /\ pool' \in [Dirs -> Seq(NodeRec)] /\ open' \in [Dirs -> SUBSET Nat]
      /\ pool'[Other(d)] = pool[Other(d)] /\ open'[Other(d)] = open[Other(d)]
      /\ open'[d] \subseteq DOMAIN pool'[d]
      /\ \A j \in DOMAIN pool[d] :
            /\ j \in DOMAIN pool'[d] /\ Cost(d, j)' = Cost(d, j)
            /\ pool'[d][j].parent = pool[d][j].parent
            /\ pool'[d][j].trans = pool[d][j].trans
            /\ pool'[d][j].parents = pool[d][j].parents
            /\ j \in O => Bdd(d, j)' = Bdd(d, j) \ done
            /\ j \notin O => Bdd(d, j)' = Bdd(d, j)
  BY <1>3 DEF Prepared, Cost, Bdd
<1>6. \/ T = {} /\ open'[d] = {} /\ DOMAIN pool'[d] = DOMAIN pool[d]
      \/ \E t \in T : /\ T = {t} /\ DOMAIN pool'[d] = DOMAIN pool[d]
                      /\ open'[d] = (open[d] \ O) \cup {t}
      \/ /\ T # {}
         /\ \E t \in Nat : /\ DOMAIN pool'[d] = DOMAIN pool[d] \cup {t} /\ t \notin DOMAIN pool[d]
                           /\ open'[d] = (open[d] \ O) \cup {t}
                           /\ pool'[d][t].parent = NoNode /\ pool'[d][t].parents = T
                           /\ \A j \in T : Cost(d, t)' = Cost(d, j)
                           /\ \A s : s \in Bdd(d, t)' <=> \E j \in T : s \in Bdd(d, j) /\ s \notin done
  <2>1. CASE /\ \E j, k \in T : j # k
             /\ \E t \in Nat : /\ DOMAIN pool'[d] = DOMAIN pool[d] \cup {t}
                               /\ open'[d] = (open[d] \ O) \cup {t}
                               /\ IsMergedTop(done, t)
    <3>1. PICK t \in Nat : /\ DOMAIN pool'[d] = DOMAIN pool[d] \cup {t}
                           /\ open'[d] = (open[d] \ O) \cup {t}
                           /\ IsMergedTop(done, t)
      BY <2>1
    <3>2. /\ t \notin DOMAIN pool[d] /\ pool'[d][t].parent = NoNode /\ pool'[d][t].parents = T
          /\ \A j \in T : Cost(d, t)' = Cost(d, j)
          /\ \A s : s \in Bdd(d, t)' <=> \E j \in T : s \in Bdd(d, j) /\ s \notin done
      BY <3>1 DEF IsMergedTop, Cost, Bdd
    <3>3. T # {}
      BY <2>1
    <3> HIDE DEF O, T
    <3> QED  BY <3>1, <3>2, <3>3
  <2>2. CASE /\ \A j, k \in T : j = k
             /\ DOMAIN pool'[d] = DOMAIN pool[d]
             /\ open'[d] = (open[d] \ O) \cup T
    <3> HIDE DEF O, T
    <3>1. CASE T = {}
      BY <1>4a, <2>2, <3>1
    <3>2. CASE T # {}
      <4>1. PICK t \in T : T = {t}
        BY <2>2, <3>2
      <4> QED  BY <2>2, <4>1
    <3> QED  BY <3>1, <3>2
  <2> QED  BY <1>3, <2>1, <2>2 DEF Prepared
<1> HIDE DEF O, T
<1>7. /\ open'[d] \cap DOMAIN pool[d] \subseteq open[d]
      /\ DOMAIN pool[d] \subseteq DOMAIN pool'[d]
  BY <1>4a, <1>6
<1>8. \A e \in Dirs : /\ Grows(e) /\ DOMAIN pool[e] \subseteq DOMAIN pool'[e]
                      /\ open'[e] \subseteq DOMAIN pool'[e]
                      /\ open'[e] \cap DOMAIN pool[e] \subseteq open[e]
                      /\ \A j \in DOMAIN pool[e] : Cost(e, j)' = Cost(e, j)
  <2>1. \A j \in DOMAIN pool[d] : Bdd(d, j)' \subseteq Bdd(d, j)
    BY <1>5
  <2>2. \A j \in DOMAIN pool[d] : j \notin open[d] =>
           j \notin open'[d] /\ Bdd(d, j)' = Bdd(d, j)
    BY <1>4a, <1>5, <1>7
  <2>3. Grows(d)
    BY <1>5, <2>1, <2>2 DEF Grows
  <2>4. \A j : Cost(Other(d), j)' = Cost(Other(d), j) /\ Bdd(Other(d), j)' = Bdd(Other(d), j)
    BY <1>5 DEF Cost, Bdd
  <2>5. Grows(Other(d))
    BY <1>5, <2>4 DEF Grows
  <2> QED  BY <1>0, <1>2, <1>5, <1>7, <2>3, <2>4, <2>5
<1>9. \A j \in DOMAIN pool[d] : /\ Bdd(d, j) \ done \subseteq Bdd(d, j)'
                                /\ j \notin open[d] => Bdd(d, j)' = Bdd(d, j)
  BY <1>4a, <1>5
<1>10. \A e \in Dirs : \A j \in DOMAIN pool[e] : NodeOK(e, j)'
  BY <1>0, <1>8, OldNodes
<1>11. CASE T = {} /\ open'[d] = {} /\ DOMAIN pool'[d] = DOMAIN pool[d]
  <2>1. NodesOK'
    <3>1. \A e \in Dirs : \A j \in DOMAIN pool'[e] : NodeOK(e, j)'
      BY <1>0, <1>5, <1>10, <1>11
    <3> QED  BY <3>1, NodesOKIf
  <2>2. \A j \in open[d] : \A s \in Bdd(d, j) : s \in done
    BY <1>4a, <1>11
  <2> QED  BY <1>0, <1>1, <1>5, <1>8, <1>9, <1>11, <2>1, <2>2
<1>12. CASE \E t : /\ open'[d] = (open[d] \ O) \cup {t} /\ NodeOK(d, t)'
                   /\ DOMAIN pool'[d] = DOMAIN pool[d] \cup {t} /\ T # {}
                   /\ \A j \in T : Cost(d, t)' = Cost(d, j)
                   /\ \A s : s \in Bdd(d, t)' <=> \E j \in T : s \in Bdd(d, j) /\ s \notin done
  <2>1. PICK t : /\ open'[d] = (open[d] \ O) \cup {t} /\ NodeOK(d, t)'
                 /\ DOMAIN pool'[d] = DOMAIN pool[d] \cup {t} /\ T # {}
                 /\ \A j \in T : Cost(d, t)' = Cost(d, j)
                 /\ \A s : s \in Bdd(d, t)' <=> \E j \in T : s \in Bdd(d, j) /\ s \notin done
    BY <1>12
  <2>2. NodesOK'
    <3>1. \A e \in Dirs : \A j \in DOMAIN pool'[e] : NodeOK(e, j)'
      BY <1>0, <1>5, <1>10, <2>1
    <3> QED  BY <3>1, NodesOKIf
  <2>3. PICK x \in T : TRUE
    BY <2>1
  <2>4. /\ Cost(d, t)' = Cost(d, x) /\ Cost(d, x) \in Nat /\ Cost(d, i) < Cost(d, x)
        /\ \A j \in open[d] \ O : /\ Cost(d, x) < Cost(d, j) /\ Cost(d, j)' = Cost(d, j)
                                  /\ Cost(d, j) \in Nat /\ Cost(d, i) < Cost(d, j)
                                  /\ pool'[d][j].parents = {} /\ Bdd(d, j)' = Bdd(d, j)
    <3>1. x \in open[d] /\ \A j \in open[d] : Cost(d, j) \in Nat /\ Cost(d, i) < Cost(d, j)
      BY <1>1, <1>2, <1>4a, <2>3
    <3>2. ASSUME NEW j \in open[d] \ O PROVE Cost(d, x) < Cost(d, j)
      BY <1>4a, <2>3
    <3>3. ASSUME NEW j \in open[d] \ O
          PROVE  /\ Cost(d, j)' = Cost(d, j) /\ pool'[d][j].parents = {}
                 /\ Bdd(d, j)' = Bdd(d, j)
      BY <1>1, <1>2, <1>4a, <1>5
    <3> QED  BY <2>1, <2>3, <3>1, <3>2, <3>3
  <2>5. \A j \in open'[d] : Cost(d, j)' \in Nat /\ Cost(d, i) < Cost(d, j)'
    BY <2>1, <2>4
  <2>6. /\ \A j \in open'[d] \ {t} : Cost(d, t)' < Cost(d, j)' /\ pool'[d][j].parents = {}
        /\ Bdd(d, t)' # {} /\ Bdd(d, t)' \cap done = {}
    <3>1. \A j \in open'[d] \ {t} : Cost(d, t)' < Cost(d, j)' /\ pool'[d][j].parents = {}
      BY <2>1, <2>4
    <3>2. Bdd(d, t)' # {}
      BY <1>4a, <2>1, <2>3
    <3> QED  BY <2>1, <3>1, <3>2
  <2>7. ASSUME NEW j \in open[d], NEW s \in Bdd(d, j), s \notin done
        PROVE  \E k \in open'[d] : s \in Bdd(d, k)' /\ Cost(d, k)' <= Cost(d, j)
    <3>0. \A c \in Nat : c <= c
      OBVIOUS
    <3>1. CASE j \in O
      <4>1. j \in T
        BY <1>4a, <2>7, <3>1
      <4>2. s \in Bdd(d, t)' /\ Cost(d, t)' = Cost(d, j) /\ t \in open'[d] /\ Cost(d, j) \in Nat
        BY <1>2, <2>1, <2>7, <4>1
      <4> QED  BY <3>0, <4>2
    <3>2. CASE j \notin O
      <4>1. j \in open'[d] /\ Cost(d, j)' = Cost(d, j) /\ Cost(d, j) \in Nat /\ s \in Bdd(d, j)'
        BY <2>1, <2>4, <2>7, <3>2
      <4> QED  BY <3>0, <4>1
    <3> QED  BY <3>1, <3>2
  <2>8. t \in open'[d]
    BY <2>1
  <2> QED  BY <1>0, <1>1, <1>5, <1>8, <1>9, <2>2, <2>5, <2>6, <2>7, <2>8
<1>13. CASE \E t \in T : /\ T = {t} /\ DOMAIN pool'[d] = DOMAIN pool[d]
                         /\ open'[d] = (open[d] \ O) \cup {t}
  <2>1. PICK t \in T : /\ T = {t} /\ DOMAIN pool'[d] = DOMAIN pool[d]
                       /\ open'[d] = (open[d] \ O) \cup {t}
    BY <1>13
  <2>2. t \in O /\ t \in DOMAIN pool[d]
    BY <1>2, <1>4a, <2>1
  <2>3. NodeOK(d, t)' /\ Cost(d, t)' = Cost(d, t) /\ Bdd(d, t)' = Bdd(d, t) \ done
    BY <1>5, <1>10, <2>2
  <2>4. \A s : s \in Bdd(d, t)' <=> \E j \in T : s \in Bdd(d, j) /\ s \notin done
    BY <2>1, <2>3
  <2>5. DOMAIN pool'[d] = DOMAIN pool[d] \cup {t}
    BY <2>1, <2>2
  <2> QED  BY <1>12, <2>1, <2>3, <2>4, <2>5
<1>14. CASE /\ T # {}
            /\ \E t \in Nat : /\ DOMAIN pool'[d] = DOMAIN pool[d] \cup {t} /\ t \notin DOMAIN pool[d]
                              /\ open'[d] = (open[d] \ O) \cup {t}
                              /\ pool'[d][t].parent = NoNode /\ pool'[d][t].parents = T
                              /\ \A j \in T : Cost(d, t)' = Cost(d, j)
                              /\ \A s : s \in Bdd(d, t)' <=> \E j \in T : s \in Bdd(d, j) /\ s \notin done
  <2>1. PICK t \in Nat : /\ DOMAIN pool'[d] = DOMAIN pool[d] \cup {t} /\ t \notin DOMAIN pool[d]
                         /\ open'[d] = (open[d] \ O) \cup {t}
                         /\ pool'[d][t].parent = NoNode /\ pool'[d][t].parents = T
                         /\ \A j \in T : Cost(d, t)' = Cost(d, j)
                         /\ \A s : s \in Bdd(d, t)' <=> \E j \in T : s \in Bdd(d, j) /\ s \notin done
    BY <1>14
  <2>2. \A j \in T : /\ j \in DOMAIN pool[d] /\ j \in open[d] /\ j \in O
                     /\ Bdd(d, j)' = Bdd(d, j) \ done /\ Cost(d, j)' = Cost(d, j)
                     /\ pool'[d][j].parents = {} /\ NodeOK(d, j)' /\ NodeOK(d, j)
    BY <1>0, <1>1, <1>2, <1>4a, <1>5, <1>10 DEF NodesOK
  <2>3. PICK x \in T : TRUE
    BY <1>14
  <2>4. Cost(d, t)' <= MaxCost
    BY <2>1, <2>2, <2>3 DEF NodeOK
  <2>5. \A s \in Bdd(d, t)' : Within(d, s, Cost(d, t))'
    <3>1. ASSUME NEW s \in Bdd(d, t)' PROVE Within(d, s, Cost(d, t)')
      <4>1. PICK j \in T : s \in Bdd(d, j)
        BY <2>1
      <4>2. Within(d, s, Cost(d, j))
        BY <2>2, <4>1 DEF NodeOK
      <4>3. Cost(d, t)' = Cost(d, j)
        BY <2>1
      <4> QED  BY <4>2, <4>3
    <3> QED  BY <1>0, <3>1, SameTask
  <2>6. IsMerged(d, t)'
    <3>1. \A p \in T : p \in Settled(d)' /\ pool'[d][p].parents = {} /\ Cost(d, p)' = Cost(d, t)'
      BY <2>1, <2>2 DEF Settled
    <3>2. \A s \in Bdd(d, t)' : \E p \in T : s \in Bdd(d, p)'
      BY <2>1, <2>2
    <3> QED  BY <2>1, <3>1, <3>2 DEF IsMerged
  <2>7. NodeOK(d, t)'
    BY <1>14, <2>1, <2>4, <2>5, <2>6 DEF NodeOK
  <2> QED  BY <1>12, <1>14, <2>1, <2>7
<1> QED  BY <1>6, <1>11, <1>13, <1>14

(* The node in hand is closed and the next one prepared.                     *)
LEMMA ExpandEndKept ==
    ASSUME Inv, ExpandEnd
    PROVE  Inv'
<1>0. /\ UNCHANGED planVars /\ task' = task /\ mode' = mode
      /\ dir' = dir /\ cur' = cur /\ pc' = "drive" /\ pc = "expand" /\ tri' = tri
      /\ at' = at /\ cut' = cut /\ plan' = plan /\ bound' = bound /\ goalId' = goalId
      /\ closed' = [closed EXCEPT ![dir] = closed[dir] \cup {cur}] /\ tri > LastTrans
      /\ cont' = [cont EXCEPT ![dir] = "cont"] \/ (Limited /\ cont' = [cont EXCEPT ![dir] = "abort"])
  BY DEF ExpandEnd, planVars, stepVars
<1>1. /\ TypeOK /\ TaskOK /\ OpenOK /\ HandOK /\ ClosedOK /\ FrontOK /\ SeenOK /\ MeetOK
      /\ NoneFound /\ dir \in Dirs
  BY <1>0, OtherTypes DEF Inv, MeetOK
<1>2. PICK d \in Dirs : d = dir
  BY <1>1
<1>3. PICK i, done : i = cur /\ done = Done(d, i)
  OBVIOUS
<1>4. /\ Other(d) \in Dirs /\ Other(d) # d /\ Other(Other(d)) = d /\ Dirs = {d, Other(d)}
  BY ArcTurns DEF Dirs, Other
<1>5. /\ i \in DOMAIN pool[d] /\ i \notin open[d] /\ i \notin closed[d]
      /\ pool' \in [Dirs -> Seq(NodeRec)] /\ open' \in [Dirs -> SUBSET Nat]
      /\ \A e \in Dirs : /\ Grows(e) /\ DOMAIN pool[e] \subseteq DOMAIN pool'[e]
                         /\ open'[e] \subseteq DOMAIN pool'[e]
                         /\ open'[e] \cap DOMAIN pool[e] \subseteq open[e]
                         /\ \A j \in DOMAIN pool[e] : Cost(e, j)' = Cost(e, j)
      /\ \A e \in Dirs : e # d => pool'[e] = pool[e] /\ open'[e] = open[e]
      /\ \A j \in DOMAIN pool[d] : /\ Bdd(d, j) \ done \subseteq Bdd(d, j)'
                                   /\ j \notin open[d] => Bdd(d, j)' = Bdd(d, j)
      /\ NodesOK'
  BY <1>2, <1>3, EndFacts
<1>6. /\ \A j \in open'[d] : Cost(d, j)' \in Nat /\ Cost(d, i) < Cost(d, j)'
      /\ open'[d] # {} => \E t \in open'[d] :
            /\ \A j \in open'[d] \ {t} : /\ Cost(d, t)' < Cost(d, j)'
                                         /\ pool'[d][j].parents = {}
            /\ Bdd(d, t)' # {} /\ Bdd(d, t)' \cap done = {}
      /\ \A j \in open[d] : \A s \in Bdd(d, j) :
            \/ s \in done
            \/ \E k \in open'[d] : s \in Bdd(d, k)' /\ Cost(d, k)' <= Cost(d, j)
  BY <1>2, <1>3, EndFacts
<1>7. /\ Searches(d) /\ cont[d] = "cont"
      /\ \A x \in closed[d] : Cost(d, x) < Cost(d, i)
      /\ \A j \in open[d] : Cost(d, i) < Cost(d, j)
      /\ \A s \in Bdd(d, i) : Exact(d, s, Cost(d, i)) /\ s \notin Target(d)
  BY <1>0, <1>1, <1>2, <1>3 DEF HandOK
<1>8. /\ Cost(d, i) \in Nat /\ bound \in Nat /\ bound <= bound
      /\ \A e \in Dirs : \A x \in closed[e] : Cost(e, x) \in Nat /\ x \in DOMAIN pool[e]
      /\ \A e \in Dirs : \A x \in open[e] : Cost(e, x) \in Nat /\ x \in DOMAIN pool[e]
      /\ closed \in [Dirs -> SUBSET Nat] /\ i \in Nat /\ \A n \in Trans : Weight(n) \in Nat
  <2>1. Cost(d, i) \in Nat /\ bound \in Nat
    BY <1>1, <1>5, NodeTypes, OtherTypes
  <2>2. i \in Nat
    BY <1>1, <1>3 DEF TypeOK
  <2> QED  BY <1>1, <1>5, <2>1, <2>2, NodeTypes, OtherTypes, TaskFacts
<1>9. /\ closed' \in [Dirs -> SUBSET Nat] /\ closed'[d] = closed[d] \cup {i}
      /\ \A e \in Dirs : e # d => closed'[e] = closed[e]
  BY <1>0, <1>2, <1>3, <1>8
<1>10. /\ \A e \in Dirs : \A x \in closed'[e] :
             /\ x \in DOMAIN pool[e] /\ x \notin open[e] /\ Cost(e, x) \in Nat
             /\ Cost(e, x)' = Cost(e, x) /\ Bdd(e, x)' = Bdd(e, x)
  <2>1. \A e \in Dirs : \A x \in closed'[e] :
             x \in DOMAIN pool[e] /\ x \notin open[e] /\ Cost(e, x) \in Nat
    BY <1>1, <1>4, <1>5, <1>8, <1>9 DEF OpenOK
  <2> QED  BY <1>5, <2>1 DEF Grows
<1>11. AllClosed(d)' = done /\ \A e \in Dirs : e # d => AllClosed(e)' = AllClosed(e)
  <2>1. \A e \in Dirs : \A s : s \in AllClosed(e)' <=> \E x \in closed'[e] : s \in Bdd(e, x)
    <3>1. \A e, s : s \in AllClosed(e)' <=> \E x \in closed'[e] : s \in Bdd(e, x)'
      BY DEF AllClosed
    <3> QED  BY <1>10, <3>1
  <2>2. \A s : s \in done <=> s \in Bdd(d, i) \/ \E x \in closed[d] : s \in Bdd(d, x)
    BY <1>3, ClosedStates DEF Done
  <2>3. \A s : s \in AllClosed(d)' <=> s \in done
    BY <1>9, <2>1, <2>2
  <2>4. ASSUME NEW e \in Dirs, e # d PROVE \A s : s \in AllClosed(e)' <=> s \in AllClosed(e)
    BY <1>9, <2>1, <2>4, ClosedStates
  <2>5. AllClosed(d)' = done
    <3>1. AllClosed(d)' \subseteq done /\ done \subseteq AllClosed(d)'
      BY <2>3
    <3> QED  BY <3>1
  <2>6. ASSUME NEW e \in Dirs, e # d PROVE AllClosed(e)' = AllClosed(e)
    <3>1. AllClosed(e)' \subseteq AllClosed(e) /\ AllClosed(e) \subseteq AllClosed(e)'
      BY <2>4, <2>6
    <3> QED  BY <3>1
  <2> QED  BY <2>5, <2>6
<1>12. /\ \A e : Hand(e)' = {} /\ ~Expanding(e)'
       /\ Hand(d) = Bdd(d, i) /\ \A e \in Dirs : e # d => Hand(e) = {} /\ ~Expanding(e)
  BY <1>0, <1>2, <1>3 DEF Hand, Expanding
<1>13. /\ cont' \in [Dirs -> {"cont", "found", "notexist", "abort"}]
       /\ \A e \in Dirs : e # d => cont'[e] = cont[e]
       /\ cont'[d] \in {"cont", "abort"} /\ (cont'[d] = "abort" => mode = "fwbw" /\ d = "bw")
  <2>1. cont \in [Dirs -> {"cont", "found", "notexist", "abort"}]
    BY <1>1 DEF TypeOK
  <2> QED  BY <1>0, <1>2, <2>1 DEF Limited, Both
<1>14. \A e \in Dirs : Searches(e)' <=> Searches(e)
  BY <1>0 DEF Searches
<1>15. TypeOK'
  <2>1. tri' \in 1..LastTrans' + 1 /\ cur' \in Nat
    <3>1. LastTrans' = LastTrans
      BY <1>0, SameTask
    <3>2. cur \in Nat /\ tri \in 1..LastTrans + 1
      BY <1>1 DEF TypeOK
    <3> QED  BY <1>0, <3>1, <3>2
  <2>2. \A e \in Dirs : open'[e] \cup closed'[e] \subseteq DOMAIN pool'[e]
    BY <1>5, <1>10
  <2>3. {open', closed'} \subseteq [Dirs -> SUBSET Nat]
    BY <1>5, <1>9
  <2>4. /\ bound \in 0..MaxCost /\ goalId \in [Dirs -> Nat]
        /\ {at, cut} \subseteq task.states /\ plan \in Seq(task.states \X Nat \X task.states)
    BY <1>1 DEF TypeOK
  <2>5. pool' \in [Dirs -> Seq([cost : Nat, parent : Nat, parents : SUBSET Nat,
                                trans : Nat, bdd : SUBSET task'.states])]
    BY <1>0, <1>5 DEF NodeRec
  <2> QED  BY <1>0, <1>1, <1>13, <2>1, <2>2, <2>3, <2>4, <2>5 DEF TypeOK
<1>16. TaskOK' /\ PlanOK' /\ TraceOK' /\ EndOK'
  BY <1>0, NoPlanYet
<1>17. Ready(d)'
  <2>1. CASE open'[d] = {}
    BY <2>1 DEF Ready
  <2>2. CASE open'[d] # {}
    <3>1. PICK t \in open'[d] :
            /\ \A j \in open'[d] \ {t} : /\ Cost(d, t)' < Cost(d, j)'
                                         /\ pool'[d][j].parents = {}
            /\ Bdd(d, t)' # {} /\ Bdd(d, t)' \cap done = {}
      BY <1>6, <2>2
    <3>2. \A j \in open'[d] : Cost(d, t)' <= Cost(d, j)' /\ (Cost(d, j)' <= Cost(d, t)' => j = t)
      BY <1>6, <3>1
    <3>3. \A j : IsTop(d, j)' <=> j = t
      BY <3>2 DEF IsTop
    <3> QED  BY <1>11, <3>1, <3>2, <3>3 DEF Ready
  <2> QED  BY <2>1, <2>2
<1>18. ASSUME NEW e \in Dirs, e # d PROVE Ready(e)' <=> Ready(e)
  <2>1. pool'[e] = pool[e] /\ open'[e] = open[e] /\ AllClosed(e)' = AllClosed(e)
    BY <1>5, <1>11, <1>18
  <2>2. \A j : Cost(e, j)' = Cost(e, j) /\ Bdd(e, j)' = Bdd(e, j)
    BY <2>1 DEF Cost, Bdd
  <2>3. \A j : IsTop(e, j)' <=> IsTop(e, j)
    BY <2>1, <2>2 DEF IsTop
  <2> QED  BY <2>1, <2>2, <2>3 DEF Ready
<1>19. OpenOK'
  <2> SUFFICES ASSUME NEW e \in Dirs
               PROVE  /\ open'[e] \cap closed'[e] = {}
                      /\ ~Searches(e) => open'[e] = {} /\ closed'[e] = {}
                      /\ \A k \in closed'[e] : \A j \in open'[e] : Cost(e, k)' < Cost(e, j)'
                      /\ cont'[e] = "cont" => Ready(e)'
                      /\ cont'[e] = "notexist" => mode = e /\ open'[e] = {}
                      /\ cont'[e] = "abort" => mode = "fwbw" /\ e = "bw"
    BY <1>0, <1>14 DEF OpenOK
  <2>1. open'[e] \cap closed'[e] = {}
    BY <1>5, <1>10
  <2>2. CASE e = d
    <3>1. ASSUME NEW k \in closed'[d], NEW j \in open'[d] PROVE Cost(d, k)' < Cost(d, j)'
      <4>1. Cost(d, k)' = Cost(d, k) /\ Cost(d, k) \in Nat /\ (k = i \/ Cost(d, k) < Cost(d, i))
        BY <1>7, <1>9, <1>10
      <4>2. Cost(d, j)' \in Nat /\ Cost(d, i) < Cost(d, j)'
        BY <1>6
      <4> QED  BY <1>8, <4>1, <4>2
    <3> QED  BY <1>7, <1>13, <1>17, <2>1, <2>2, <3>1
  <2>3. CASE e # d
    <3>1. /\ open'[e] = open[e] /\ closed'[e] = closed[e] /\ cont'[e] = cont[e]
          /\ ~Expanding(e) /\ (Ready(e)' <=> Ready(e))
      BY <1>5, <1>9, <1>12, <1>13, <1>18, <2>3
    <3>2. \A k \in closed'[e] : \A j \in open'[e] : Cost(e, k)' < Cost(e, j)'
      BY <1>1, <1>5, <1>8, <1>10, <3>1 DEF OpenOK
    <3> QED  BY <1>1, <2>1, <3>1, <3>2 DEF OpenOK
  <2> QED  BY <2>2, <2>3
<1>20. HandOK'
  BY <1>0 DEF HandOK
<1>21. ClosedOK'
  <2>1. \A e \in Dirs : \A x \in closed'[e] : \A s \in Bdd(e, x) :
           Exact(e, s, Cost(e, x)) /\ s \notin Target(e)
    BY <1>1, <1>4, <1>7, <1>9 DEF ClosedOK
  <2> QED  BY <1>0, <1>10, <2>1, SameTask DEF ClosedOK
<1>22. \A e \in Dirs : Shifts(e)
  <2>1. Shifts(d)
    <3>1. (AllClosed(d) \cup Hand(d))' = done /\ AllClosed(d) \cup Hand(d) = done
      BY <1>3, <1>11, <1>12 DEF Done
    <3>2. ASSUME NEW j \in open[d], NEW s \in Bdd(d, j)
          PROVE  \/ s \in done
                 \/ \E k \in open'[d] : /\ s \in Bdd(d, k)'
                                        /\ Cost(d, k)' \in Nat /\ Cost(d, k)' <= Cost(d, j)
      BY <1>6, <3>2
    <3> QED  BY <3>1, <3>2 DEF Shifts
  <2>2. ASSUME NEW e \in Dirs, e # d PROVE Shifts(e)
    <3>1. (AllClosed(e) \cup Hand(e))' = AllClosed(e) \cup Hand(e)
      BY <1>11, <1>12, <2>2
    <3>2. open'[e] = open[e] /\ \A j : Cost(e, j)' = Cost(e, j) /\ Bdd(e, j)' = Bdd(e, j)
      BY <1>5, <2>2 DEF Cost, Bdd
    <3>3. \A j \in open[e] : Cost(e, j) \in Nat /\ Cost(e, j) <= Cost(e, j)
      BY <1>8
    <3> QED  BY <3>1, <3>2, <3>3 DEF Shifts
  <2> QED  BY <2>1, <2>2
<1>23. \A n \in Trans : n \in 1..tri - 1
  <2>1. tri \in 1..LastTrans + 1 /\ LastTrans \in Nat
    BY <1>1, TaskFacts DEF TypeOK
  <2> QED  BY <1>0, <2>1 DEF Trans
<1>24. FrontOK'
  <2>1. Frontier(d)'
    <3>1. Frontier(d)
      BY <1>0, <1>1, <1>7 DEF FrontOK
    <3>2. \A n \in Trans : Followed(d, i, n)
      BY <1>0, <1>1, <1>2, <1>3, <1>23 DEF FrontOK
    <3>3. Cost(d, i)' = Cost(d, i) /\ Bdd(d, i)' = Bdd(d, i) /\ Shifts(d)
      BY <1>9, <1>10, <1>22
    <3>4. \A n \in Trans : Followed(d, i, n)'
      BY <1>0, <1>1, <1>5, <1>8, <3>2, <3>3, FollowedKept
    <3>5. \A x \in closed'[d] \ closed[d] : \A n \in Trans : Followed(d, x, n)'
      BY <1>9, <3>4
    <3> QED  BY <1>0, <1>1, <1>5, <1>8, <3>1, <3>3, <3>5, FrontierKept
  <2>2. ASSUME NEW e \in Dirs, e # d, Frontier(e) PROVE Frontier(e)'
    <3>1. closed'[e] \ closed[e] = {}
      BY <1>9, <2>2
    <3> QED  BY <1>0, <1>1, <1>5, <1>8, <1>22, <2>2, <3>1, FrontierKept
  <2>3. ASSUME NEW e \in Dirs, Searches(e)
        PROVE  Frontier(e)' \/ (e = "bw" /\ cont'[e] = "abort" /\ Lost')
    <3>1. CASE e = d \/ Frontier(e)
      BY <2>1, <2>2, <3>1
    <3>2. CASE ~(e = d \/ Frontier(e))
      <4>1. e = "bw" /\ cont[e] = "abort" /\ Lost /\ e # d
        BY <1>0, <1>1, <2>3, <3>2 DEF FrontOK
      <4>2. pool'["bw"] = pool["bw"] /\ open'["bw"] = open["bw"] /\ cont'[e] = cont[e]
        BY <1>5, <1>13, <4>1
      <4> QED  BY <1>0, <4>1, <4>2 DEF Lost, Cost
    <3> QED  BY <3>1, <3>2
  <2> QED  BY <1>0, <1>14, <2>3 DEF FrontOK
<1>25. SeenOK'
  <2>1. Seen(d, i) /\ \A n \in Trans : Bridged(d, i, n)
    BY <1>0, <1>1, <1>2, <1>3, <1>23 DEF SeenOK
  <2>2. \A e \in Dirs : \A x \in closed[e] : Seen(e, x) /\ \A n \in Trans : Bridged(e, x, n)
    BY <1>1 DEF SeenOK, Trans
  <2>3. ASSUME NEW e \in Dirs, NEW x \in closed'[e], NEW j \in closed'[Other(e)],
               Bdd(e, x) \cap Bdd(Other(e), j) # {}
        PROVE  bound <= Cost(e, x) + Cost(Other(e), j)
    <3>1. CASE e = d
      <4>1. Seen(d, x) /\ j \in closed[Other(d)]
        BY <1>4, <1>9, <2>1, <2>2, <2>3, <3>1
      <4> QED  BY <2>3, <3>1, <4>1 DEF Seen
    <3>2. CASE e # d
      <4>1. e = Other(d) /\ Other(e) = d /\ x \in closed[e]
        BY <1>4, <1>9, <3>2
      <4>2. CASE j = i
        <5>1. bound <= Cost(d, i) + Cost(Other(d), x)
          BY <2>1, <2>3, <4>1, <4>2 DEF Seen
        <5> QED  BY <1>8, <4>1, <4>2, <5>1
      <4>3. CASE j # i
        <5>1. j \in closed[Other(e)] /\ Seen(e, x)
          BY <1>9, <2>2, <4>1, <4>3
        <5> QED  BY <2>3, <5>1 DEF Seen
      <4> QED  BY <4>2, <4>3
    <3> QED  BY <3>1, <3>2
  <2>4. ASSUME NEW e \in Dirs, NEW x \in closed'[e], NEW n \in Trans, NEW j \in closed'[Other(e)],
               Image(e, task.trans[n], Bdd(e, x)) \cap Bdd(Other(e), j) # {}
        PROVE  bound <= Cost(e, x) + Weight(n) + Cost(Other(e), j)
    <3>1. CASE e = d
      <4>1. Bridged(d, x, n) /\ j \in closed[Other(d)]
        BY <1>4, <1>9, <2>1, <2>2, <2>4, <3>1
      <4> QED  BY <2>4, <3>1, <4>1 DEF Bridged
    <3>2. CASE e # d
      <4>1. e = Other(d) /\ Other(e) = d /\ x \in closed[e]
        BY <1>4, <1>9, <3>2
      <4>2. CASE j = i
        <5>1. PICK y \in Bdd(d, i) : y \in Image(e, task.trans[n], Bdd(e, x))
          BY <2>4, <4>1, <4>2
        <5>2. PICK u \in Bdd(e, x) : Arc(e, n, u, y)
          BY <1>1, <5>1, ImageIs
        <5>3. Arc(d, n, y, u)
          BY <4>1, <5>2, ArcTurns
        <5>4. u \in Image(d, task.trans[n], Bdd(d, i))
          BY <1>1, <5>3, ImageIs
        <5>5. bound <= Cost(d, i) + Weight(n) + Cost(Other(d), x)
          BY <2>1, <4>1, <5>2, <5>4 DEF Bridged
        <5> QED  BY <1>8, <4>1, <4>2, <5>5
      <4>3. CASE j # i
        <5>1. j \in closed[Other(e)] /\ Bridged(e, x, n)
          BY <1>9, <2>2, <4>1, <4>3
        <5> QED  BY <2>4, <5>1 DEF Bridged
      <4> QED  BY <4>2, <4>3
    <3> QED  BY <3>1, <3>2
  <2>5. ASSUME NEW e \in Dirs, NEW x \in closed'[e]
        PROVE  Seen(e, x)' /\ \A n \in Trans : Bridged(e, x, n)'
    <3>1. Other(e) \in Dirs /\ Cost(e, x)' = Cost(e, x) /\ Bdd(e, x)' = Bdd(e, x)
      BY <1>10, ArcTurns
    <3>2. Seen(e, x)'
      BY <1>0, <1>10, <2>3, <3>1 DEF Seen
    <3>3. ASSUME NEW n \in Trans PROVE Bridged(e, x, n)'
      <4>1. /\ Image(e, task.trans[n], Bdd(e, x))' = Image(e, task.trans[n], Bdd(e, x))
            /\ Weight(n)' = Weight(n)
        BY <1>0, <3>1, SameTask DEF Image
      <4> QED  BY <1>0, <1>10, <2>4, <3>1, <4>1 DEF Bridged
    <3> QED  BY <3>2, <3>3
  <2> QED  BY <1>0, <2>5, SameTask DEF SeenOK, Trans
<1>26. MeetOK'
  <2>1. NoneFound' /\ (Halves' <=> Halves)
    BY <1>0, <1>1, <1>13 DEF NoneFound, Halves
  <2>2. ASSUME NEW e \in Dirs, Meets(e) PROVE Meets(e)'
    <3>0. PICK o, g, h : /\ o = Other(e) /\ o \in Dirs /\ o # e
                         /\ g = goalId[e] /\ h = goalId[o]
      BY ArcTurns
    <3>1. /\ g \in DOMAIN pool[e] /\ h \in closed[o] /\ h \in closed'[o]
          /\ Bdd(e, g) \cap Bdd(o, h) # {} /\ Cost(e, g) + Cost(o, h) = bound
      BY <1>4, <1>9, <2>2, <3>0 DEF Meets
    <3>2. /\ g \in DOMAIN pool'[e] /\ Cost(e, g)' = Cost(e, g)
          /\ Cost(o, h)' = Cost(o, h) /\ Bdd(o, h)' = Bdd(o, h)
      BY <1>5, <1>10, <3>0, <3>1
    <3>3. PICK y : y \in Bdd(e, g) /\ y \in Bdd(o, h)
      BY <3>1
    <3>4. y \in Bdd(e, g)'
      <4>1. CASE e # d
        BY <1>5, <3>3, <4>1 DEF Bdd
      <4>2. CASE e = d /\ (g \notin open[d] \/ y \notin done)
        BY <1>5, <3>1, <3>3, <4>2
      <4>3. CASE e = d /\ g \in open[d] /\ y \in done
        <5>1. PICK x \in closed'[d] : y \in Bdd(d, x)
          BY <1>3, <1>9, <4>3, ClosedStates DEF Done
        <5>2. Seen(d, x)
          BY <1>0, <1>1, <1>2, <1>3, <1>9 DEF SeenOK
        <5>3. bound <= Cost(d, x) + Cost(o, h)
          BY <3>0, <3>1, <3>3, <4>3, <5>1, <5>2 DEF Seen
        <5>4. Cost(d, x) < Cost(d, g)
          <6>1. Cost(d, i) < Cost(d, g) /\ (x = i \/ Cost(d, x) < Cost(d, i))
            BY <1>7, <1>9, <4>3
          <6>2. Cost(d, x) \in Nat /\ Cost(d, i) \in Nat /\ Cost(d, g) \in Nat
            BY <1>8, <1>10, <4>3
          <6> QED  BY <6>1, <6>2
        <5>5. Cost(d, x) \in Nat /\ Cost(d, g) \in Nat /\ Cost(o, h) \in Nat
          BY <1>8, <1>10, <3>0, <3>1, <4>3
        <5>6. Cost(d, g) + Cost(o, h) = bound
          BY <3>1, <4>3
        <5> QED  BY <5>3, <5>4, <5>5, <5>6
      <4> QED  BY <4>1, <4>2, <4>3
    <3> QED  BY <1>0, <3>0, <3>1, <3>2, <3>3, <3>4 DEF Meets
  <2> QED  BY <1>0, <1>1, <2>1, <2>2 DEF MeetOK
<1> QED  BY <1>5, <1>15, <1>16, <1>19, <1>20, <1>21, <1>24, <1>25, <1>26 DEF Inv

---------------------------------------------------------------------------
(* The search as a whole.                                                    *)

(* At first each direction that is searched has its root, and it is open.    *)
LEMMA InitFacts ==
    ASSUME Init
    PROVE  /\ TaskOK /\ pool \in [Dirs -> Seq(NodeRec)] /\ open \in [Dirs -> SUBSET Nat]
           /\ \A d \in Dirs : Searches(d) =>
                 /\ DOMAIN pool[d] = {1} /\ open[d] = {1} /\ Cost(d, 1) = 0
                 /\ Bdd(d, 1) = Source(d) /\ Source(d) \subseteq task.states
                 /\ pool[d][1].parent = NoNode /\ pool[d][1].parents = {}
           /\ \A d \in Dirs : ~Searches(d) => DOMAIN pool[d] = {} /\ open[d] = {}
           /\ \A d \in Dirs : closed[d] = {} /\ AllClosed(d) = {} /\ cont[d] = "cont"
                              /\ goalId[d] = NoNode
           /\ pc = "drive"
<1>1. TaskOK
  BY ParameterAssumption DEF Init, TaskOK
<1>2. \A d \in Dirs : Source(d) \subseteq task.states
  BY <1>1, TaskFacts DEF Source, Sources
<1>3. \A d \in Dirs : Root(Source(d)) \in NodeRec
  BY <1>2 DEF Root, NodeRec, NoNode
<1>4. ASSUME NEW d \in Dirs, Searches(d)
      PROVE  pool[d] = <<Root(Source(d))>>
  BY <1>4 DEF Init, Searches
<1>5. ASSUME NEW d \in Dirs, ~Searches(d) PROVE pool[d] = <<>>
  BY <1>5 DEF Init, Searches
<1>6. \A d \in Dirs : open[d] = DOMAIN pool[d]
  BY DEF Init
<1>7. ASSUME NEW d \in Dirs, Searches(d)
      PROVE  /\ DOMAIN pool[d] = {1} /\ Cost(d, 1) = 0
             /\ Bdd(d, 1) = Source(d)
             /\ pool[d][1].parent = NoNode /\ pool[d][1].parents = {}
  <2>1. pool[d] = <<Root(Source(d))>>
    BY <1>4, <1>7
  <2>2. DOMAIN pool[d] = {1} /\ pool[d][1] = Root(Source(d))
    BY <2>1
  <2> QED  BY <2>2 DEF Cost, Bdd, Root
<1>8. ASSUME NEW d \in Dirs, ~Searches(d) PROVE DOMAIN pool[d] = {}
  <2>1. pool[d] = <<>>
    BY <1>5, <1>8
  <2> QED  BY <2>1
<1>9. \A d \in Dirs : pool[d] \in Seq(NodeRec)
  <2>1. \A r \in NodeRec : <<r>> \in Seq(NodeRec)
    <3> HIDE DEF NodeRec
    <3> QED  OBVIOUS
  <2>2. <<>> \in Seq(NodeRec)
    OBVIOUS
  <2> QED  BY <1>3, <1>4, <1>5, <2>1, <2>2
<1>10. pool \in [Dirs -> Seq(NodeRec)]
  BY <1>9 DEF Init
<1>11. open \in [Dirs -> SUBSET Nat]
  <2>1. \A d \in Dirs : DOMAIN pool[d] \subseteq Nat
    BY <1>7, <1>8
  <2> QED  BY <2>1 DEF Init
<1>12. \A d \in Dirs : closed[d] = {} /\ AllClosed(d) = {} /\ cont[d] = "cont"
                       /\ goalId[d] = NoNode
  BY DEF Init, AllClosed
<1> QED  BY <1>1, <1>2, <1>6, <1>7, <1>8, <1>10, <1>11, <1>12 DEF Init

(* The invariant holds at first.                                             *)
LEMMA InitInv ==
    ASSUME Init
    PROVE  Inv
<1>1. /\ TaskOK /\ pool \in [Dirs -> Seq(NodeRec)] /\ open \in [Dirs -> SUBSET Nat]
      /\ \A d \in Dirs : Searches(d) =>
            /\ DOMAIN pool[d] = {1} /\ open[d] = {1} /\ Cost(d, 1) = 0
            /\ Bdd(d, 1) = Source(d) /\ Source(d) \subseteq task.states
            /\ pool[d][1].parent = NoNode /\ pool[d][1].parents = {}
      /\ \A d \in Dirs : ~Searches(d) => DOMAIN pool[d] = {} /\ open[d] = {}
      /\ \A d \in Dirs : closed[d] = {} /\ AllClosed(d) = {} /\ cont[d] = "cont"
                         /\ goalId[d] = NoNode
      /\ pc = "drive"
  BY InitFacts
<1>2. bound = MaxCost /\ plan = <<>> /\ tri = 1 /\ MaxCost \in Nat
  BY ParameterAssumption DEF Init
<1>3. TypeOK
  <2>1. /\ bound \in 0..MaxCost /\ tri \in 1..LastTrans + 1
        /\ plan \in Seq(task.states \X Nat \X task.states)
    <3>1. LastTrans \in Nat
      BY <1>1, TaskFacts
    <3> QED  BY <1>2, <3>1
  <2>2. {at, cut} \subseteq task.states /\ cur \in Nat /\ dir \in Dirs
    BY <1>1, TaskFacts DEF Init, NoNode, Dirs
  <2>3. closed \in [Dirs -> SUBSET Nat]
    BY DEF Init
  <2>4. /\ goalId \in [Dirs -> Nat]
        /\ cont \in [Dirs -> {"cont", "found", "notexist", "abort"}]
    BY DEF Init, NoNode
  <2>5. \A d \in Dirs : open[d] \cup closed[d] \subseteq DOMAIN pool[d]
    BY <1>1
  <2>6. pool \in [Dirs -> Seq([cost : Nat, parent : Nat, parents : SUBSET Nat,
                               trans : Nat, bdd : SUBSET task.states])]
    BY <1>1 DEF NodeRec
  <2> QED  BY <1>1, <2>1, <2>2, <2>3, <2>4, <2>5, <2>6 DEF TypeOK
<1>4. NodesOK
  <2> SUFFICES ASSUME NEW d \in Dirs, NEW i \in DOMAIN pool[d] PROVE NodeOK(d, i)
    BY DEF NodesOK
  <2>1. Searches(d) /\ i = 1
    BY <1>1
  <2>2. Cost(d, i) = 0 /\ Bdd(d, i) = Source(d) /\ pool[d][i].parents = {}
        /\ pool[d][i].parent = NoNode
    BY <1>1, <2>1
  <2>3. ASSUME NEW s \in Source(d) PROVE Within(d, s, 0)
    <3>1. Exact(d, s, 0)
      BY <1>1, WalkFrom
    <3>2. 0 \in Nat /\ 0 <= 0
      OBVIOUS
    <3> QED  BY <1>1, <3>1, <3>2, WithinIs
  <2> QED  BY <1>2, <2>2, <2>3 DEF NodeOK, IsRoot
<1>5. OpenOK
  <2>1. ASSUME NEW d \in Dirs PROVE Ready(d)
    <3>1. \A i \in open[d] : open[d] = {i} /\ pool[d][i].parents = {}
      BY <1>1
    <3> QED  BY <1>1, <3>1 DEF Ready
  <2> QED  BY <1>1, <2>1 DEF OpenOK
<1>6. HandOK /\ ClosedOK /\ TraceOK /\ EndOK /\ SeenOK
  BY <1>1 DEF HandOK, ClosedOK, TraceOK, EndOK, SeenOK
<1>7. FrontOK
  <2>1. ASSUME NEW d \in Dirs, Searches(d) PROVE Frontier(d)
    <3>1. 0 <= 0
      OBVIOUS
    <3> QED  BY <1>1, <2>1, <3>1 DEF Frontier, Covered
  <2> QED  BY <1>1, <2>1 DEF FrontOK
<1>8. MeetOK
  <2>1. ~(MaxCost < MaxCost) /\ goalId["fw"] = NoNode
    BY <1>1, <1>2 DEF Dirs
  <2> QED  BY <1>1, <1>2, <2>1 DEF MeetOK, NoneFound
<1>9. PlanOK
  <2>1. Units(plan) = {} /\ IsFiniteSet({})
    BY <1>2, FS_EmptySet DEF Units
  <2>2. Linked
    <3>1. \A i \in DOMAIN plan : FALSE
      BY <1>2
    <3> QED  BY <3>1 DEF Linked
  <2> QED  BY <1>1, <1>2, <2>1, <2>2 DEF PlanOK
<1> QED  BY <1>1, <1>3, <1>4, <1>5, <1>6, <1>7, <1>8, <1>9 DEF Inv

(* What holds of a state holds while nothing changes.                        *)
LEMMA StutterInv ==
    ASSUME Inv, UNCHANGED vars
    PROVE  Inv'
<1>0. /\ UNCHANGED <<task, mode, pool, open, closed, bound, goalId>>
      /\ task' = task /\ mode' = mode /\ pool' = pool /\ open' = open /\ closed' = closed
      /\ bound' = bound /\ goalId' = goalId /\ cont' = cont /\ pc' = pc /\ dir' = dir
      /\ cur' = cur /\ tri' = tri /\ at' = at /\ cut' = cut /\ plan' = plan
  BY DEF vars, nodeVars, stepVars, planVars
<1>1. \A e : Hand(e)' = Hand(e) /\ (Expanding(e)' <=> Expanding(e))
  BY <1>0 DEF Hand, Expanding, Bdd
<1>2. /\ \A d, i : Cost(d, i)' = Cost(d, i) /\ Bdd(d, i)' = Bdd(d, i)
      /\ \A d : /\ AllClosed(d)' = AllClosed(d) /\ (Ready(d)' <=> Ready(d))
                /\ (Searches(d)' <=> Searches(d)) /\ (Meets(d)' <=> Meets(d))
                /\ Settled(d)' = Settled(d)
      /\ \A d, i : Seen(d, i)' <=> Seen(d, i)
      /\ \A d, i, n : Bridged(d, i, n)' <=> Bridged(d, i, n)
      /\ \A d : (Frontier(d)' <=> Frontier(d)) /\ \A i, n : Followed(d, i, n)' <=> Followed(d, i, n)
      /\ Lost' <=> Lost
      /\ NodesOK' /\ ClosedOK'
  BY <1>0, <1>1, StillKept
<1>3. TypeOK'
  BY <1>0 DEF Inv, TypeOK, LastTrans
<1>4. TaskOK' /\ EndOK'
  BY <1>0, SameTask DEF Inv, TaskOK, EndOK
<1>5. OpenOK'
  BY <1>0, <1>1, <1>2 DEF Inv, OpenOK
<1>6. HandOK'
  <2>1. HandOK
    BY DEF Inv
  <2>2. /\ \A i : Cost(dir, i)' = Cost(dir, i)
        /\ Cost(dir, cur)' = Cost(dir, cur) /\ Bdd(dir, cur)' = Bdd(dir, cur)
        /\ AllClosed(dir)' = AllClosed(dir) /\ Settled(dir)' = Settled(dir)
        /\ (Searches(dir)' <=> Searches(dir)) /\ Target(dir)' = Target(dir)
    BY <1>0, <1>2, SameTask DEF Cost, Bdd, AllClosed, Settled, Searches, Target, Source
  <2> QED  BY <1>0, <2>1, <2>2, SameTask DEF HandOK
<1>7. FrontOK'
  <2>1. \A n : Followed(dir, cur, n)' <=> Followed(dir, cur, n)
    BY <1>0, <1>2
  <2> QED  BY <1>0, <1>2, <2>1 DEF Inv, FrontOK
<1>8. SeenOK'
  <2>1. /\ Seen(dir, cur)' <=> Seen(dir, cur)
        /\ \A n : Bridged(dir, cur, n)' <=> Bridged(dir, cur, n)
    BY <1>0, <1>2
  <2> QED  BY <1>0, <1>2, <2>1, SameTask DEF Inv, SeenOK
<1>9. (NoneFound' <=> NoneFound) /\ (Halves' <=> Halves)
  BY <1>0 DEF NoneFound, Halves
<1>10. MeetOK'
  BY <1>0, <1>2, <1>9 DEF Inv, MeetOK
<1>11. Rest' = Rest /\ First' = First /\ Last' = Last /\ Units(plan)' = Units(plan)
       /\ PlanCost' = PlanCost /\ (Linked' <=> Linked)
  BY <1>0 DEF Rest, Halves, NoneFound, First, Last, Units, PlanCost, Linked, LastTrans, Cost
<1>12. PlanOK'
  <2>1. \A c : IsLeast(c)' <=> IsLeast(c)
    BY <1>0, SameTask
  <2>2. IsLeast(PlanCost + Rest)' <=> IsLeast(PlanCost + Rest)
    BY <1>11, <2>1
  <2> QED  BY <1>0, <1>11, <2>2 DEF Inv, PlanOK
<1>13. TraceOK'
  BY <1>0, <1>9, <1>11 DEF Inv, TraceOK, Bdd
<1> QED  BY <1>2, <1>3, <1>4, <1>5, <1>6, <1>7, <1>8, <1>10, <1>12, <1>13 DEF Inv

(* Every step keeps the invariant.                                           *)
LEMMA NextInv ==
    ASSUME Inv, [Next]_vars
    PROVE  Inv'
<1>1. CASE UNCHANGED vars
  BY <1>1, StutterInv
<1>2. ASSUME NEW d \in Dirs, StepNone(d) PROVE Inv'
  BY <1>2, StepNoneKept
<1>3. ASSUME NEW d \in Dirs, StepEmpty(d) PROVE Inv'
  BY <1>3, StepEmptyKept
<1>4. ASSUME NEW d \in Dirs, StepGoal(d) PROVE Inv'
  BY <1>4, StepGoalKept
<1>5. ASSUME NEW d \in Dirs, StepOn(d) PROVE Inv'
  BY <1>5, StepOnKept
<1>6. ASSUME NEW d \in Dirs, StepNotExist(d) PROVE Inv'
  BY <1>6, StepNotExistKept
<1>7. CASE ExpandChild
  BY <1>7, ExpandChildKept
<1>8. CASE ExpandSkip
  BY <1>8, ExpandSkipKept
<1>9. CASE ExpandTimeOut
  BY <1>9, ExpandTimeOutKept
<1>10. CASE ExpandEnd
  BY <1>10, ExpandEndKept
<1>11. CASE NoMeeting
  BY <1>11, NoMeetingKept
<1>12. CASE Meeting
  BY <1>12, MeetingKept
<1>13. CASE TraceStep
  BY <1>13, TraceStepKept
<1>14. CASE TraceOther
  BY <1>14, TraceOtherKept
<1>15. CASE TraceEnd
  BY <1>15, TraceEndKept
<1> QED  BY <1>1, <1>2, <1>3, <1>4, <1>5, <1>6, <1>7, <1>8, <1>9, <1>10, <1>11, <1>12,
            <1>13, <1>14, <1>15 DEF Next

(* The invariant holds in every state of the search, of every task, in each  *)
(* of its modes, whether or not a backward step runs into its time limit.    *)
THEOREM SymbolicInductive == Spec => []Inv
<1>1. Init => Inv
  BY InitInv
<1>2. Inv /\ [Next]_vars => Inv'
  BY NextInv
<1> QED  BY <1>1, <1>2, PTL DEF Spec

(* The state of the search keeps its types: the open and the closed nodes    *)
(* are nodes, and the bound never rises above pddl_cost_max                  *)
(* (symbolic_task.c:684).                                                    *)
THEOREM SymbolicTypeCorrect == Spec => []TypeOK
<1>1. Inv => TypeOK
  BY DEF Inv
<1> QED  BY <1>1, SymbolicInductive, PTL

(* No state is closed before the cheapest way to it is known: a closed node  *)
(* holds states of exactly its cost, in both directions, though nodes of the *)
(* same cost are merged and closed states are taken out of open ones         *)
(* (symbolic_state.c:178).                                                   *)
THEOREM LayersExact == Spec => []ClosedExact
<1>1. ASSUME Inv PROVE ClosedExact
  <2>1. ASSUME NEW d \in Dirs, NEW i \in closed[d], NEW s \in Bdd(d, i)
        PROVE  <<s, Cost(d, i)>> \in task.shortest[d]
    BY <1>1 DEF Inv, ClosedOK, Exact
  <2> QED  BY <2>1 DEF ClosedExact
<1> QED  BY <1>1, SymbolicInductive, PTL

(* The halves of the best plan meet: their nodes cost the bound and share a  *)
(* state until the plan is extracted (symbolic_state.c:153).                 *)
THEOREM HalvesMeet == Spec => []MeetingHolds
<1>1. ASSUME Inv PROVE MeetingHolds
  <2> SUFFICES ASSUME Both, bound < MaxCost, "found" \notin Range(cont)
               PROVE  /\ NoNode \notin Range(goalId)
                      /\ Cost("fw", goalId["fw"]) + Cost("bw", goalId["bw"]) = bound
                      /\ Bdd("fw", goalId["fw"]) \cap Bdd("bw", goalId["bw"]) # {}
    BY DEF MeetingHolds
  <2>1. /\ TypeOK /\ MeetOK /\ cont \in [Dirs -> {"cont", "found", "notexist", "abort"}]
        /\ goalId \in [Dirs -> Nat]
    BY <1>1 DEF Inv, TypeOK
  <2>2. Halves
    BY <2>1 DEF Halves, NoneFound, Both, Range
  <2>3. PICK d \in Dirs : Meets(d)
    BY <2>1, <2>2 DEF MeetOK
  <2>4. PICK o : o = Other(d) /\ o \in Dirs /\ o # d /\ Dirs = {d, o}
    BY ArcTurns DEF Dirs, Other
  <2>5. goalId[d] \in DOMAIN pool[d] /\ goalId[o] \in DOMAIN pool[o]
    BY <2>1, <2>3, <2>4, NodeTypes DEF Meets
  <2>6. \A e \in Dirs : NoNode \notin DOMAIN pool[e]
    BY <2>1, NodeTypes DEF NoNode
  <2>7. NoNode \notin Range(goalId)
    BY <2>1, <2>4, <2>5, <2>6 DEF Range
  <2>8. /\ Cost(d, goalId[d]) + Cost(o, goalId[o]) = bound
        /\ Bdd(d, goalId[d]) \cap Bdd(o, goalId[o]) # {}
    BY <2>3, <2>4 DEF Meets
  <2>9. Cost(d, goalId[d]) \in Nat /\ Cost(o, goalId[o]) \in Nat
    BY <2>1, <2>4, <2>5, NodeTypes
  <2>10. (d = "fw" /\ o = "bw") \/ (d = "bw" /\ o = "fw")
    BY <2>4 DEF Dirs, Other
  <2> QED  BY <2>7, <2>8, <2>9, <2>10
<1> QED  BY <1>1, SymbolicInductive, PTL

(* The extraction never gets stuck, and what it returns is a plan: it leads  *)
(* from the initial state to the goal, edge by edge, through merged nodes    *)
(* and over the state where the halves meet.                                 *)
THEOREM SymbolicPlanCorrect == Spec => []PlanCorrect
<1>1. ASSUME Inv PROVE PlanCorrect
  <2>1. TypeOK /\ PlanOK /\ EndOK
    BY <1>1 DEF Inv
  <2> DEFINE state[i \in 0..Len(plan)] == IF i = 0 THEN task.init ELSE plan[i][3]
  <2>2. plan \in Seq(task.states \X Nat \X task.states)
    BY <2>1 DEF TypeOK
  <2>3. Len(plan) \in Nat /\ DOMAIN plan = 1..Len(plan) /\ (plan = <<>> <=> Len(plan) = 0)
    BY <2>2
  <2>4. \A i \in 0..Len(plan) : state[i] = IF i = 0 THEN task.init ELSE plan[i][3]
    OBVIOUS
  <2>5. ASSUME pc = "found" PROVE state[Len(plan)] \in task.goal
    <3>1. First = task.init /\ Last \in task.goal
      BY <2>1, <2>5 DEF PlanOK
    <3>2. state[Len(plan)] = IF Len(plan) = 0 THEN task.init ELSE plan[Len(plan)][3]
      BY <2>3, <2>4
    <3> HIDE DEF state
    <3>3. CASE plan = <<>>
      BY <2>3, <3>1, <3>2, <3>3 DEF First, Last
    <3>4. CASE plan # <<>>
      BY <2>3, <3>1, <3>2, <3>4 DEF Last
    <3> QED  BY <3>3, <3>4
  <2>6. ASSUME pc = "found", NEW i \in DOMAIN plan
        PROVE  /\ plan[i][1] = state[i - 1]
               /\ <<plan[i][1], plan[i][3]>> \in task.trans[plan[i][2]].edges
    <3>1. Linked /\ First = task.init
      BY <2>1, <2>6 DEF PlanOK
    <3>2. i \in 1..Len(plan) /\ i - 1 \in 0..Len(plan) /\ plan # <<>>
      BY <2>3
    <3>3. state[i - 1] = IF i - 1 = 0 THEN task.init ELSE plan[i - 1][3]
      BY <2>4, <3>2
    <3> HIDE DEF state
    <3>4. CASE i = 1
      <4>1. plan[1][1] = task.init
        BY <3>1, <3>2 DEF First
      <4> QED  BY <3>1, <3>3, <3>4, <4>1 DEF Linked
    <3>5. CASE i # 1
      <4>1. i > 1 /\ i - 1 # 0
        BY <2>3, <3>2, <3>5
      <4> QED  BY <3>1, <3>3, <4>1 DEF Linked
    <3> QED  BY <3>4, <3>5
  <2>7. pc # "panic"
    BY <2>1 DEF EndOK
  <2> QED  BY <2>5, <2>6, <2>7 DEF PlanCorrect
<1> QED  BY <1>1, SymbolicInductive, PTL

(* A plan that is found is a cheapest one, unless a backward step ran out of *)
(* time, and that none exists is said only when none does, also after a      *)
(* backward step ran out of time (pddlSymbolicTaskSearch).                   *)
THEOREM SymbolicAnswer == Spec => []AnswerRight
<1>1. ASSUME Inv PROVE AnswerRight
  <2>1. TypeOK /\ TaskOK /\ PlanOK /\ EndOK
    BY <1>1 DEF Inv
  <2>2. ASSUME cont["bw"] # "abort", pc = "found" PROVE PlanCost = Min(GoalCosts)
    <3>1. IsLeast(PlanCost + Rest) /\ Rest = 0
      BY <2>1, <2>2 DEF PlanOK, Rest
    <3>2. PlanCost \in Nat
      BY <2>1, FS_CardinalityType DEF PlanOK, PlanCost
    <3>3. PlanCost \in GoalCosts /\ \A x \in GoalCosts : PlanCost <= x
      <4>1. PlanCost + Rest = PlanCost
        BY <3>1, <3>2
      <4> QED  BY <3>1, <4>1 DEF IsLeast
    <3>4. GoalCosts \in SUBSET Nat
      BY <2>1, GoalCostIs
    <3>5. Min(GoalCosts) \in GoalCosts /\ \A x \in GoalCosts : Min(GoalCosts) <= x
      BY <3>3, <3>4, MinOfNat
    <3>6. PICK m : m = Min(GoalCosts) /\ m \in Nat
      BY <3>4, <3>5
    <3>7. m \in GoalCosts /\ m <= PlanCost /\ PlanCost <= m
      BY <3>3, <3>5, <3>6
    <3>8. m = PlanCost
      BY <3>2, <3>6, <3>7
    <3> QED  BY <3>6, <3>8
  <2>3. pc = "notexist" => GoalCosts = {}
    BY <2>1 DEF EndOK
  <2> QED  BY <2>2, <2>3 DEF AnswerRight, OptimalPlan
<1> QED  BY <1>1, SymbolicInductive, PTL
=============================================================================
