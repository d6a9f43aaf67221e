--------------------------- MODULE TickPlannerProofs ---------------------------
(***************************************************************************)
(* Proofs about PlanTick, for any targets, cadences, budget and share and  *)
(* for all rows that the TICK handler may read: what the order of the      *)
(* candidates is, what the two passes over them keep, and what therefore   *)
(* holds of a plan.                                                        *)
(***************************************************************************)
EXTENDS TickPlanner, FiniteSetTheorems, WellFoundedInduction, NaturalsInduction, TLAPS

\* What the planner reads of a target.
PlannerRow ==
    [since : Nat \cup {Never}, lease : Nat, status : {"IDLE", "RUNNING", "ERROR", "BLOCKED"},
     fail : Nat, full : BOOLEAN, live : BOOLEAN]

-------------------------------------------------------------------------------
(* Numbers and ranks.                                                       *)

Less == {ss \in Nat \X Nat : ss[1] < ss[2]}

LEMMA LessIsWellFounded == IsWellFoundedOn(Less, Nat)
BY NatLessThanWellFounded DEF OpToRel, Less

\* A set of numbers that has 0 and goes on has them all.
LEMMA AllNumbers ==
    ASSUME NEW S, 0 \in S, \A n \in Nat : n \in S => n + 1 \in S
    PROVE  Nat \subseteq S
<1>1. SUFFICES ASSUME Nat \ S # {}
               PROVE  FALSE
  OBVIOUS
<1>2. PICK n \in Nat \ S : \A m \in Nat \ S : ~(<<m, n>> \in Less)
  BY <1>1, LessIsWellFounded, WFMin
<1>3. n - 1 \in Nat /\ n - 1 < n
  BY <1>2
<1>4. n - 1 \in S
  BY <1>2, <1>3 DEF Less
<1> QED
  BY <1>2, <1>3, <1>4

\* R puts the members of S into a row.
Orders(R, S) ==
    /\ \A t \in S : <<t, t>> \notin R
    /\ \A t, u \in S : t # u => <<t, u>> \in R \/ <<u, t>> \in R
    /\ \A t, u, v \in S : <<t, u>> \in R /\ <<u, v>> \in R => <<t, v>> \in R

Preceding(R, S, t) == {u \in S : <<u, t>> \in R}

LEMMA RankIsSmall ==
    ASSUME NEW S, IsFiniteSet(S), NEW R, Orders(R, S), NEW t \in S
    PROVE  /\ IsFiniteSet(Preceding(R, S, t))
           /\ Cardinality(Preceding(R, S, t)) \in 0 .. Cardinality(S) - 1
<1>1. Preceding(R, S, t) \subseteq S \ {t}
  BY DEF Preceding, Orders
<1>2. IsFiniteSet(S \ {t}) /\ Cardinality(S \ {t}) = Cardinality(S) - 1
  BY FS_RemoveElement
<1>3. IsFiniteSet(Preceding(R, S, t)) /\ Cardinality(Preceding(R, S, t)) <= Cardinality(S \ {t})
  BY <1>1, <1>2, FS_Subset
<1> QED
  BY <1>2, <1>3, FS_CardinalityType

LEMMA RankGrows ==
    ASSUME NEW S, IsFiniteSet(S), NEW R, Orders(R, S), NEW t \in S, NEW u \in S, <<t, u>> \in R
    PROVE  Cardinality(Preceding(R, S, t)) < Cardinality(Preceding(R, S, u))
<1>1. Preceding(R, S, t) \subseteq Preceding(R, S, u)
  BY DEF Preceding, Orders
<1>2. t \in Preceding(R, S, u) /\ t \notin Preceding(R, S, t)
  BY DEF Preceding, Orders
<1>3. IsFiniteSet(Preceding(R, S, u)) /\ Cardinality(Preceding(R, S, u)) \in Nat
  BY RankIsSmall, FS_CardinalityType
<1>4. /\ Cardinality(Preceding(R, S, t)) <= Cardinality(Preceding(R, S, u))
      /\ Cardinality(Preceding(R, S, t)) # Cardinality(Preceding(R, S, u))
      /\ Cardinality(Preceding(R, S, t)) \in Nat
  BY <1>1, <1>2, <1>3, FS_Subset, FS_CardinalityType
<1> QED
  BY <1>3, <1>4

\* Every rank is somebody's.
LEMMA RankIsTaken ==
    ASSUME NEW S, IsFiniteSet(S), NEW R, Orders(R, S), NEW i \in 1 .. Cardinality(S)
    PROVE  \E t \in S : Cardinality(Preceding(R, S, t)) = i - 1
<1> DEFINE n    == Cardinality(S)
           rank == [t \in S |-> Cardinality(Preceding(R, S, t)) + 1]
<1>1. n \in Nat
  BY FS_CardinalityType
<1>2. \A t \in S : rank[t] \in 1 .. n
  BY <1>1, RankIsSmall
<1>3. \A t, u \in S : t # u => rank[t] # rank[u]
  <2>1. SUFFICES ASSUME NEW t \in S, NEW u \in S, <<t, u>> \in R
                 PROVE  rank[t] # rank[u]
    BY DEF Orders
  <2>2. Cardinality(Preceding(R, S, t)) < Cardinality(Preceding(R, S, u))
    BY <2>1, RankGrows
  <2>3. Cardinality(Preceding(R, S, t)) \in Nat /\ Cardinality(Preceding(R, S, u)) \in Nat
    BY <1>1, RankIsSmall
  <2> QED
    BY <2>2, <2>3
<1>4. rank \in Injection(S, 1 .. n)
  <2>1. rank \in [S -> 1 .. n]
    BY <1>2
  <2>2. IsInjective(rank)
    BY <1>3 DEF IsInjective
  <2> QED
    BY <2>1, <2>2 DEF Injection
<1>5. IsFiniteSet(1 .. n) /\ Cardinality(1 .. n) = n
  BY <1>1, FS_Interval
<1>6. rank \in Surjection(S, 1 .. n)
  BY <1>4, <1>5, FS_Injection
<1>7. PICK t \in S : rank[t] = i
  BY <1>6 DEF Surjection
<1>8. Cardinality(Preceding(R, S, t)) \in Nat
  BY <1>1, RankIsSmall
<1> QED
  BY <1>7, <1>8

-------------------------------------------------------------------------------
(* The candidates are all that is due, each once, most overdue first.       *)

\* c has every member of S once, in the order R.
Lists(c, S, R) ==
    /\ c \in [1 .. Cardinality(S) -> S]
    /\ \A i, j \in 1 .. Cardinality(S) : i < j => <<c[i], c[j]>> \in R
    /\ \A t \in S : \E i \in 1 .. Cardinality(S) : c[i] = t

LEMMA RanksList ==
    ASSUME NEW S, IsFiniteSet(S), NEW R, Orders(R, S), NEW c, DOMAIN c = 1 .. Cardinality(S),
           c = [i \in DOMAIN c |-> c[i]],
           \A i \in 1 .. Cardinality(S) :
              c[i] \in S /\ Cardinality(Preceding(R, S, c[i])) = i - 1
    PROVE  Lists(c, S, R)
<1>1. Cardinality(S) \in Nat
  BY FS_CardinalityType
<1>2. ASSUME NEW i \in 1 .. Cardinality(S), NEW j \in 1 .. Cardinality(S), i < j
      PROVE  <<c[i], c[j]>> \in R
  <2>1. c[i] # c[j]
    BY <1>1, <1>2
  <2>2. ~(<<c[j], c[i]>> \in R)
    BY <1>1, <1>2, RankGrows
  <2> QED
    BY <2>1, <2>2 DEF Orders
<1>3. ASSUME NEW t \in S
      PROVE  \E i \in 1 .. Cardinality(S) : c[i] = t
  <2> DEFINE k == Cardinality(Preceding(R, S, t)) + 1
  <2>1. k \in 1 .. Cardinality(S)
    BY <1>1, RankIsSmall
  <2>2. Cardinality(Preceding(R, S, c[k])) = Cardinality(Preceding(R, S, t)) /\ c[k] \in S
        /\ Cardinality(Preceding(R, S, t)) \in Nat
    BY <1>1, <2>1, RankIsSmall
  <2> HIDE DEF k
  <2>3. ~(<<c[k], t>> \in R) /\ ~(<<t, c[k]>> \in R)
    BY <2>2, RankGrows
  <2>4. c[k] = t
    BY <2>2, <2>3 DEF Orders
  <2> QED
    BY <2>1, <2>4
<1> QED
  BY <1>2, <1>3 DEF Lists

PlannerRows == [Targets -> PlannerRow]

LEMMA CapIsNat == FullCap \in Nat /\ MaxWorkers \in Nat \ {0}
<1>1. MaxWorkers \in Nat \ {0} /\ FullShare \in Nat
  BY TickPlannerAssumption
<1>2. MaxWorkers * FullShare \in Nat
  BY <1>1
<1>3. (MaxWorkers * FullShare) \div 100 \in Nat
  BY <1>2
<1>4. \A x \in Nat : Max({1, x}) \in Nat
  BY DEF Max
<1> QED
  BY <1>1, <1>3, <1>4 DEF FullCap

LEMMA DelaysAreNumbers ==
    ASSUME NEW r \in PlannerRows, NEW t \in Targets
    PROVE  Needed(r, t) \in Int /\ Since(r, t) \in Int /\ Overdue(r, t) \in Int
<1>1. Interval[t] \in Nat /\ TickSecs \in Nat /\ r[t].since \in Nat \cup {Never}
  BY TickPlannerAssumption DEF PlannerRows, PlannerRow
<1>2. r[t].fail \in Nat /\ MaxShift \in Nat
  BY TickPlannerAssumption DEF PlannerRows, PlannerRow
<1>3. Min({r[t].fail, MaxShift}) \in Nat
  BY <1>2 DEF Min
<1>4. Needed(r, t) \in Int
  BY <1>1, <1>3 DEF Needed
<1>5. Since(r, t) \in Int
  BY <1>1, <1>4 DEF Since
<1> QED
  BY <1>4, <1>5 DEF Overdue

DueTargets(r) == {t \in Targets : Due(r, t)}

Order(r) == {ss \in Targets \X Targets : Before(r, ss[1], ss[2])}

LEMMA BeforeOrders ==
    ASSUME NEW r \in PlannerRows, NEW S \in SUBSET Targets
    PROVE  Orders(Order(r), S)
<1>1. \A t \in Targets : Overdue(r, t) \in Int /\ Name[t] \in Int
  BY DelaysAreNumbers, TickPlannerAssumption
<1>2. \A t, u \in S : <<t, u>> \in Order(r) <=> Before(r, t, u)
  BY DEF Order
<1>3. \A t \in S : <<t, t>> \notin Order(r)
  BY <1>1, <1>2 DEF Before
<1>4. \A t, u \in S : t # u => <<t, u>> \in Order(r) \/ <<u, t>> \in Order(r)
  BY <1>1, <1>2, TickPlannerAssumption DEF Before
<1>5. \A t, u, v \in S : <<t, u>> \in Order(r) /\ <<u, v>> \in Order(r) => <<t, v>> \in Order(r)
  BY <1>1, <1>2 DEF Before
<1> QED
  BY <1>3, <1>4, <1>5 DEF Orders

LEMMA CandidatesAreListed ==
    ASSUME NEW r \in PlannerRows
    PROVE  Lists(Candidates(r), DueTargets(r), Order(r))
<1> DEFINE S == DueTargets(r)
           c == Candidates(r)
<1>1. S \subseteq Targets /\ IsFiniteSet(S)
  BY FS_Subset, TickPlannerAssumption DEF DueTargets
<1>2. Orders(Order(r), S)
  BY <1>1, BeforeOrders
<1>3. c = [i \in 1 .. Cardinality(S) |->
              CHOOSE t \in S : Cardinality({u \in S : Before(r, u, t)}) = i - 1]
  BY DEF Candidates, Ranked, DueTargets
<1>4. \A t \in S : Preceding(Order(r), S, t) = {u \in S : Before(r, u, t)}
  BY <1>1 DEF Preceding, Order
<1>5. ASSUME NEW i \in 1 .. Cardinality(S)
      PROVE  c[i] \in S /\ Cardinality(Preceding(Order(r), S, c[i])) = i - 1
  <2>1. PICK t \in S : Cardinality(Preceding(Order(r), S, t)) = i - 1
    BY <1>1, <1>2, RankIsTaken
  <2>2. \E x \in S : Cardinality({u \in S : Before(r, u, x)}) = i - 1
    BY <1>4, <2>1
  <2>3. c[i] = CHOOSE x \in S : Cardinality({u \in S : Before(r, u, x)}) = i - 1
    BY <1>3
  <2>4. c[i] \in S /\ Cardinality({u \in S : Before(r, u, c[i])}) = i - 1
    BY <2>2, <2>3
  <2> QED
    BY <1>4, <2>4
<1> HIDE DEF c, S
<1> QED
  BY <1>1, <1>2, <1>3, <1>5, RanksList DEF c, S

-------------------------------------------------------------------------------
(* A pass over a list is a fold: what stands after i members comes from what *)
(* stood after i - 1.                                                        *)

\* it is what the fold of G over the first m members computes, for each set of places.
Folds(it, m, P, G, base, list) ==
    /\ it \in [SUBSET (1 .. m) -> P]
    /\ \A s \in SUBSET (1 .. m) :
          it[s] = IF s = {} THEN base ELSE G[<<it[s \ {Max(s)}], list[Max(s)]>>]

LEMMA MaxOfInitial ==
    ASSUME NEW n \in Nat, NEW s \in SUBSET (1 .. n + 1), n + 1 \in s
    PROVE  Max(s) = n + 1 /\ s \ {n + 1} \in SUBSET (1 .. n)
<1>1. \A x \in s : n + 1 >= x
  OBVIOUS
<1>2. \A x \in s : (\A y \in s : x >= y) => x = n + 1
  BY <1>1
<1>3. \E x \in s : \A y \in s : x >= y
  BY <1>1
<1>4. Max(s) = n + 1
  BY <1>2, <1>3 DEF Max
<1> QED
  BY <1>4

LEMMA MaxIsMember ==
    ASSUME NEW n \in Nat, NEW s \in SUBSET (1 .. n), s # {}
    PROVE  Max(s) \in s
<1> DEFINE K == {m \in Nat : \A u \in SUBSET (1 .. m) : u # {} => Max(u) \in u}
<1>1. 0 \in K
  <2>1. \A u \in SUBSET (1 .. 0) : u = {}
    OBVIOUS
  <2> QED
    BY <2>1
<1>2. ASSUME NEW m \in Nat, m \in K
      PROVE  m + 1 \in K
  <2>1. SUFFICES ASSUME NEW u \in SUBSET (1 .. m + 1), u # {}
                 PROVE  Max(u) \in u
    OBVIOUS
  <2>2. CASE m + 1 \in u
    BY <2>2, MaxOfInitial
  <2>3. CASE m + 1 \notin u
    <3>1. u \in SUBSET (1 .. m)
      BY <2>3
    <3> QED
      BY <1>2, <2>1, <3>1
  <2> QED
    BY <2>2, <2>3
<1> HIDE DEF K
<1>3. n \in K
  BY <1>1, <1>2, AllNumbers
<1> QED
  BY <1>3 DEF K

LEMMA FoldExists ==
    ASSUME NEW P, NEW T, NEW G \in [P \X T -> P], NEW base \in P,
           NEW n \in Nat, NEW list \in [1 .. n -> T]
    PROVE  \E it : Folds(it, n, P, G, base, list)
<1> DEFINE K == {m \in Nat : m <= n => \E it : Folds(it, m, P, G, base, list)}
<1>1. 0 \in K
  <2> DEFINE it == [s \in SUBSET (1 .. 0) |-> base]
  <2>1. \A s \in SUBSET (1 .. 0) : s = {}
    OBVIOUS
  <2>2. Folds(it, 0, P, G, base, list)
    BY <2>1 DEF Folds
  <2> QED
    BY <2>2
<1>2. ASSUME NEW m \in Nat, m \in K
      PROVE  m + 1 \in K
  <2>1. SUFFICES ASSUME m + 1 <= n
                 PROVE  \E it : Folds(it, m + 1, P, G, base, list)
    OBVIOUS
  <2>2. PICK h : Folds(h, m, P, G, base, list)
    BY <1>2, <2>1
  <2> DEFINE it == [s \in SUBSET (1 .. m + 1) |->
                       IF m + 1 \in s THEN G[<<h[s \ {m + 1}], list[m + 1]>>] ELSE h[s]]
  <2>3. list[m + 1] \in T
    BY <2>1
  <2>4. ASSUME NEW s \in SUBSET (1 .. m + 1)
        PROVE  it[s] \in P
    <3>1. CASE m + 1 \in s
      <4>1. h[s \ {m + 1}] \in P
        BY <2>2, <3>1, MaxOfInitial DEF Folds
      <4> QED
        BY <2>3, <3>1, <4>1
    <3>2. CASE m + 1 \notin s
      <4>1. s \in SUBSET (1 .. m)
        BY <3>2
      <4> QED
        BY <2>2, <3>2, <4>1 DEF Folds
    <3> QED
      BY <3>1, <3>2
  <2>5. ASSUME NEW s \in SUBSET (1 .. m + 1)
        PROVE  it[s] = IF s = {} THEN base ELSE G[<<it[s \ {Max(s)}], list[Max(s)]>>]
    <3>1. CASE m + 1 \in s
      <4>1. Max(s) = m + 1 /\ s \ {m + 1} \in SUBSET (1 .. m)
        BY <3>1, MaxOfInitial
      <4>2. it[s \ {m + 1}] = h[s \ {m + 1}] /\ it[s] = G[<<h[s \ {m + 1}], list[m + 1]>>]
        BY <3>1, <4>1
      <4> QED
        BY <3>1, <4>1, <4>2
    <3>2. CASE s = {}
      <4>1. it[s] = h[s] /\ h[s] = base
        BY <2>2, <3>2 DEF Folds
      <4> QED
        BY <3>2, <4>1
    <3>3. CASE m + 1 \notin s /\ s # {}
      <4>1. s \in SUBSET (1 .. m) /\ it[s] = h[s]
        BY <3>3
      <4>2. h[s] = G[<<h[s \ {Max(s)}], list[Max(s)]>>]
        BY <2>2, <3>3, <4>1 DEF Folds
      <4>3. s \ {Max(s)} \in SUBSET (1 .. m + 1) /\ m + 1 \notin s \ {Max(s)}
        BY <3>3
      <4>4. it[s \ {Max(s)}] = h[s \ {Max(s)}]
        BY <4>3
      <4> QED
        BY <3>3, <4>1, <4>2, <4>4
    <3> QED
      BY <3>1, <3>2, <3>3
  <2>6. DOMAIN it = SUBSET (1 .. m + 1) /\ it = [s \in DOMAIN it |-> it[s]]
    OBVIOUS
  <2> HIDE DEF it
  <2>7. Folds(it, m + 1, P, G, base, list)
    BY <2>4, <2>5, <2>6 DEF Folds
  <2> QED
    BY <2>7
<1> HIDE DEF K
<1>3. n \in K
  BY <1>1, <1>2, AllNumbers
<1> QED
  BY <1>3 DEF K

\* The places before the last.
LEMMA Initials ==
    ASSUME NEW n \in Nat
    PROVE  /\ 1 .. 0 = {} /\ 1 .. 0 \in SUBSET (1 .. n)
           /\ \A i \in 0 .. n - 1 : /\ 1 .. i + 1 \in SUBSET (1 .. n) /\ 1 .. i + 1 # {}
                                    /\ Max(1 .. i + 1) = i + 1
                                    /\ (1 .. i + 1) \ {i + 1} = 1 .. i
<1>1. 1 .. 0 = {} /\ 1 .. 0 \in SUBSET (1 .. n)
  OBVIOUS
<1>2. ASSUME NEW i \in 0 .. n - 1
      PROVE  /\ 1 .. i + 1 \in SUBSET (1 .. n) /\ 1 .. i + 1 # {}
             /\ Max(1 .. i + 1) = i + 1
             /\ (1 .. i + 1) \ {i + 1} = 1 .. i
  <2>1. 1 .. i + 1 \in SUBSET (1 .. n) /\ i + 1 \in 1 .. i + 1
    OBVIOUS
  <2>2. Max(1 .. i + 1) = i + 1
    BY <2>1, MaxOfInitial
  <2>3. (1 .. i + 1) \ {i + 1} = 1 .. i
    OBVIOUS
  <2> QED
    BY <2>1, <2>2, <2>3
<1> QED
  BY <1>1, <1>2

-------------------------------------------------------------------------------
(* The two passes.                                                          *)

TickPlans == [run : Seq(Targets), deferred : Seq(Targets)]

Nothing == [run |-> <<>>, deferred |-> <<>>]

LEMMA StepsArePlans ==
    ASSUME NEW r, NEW p \in TickPlans, NEW t \in Targets
    PROVE  Consider(r, p, t) \in TickPlans /\ GiveBack(r, p, t) \in TickPlans
<1>1. Append(p.run, t) \in Seq(Targets) /\ Append(p.deferred, t) \in Seq(Targets)
  BY DEF TickPlans
<1>2. [p EXCEPT !.run = Append(@, t)] \in TickPlans /\ [p EXCEPT !.deferred = Append(@, t)] \in TickPlans
  BY <1>1 DEF TickPlans
<1> QED
  BY <1>2 DEF Consider, GiveBack

\* One member in either pass.
Pass(r, way, p, t) == IF way = "back" THEN GiveBack(r, p, t) ELSE Consider(r, p, t)

Carries(it, r, way, base, c) ==
    it = [s \in SUBSET DOMAIN c |->
             IF s = {} THEN base ELSE Pass(r, way, it[s \ {Max(s)}], c[Max(s)])]

LEMMA PassExists ==
    ASSUME NEW r, NEW way, NEW base \in TickPlans,
           NEW n \in Nat, NEW c \in [1 .. n -> Targets]
    PROVE  \E it : Carries(it, r, way, base, c)
<1> DEFINE G == [ss \in TickPlans \X Targets |-> Pass(r, way, ss[1], ss[2])]
<1>1. G \in [TickPlans \X Targets -> TickPlans]
  BY StepsArePlans DEF Pass
<1>2. PICK h : Folds(h, n, TickPlans, G, base, c)
  <2> HIDE DEF G
  <2> QED
    BY <1>1, FoldExists
<1>3. DOMAIN c = 1 .. n /\ h = [s \in SUBSET (1 .. n) |-> h[s]]
  BY <1>2 DEF Folds
<1>4. ASSUME NEW s \in SUBSET (1 .. n)
      PROVE  h[s] = IF s = {} THEN base ELSE Pass(r, way, h[s \ {Max(s)}], c[Max(s)])
  <2>1. h[s] = IF s = {} THEN base ELSE G[<<h[s \ {Max(s)}], c[Max(s)]>>]
    BY <1>2 DEF Folds
  <2>2. s # {} => h[s \ {Max(s)}] \in TickPlans /\ c[Max(s)] \in Targets
    BY <1>2, MaxIsMember DEF Folds
  <2> QED
    BY <2>1, <2>2
<1> QED
  BY <1>3, <1>4 DEF Carries

LEMMA PassSteps ==
    ASSUME NEW r, NEW way, NEW base, NEW n \in Nat, NEW c \in [1 .. n -> Targets],
           NEW it, Carries(it, r, way, base, c)
    PROVE  \E f : /\ f[0] = base /\ f[n] = it[DOMAIN c]
                  /\ \A i \in 0 .. n - 1 : f[i + 1] = Pass(r, way, f[i], c[i + 1])
<1> DEFINE f == [i \in 0 .. n |-> it[1 .. i]]
<1>1. \A s \in SUBSET (1 .. n) :
         it[s] = IF s = {} THEN base ELSE Pass(r, way, it[s \ {Max(s)}], c[Max(s)])
  BY DEF Carries
<1>2. f[0] = base /\ f[n] = it[DOMAIN c]
  <2>1. 1 .. 0 = {} /\ 1 .. 0 \in SUBSET (1 .. n) /\ DOMAIN c = 1 .. n
    BY Initials
  <2>2. it[1 .. 0] = base
    BY <1>1, <2>1
  <2>3. f[0] = it[1 .. 0] /\ f[n] = it[1 .. n]
    OBVIOUS
  <2> QED
    BY <2>1, <2>2, <2>3
<1>3. ASSUME NEW i \in 0 .. n - 1
      PROVE  f[i + 1] = Pass(r, way, f[i], c[i + 1])
  <2>1. /\ 1 .. i + 1 \in SUBSET (1 .. n) /\ 1 .. i + 1 # {}
        /\ Max(1 .. i + 1) = i + 1 /\ (1 .. i + 1) \ {i + 1} = 1 .. i
    BY Initials
  <2>2. it[1 .. i + 1] = Pass(r, way, it[1 .. i], c[i + 1])
    BY <1>1, <2>1
  <2>3. f[i + 1] = it[1 .. i + 1] /\ f[i] = it[1 .. i]
    OBVIOUS
  <2> QED
    BY <2>2, <2>3
<1> HIDE DEF f
<1> QED
  BY <1>2, <1>3

LEMMA FirstPassSteps ==
    ASSUME NEW r, NEW n \in Nat, NEW c \in [1 .. n -> Targets], c = Candidates(r)
    PROVE  \E f : /\ f[0] = Nothing /\ f[n] = FirstPass(r)
                  /\ \A i \in 0 .. n - 1 : f[i + 1] = Consider(r, f[i], c[i + 1])
<1> DEFINE Up(it) == it = [s \in SUBSET DOMAIN c |->
                              IF s = {} THEN Nothing
                              ELSE Consider(r, it[s \ {Max(s)}], c[Max(s)])]
           it == CHOOSE it : Up(it)
<1>1. \A h : Carries(h, r, "first", Nothing, c) <=> Up(h)
  BY DEF Carries, Pass
<1>2. \E h : Carries(h, r, "first", Nothing, c)
  <2>1. Nothing \in TickPlans
    BY DEF TickPlans, Nothing
  <2> QED
    BY <2>1, PassExists
<1>3. Up(it)
  BY <1>1, <1>2
<1>4. FirstPass(r) = it[DOMAIN c]
  BY DEF FirstPass, FoldLeft, MapThenFoldSet, Nothing
<1> HIDE DEF it
<1>5. Carries(it, r, "first", Nothing, c)
  BY <1>1, <1>3
<1>6. PICK f : /\ f[0] = Nothing /\ f[n] = it[DOMAIN c]
               /\ \A i \in 0 .. n - 1 : f[i + 1] = Pass(r, "first", f[i], c[i + 1])
  <2> HIDE DEF Up
  <2> QED
    BY <1>5, PassSteps
<1> QED
  BY <1>4, <1>6 DEF Pass

\* The second pass, over what the first has deferred.
LEMMA GiveBackSteps ==
    ASSUME NEW r, NEW p \in TickPlans, p = FirstPass(r), Reserved(r) = 1, ~HasTrigger(p),
           NEW n \in Nat, NEW c \in [1 .. n -> Targets], c = p.deferred
    PROVE  \E f : /\ f[0] = p /\ f[n].run = PlanTick(r)
                  /\ \A i \in 0 .. n - 1 : f[i + 1] = GiveBack(r, f[i], c[i + 1])
<1> DEFINE Up(it) == it = [s \in SUBSET DOMAIN c |->
                              IF s = {} THEN p
                              ELSE GiveBack(r, it[s \ {Max(s)}], c[Max(s)])]
           it == CHOOSE it : Up(it)
<1>1. \A h : Carries(h, r, "back", p, c) <=> Up(h)
  BY DEF Carries, Pass
<1>2. \E h : Carries(h, r, "back", p, c)
  BY PassExists
<1>3. Up(it)
  BY <1>1, <1>2
<1>4. PlanTick(r) = it[DOMAIN c].run
  BY DEF PlanTick, FoldLeft, MapThenFoldSet
<1> HIDE DEF it
<1>5. Carries(it, r, "back", p, c)
  BY <1>1, <1>3
<1>6. PICK f : /\ f[0] = p /\ f[n] = it[DOMAIN c]
               /\ \A i \in 0 .. n - 1 : f[i + 1] = Pass(r, "back", f[i], c[i + 1])
  <2> HIDE DEF Up
  <2> QED
    BY <1>5, PassSteps
<1> QED
  BY <1>4, <1>6 DEF Pass

LEMMA AppendOne ==
    ASSUME NEW s \in Seq(Targets), NEW t \in Targets
    PROVE  /\ Append(s, t) \in Seq(Targets) /\ Len(Append(s, t)) = Len(s) + 1 /\ Len(s) \in Nat
           /\ Range(Append(s, t)) = Range(s) \cup {t}
           /\ IsInjective(s) /\ t \notin Range(s) => IsInjective(Append(s, t))
           /\ \A i \in DOMAIN s : Append(s, t)[i] = s[i]
           /\ Append(s, t)[Len(s) + 1] = t
           /\ DOMAIN s = 1 .. Len(s) /\ DOMAIN Append(s, t) = 1 .. Len(s) + 1
<1>1. /\ Len(s) \in Nat /\ DOMAIN s = 1 .. Len(s)
      /\ Append(s, t) \in Seq(Targets) /\ Len(Append(s, t)) = Len(s) + 1
      /\ DOMAIN Append(s, t) = 1 .. Len(s) + 1
  OBVIOUS
<1>2. (\A i \in 1 .. Len(s) : Append(s, t)[i] = s[i]) /\ Append(s, t)[Len(s) + 1] = t
  OBVIOUS
<1>3. Range(Append(s, t)) = Range(s) \cup {t}
  <2>1. \A x : x \in Range(Append(s, t)) <=> \E i \in 1 .. Len(s) + 1 : x = Append(s, t)[i]
    BY <1>1 DEF Range
  <2>2. \A x : x \in Range(s) <=> \E i \in 1 .. Len(s) : x = s[i]
    BY <1>1 DEF Range
  <2>3. \A i : i \in 1 .. Len(s) + 1 <=> (i \in 1 .. Len(s) \/ i = Len(s) + 1)
    BY <1>1
  <2> QED
    BY <1>2, <2>1, <2>2, <2>3
<1>4. ASSUME IsInjective(s), t \notin Range(s)
      PROVE  IsInjective(Append(s, t))
  <2>1. \A i \in 1 .. Len(s) : s[i] # t
    BY <1>1, <1>4 DEF Range
  <2> QED
    BY <1>1, <1>2, <1>4, <2>1 DEF IsInjective
<1> QED
  BY <1>1, <1>2, <1>3, <1>4

LEMMA FullsNat ==
    ASSUME NEW r, NEW p \in TickPlans
    PROVE  Fulls(r, p) \in Nat
<1> DEFINE s == p.run
<1>1. s \in Seq(Targets)
  BY DEF TickPlans
<1> HIDE DEF s
<1>2. IsFiniteSet(1 .. Len(s)) /\ DOMAIN s = 1 .. Len(s)
  BY <1>1, FS_Interval
<1>3. IsFiniteSet({i \in DOMAIN s : r[s[i]].full})
  BY <1>2, FS_Subset
<1> QED
  BY <1>3, FS_CardinalityType DEF Fulls, s

LEMMA FullsOne ==
    ASSUME NEW r, NEW p \in TickPlans, NEW t \in Targets, NEW q, q.run = Append(p.run, t)
    PROVE  /\ Fulls(r, p) \in Nat /\ Fulls(r, q) \in Nat
           /\ Fulls(r, q) = Fulls(r, p) + (IF r[t].full THEN 1 ELSE 0)
<1> DEFINE s == p.run
           F == {i \in DOMAIN s : r[s[i]].full}
<1>1. s \in Seq(Targets)
  BY DEF TickPlans
<1> HIDE DEF s
<1>2. IsFiniteSet(F)
  <2>1. IsFiniteSet(1 .. Len(s)) /\ DOMAIN s = 1 .. Len(s)
    BY <1>1, FS_Interval
  <2> QED
    BY <2>1, FS_Subset
<1>3. {i \in DOMAIN q.run : r[q.run[i]].full} = IF r[t].full THEN F \cup {Len(s) + 1} ELSE F
  BY <1>1, AppendOne DEF s
<1>4. Len(s) + 1 \notin F
  BY <1>1
<1>5. Fulls(r, p) = Cardinality(F) /\ Cardinality(F) \in Nat
  BY <1>2, FS_CardinalityType DEF Fulls, s
<1>6. Fulls(r, q) = Cardinality(IF r[t].full THEN F \cup {Len(s) + 1} ELSE F)
  BY <1>3 DEF Fulls
<1> HIDE DEF F
<1>7. Cardinality(F \cup {Len(s) + 1}) = Cardinality(F) + 1
  BY <1>2, <1>4, FS_AddElement
<1> QED
  BY <1>5, <1>6, <1>7

\* The budget or the share of full loads leaves no room for t.
NoRoom(r, p, t) == Len(p.run) >= MaxWorkers \/ (r[t].full /\ Fulls(r, p) >= FullCap)

LEMMA RoomShrinks ==
    ASSUME NEW r, NEW p \in TickPlans, NEW t \in Targets, NEW u, NEW q, q.run = Append(p.run, t),
           NoRoom(r, p, u)
    PROVE  NoRoom(r, q, u)
<1>1. /\ Fulls(r, p) \in Nat /\ Fulls(r, q) \in Nat
      /\ Fulls(r, q) = Fulls(r, p) + (IF r[t].full THEN 1 ELSE 0)
  BY FullsOne
<1>2. Len(q.run) >= Len(p.run) /\ Len(p.run) \in Nat /\ Len(q.run) \in Nat
  BY AppendOne DEF TickPlans
<1>3. Fulls(r, q) >= Fulls(r, p)
  BY <1>1
<1> QED
  BY <1>1, <1>2, <1>3, CapIsNat DEF NoRoom

\* Considered, and neither planned nor deferred.
Passed(p, V) == V \ (Range(p.run) \cup Range(p.deferred))

\* What the first pass keeps, when it has seen V.
FirstInv(r, V, p) ==
    /\ p \in TickPlans
    /\ Range(p.run) \subseteq V /\ Range(p.deferred) \subseteq V \ Triggers
    /\ Range(p.run) \cap Range(p.deferred) = {} /\ IsInjective(p.run)
    /\ Len(p.run) <= MaxWorkers /\ Fulls(r, p) <= FullCap
    /\ ~HasTrigger(p) => Len(p.run) <= MaxWorkers - Reserved(r)
    /\ Range(p.deferred) # {} =>
          /\ Reserved(r) = 1 /\ Len(p.run) >= MaxWorkers - 1
          /\ HasTrigger(p) => Len(p.run) >= MaxWorkers
    /\ \A u \in Passed(p, V) : NoRoom(r, p, u)
    /\ \A t \in Range(p.run) : \A u \in Passed(p, V) : r[t].full = r[u].full => Before(r, t, u)
    /\ \A t \in Range(p.run) \ Triggers : \A u \in Range(p.deferred) : Before(r, t, u)
    /\ \A i, j \in DOMAIN p.deferred : i < j => Before(r, p.deferred[i], p.deferred[j])

LEMMA TriggerPlanned ==
    ASSUME NEW p \in TickPlans
    PROVE  HasTrigger(p) <=> Range(p.run) \cap Triggers # {}
BY DEF HasTrigger, Range

LEMMA ReservedOne ==
    ASSUME NEW r
    PROVE  Reserved(r) \in {0, 1} /\ (Reserved(r) = 1 => MaxWorkers >= 2)
BY DEF Reserved

LEMMA FirstStart ==
    ASSUME NEW r
    PROVE  FirstInv(r, {}, Nothing)
<1>1. Nothing \in TickPlans /\ Range(Nothing.run) = {} /\ Range(Nothing.deferred) = {}
  BY DEF Nothing, TickPlans, Range
<1>2. IsInjective(Nothing.run) /\ Len(Nothing.run) = 0
  BY DEF Nothing, IsInjective
<1>3. Fulls(r, Nothing) = 0
  <2>1. {i \in DOMAIN Nothing.run : r[Nothing.run[i]].full} = {}
    BY DEF Nothing
  <2> QED
    BY <2>1, FS_EmptySet DEF Fulls
<1>4. \A i, j \in DOMAIN Nothing.deferred : i < j => Before(r, Nothing.deferred[i], Nothing.deferred[j])
  BY DEF Nothing
<1>5. 0 <= MaxWorkers - Reserved(r)
  BY CapIsNat, ReservedOne
<1> QED
  BY <1>1, <1>2, <1>3, <1>4, <1>5, CapIsNat DEF FirstInv, Passed

LEMMA FirstStep ==
    ASSUME NEW r, NEW V \in SUBSET Targets, NEW t \in Targets \ V,
           \A v \in V : Before(r, v, t), NEW p, FirstInv(r, V, p)
    PROVE  FirstInv(r, V \cup {t}, Consider(r, p, t))
<1> DEFINE q == Consider(r, p, t)
           W == V \cup {t}
<1>1. /\ p \in TickPlans /\ p.run \in Seq(Targets) /\ p.deferred \in Seq(Targets)
      /\ Range(p.run) \subseteq V /\ Range(p.deferred) \subseteq V /\ t \notin V
  BY DEF FirstInv, TickPlans
<1>2. /\ Len(p.run) \in Nat /\ MaxWorkers \in Nat /\ FullCap \in Nat /\ Reserved(r) \in {0, 1}
      /\ (Reserved(r) = 1 => MaxWorkers >= 2) /\ Fulls(r, p) \in Nat
  BY <1>1, CapIsNat, ReservedOne, FullsNat
<1>3. CASE NoRoom(r, p, t)
  <2>1. q = p
    BY <1>3 DEF Consider, NoRoom
  <2>2. Passed(p, W) = Passed(p, V) \cup {t}
    BY <1>1 DEF Passed
  <2>3. \A s \in Range(p.run) : Before(r, s, t)
    BY <1>1
  <2>4. \A u \in Passed(p, W) : NoRoom(r, p, u)
    BY <1>3, <2>2 DEF FirstInv
  <2>5. \A s \in Range(p.run) : \A u \in Passed(p, W) : r[s].full = r[u].full => Before(r, s, u)
    BY <2>2, <2>3 DEF FirstInv
  <2>6. Range(p.run) \subseteq W /\ Range(p.deferred) \subseteq W \ Triggers
    BY DEF FirstInv
  <2> HIDE DEF q, W
  <2>7. FirstInv(r, W, p)
    BY <2>4, <2>5, <2>6 DEF FirstInv
  <2> QED
    BY <2>1, <2>7 DEF q, W
<1>4. CASE ~NoRoom(r, p, t) /\ t \notin Triggers /\ ~HasTrigger(p)
           /\ Len(p.run) >= MaxWorkers - Reserved(r)
  <2>1. q = [p EXCEPT !.deferred = Append(@, t)]
    BY <1>4 DEF Consider, NoRoom
  <2>2. /\ q \in TickPlans /\ q.run = p.run /\ q.deferred = Append(p.deferred, t)
        /\ Fulls(r, q) = Fulls(r, p) /\ HasTrigger(q) = HasTrigger(p)
    BY <1>1, <2>1, StepsArePlans DEF TickPlans, Fulls, HasTrigger
  <2>3. Range(q.deferred) = Range(p.deferred) \cup {t}
    BY <1>1, <2>2, AppendOne
  <2>4. Passed(q, W) = Passed(p, V)
    BY <1>1, <2>2, <2>3 DEF Passed
  <2>5. \A u \in Passed(q, W) : NoRoom(r, q, u)
    BY <2>2, <2>4 DEF FirstInv, NoRoom
  <2>6. \A i, j \in DOMAIN q.deferred : i < j => Before(r, q.deferred[i], q.deferred[j])
    <3>1. SUFFICES ASSUME NEW i \in DOMAIN q.deferred, NEW j \in DOMAIN q.deferred, i < j
                   PROVE  Before(r, q.deferred[i], q.deferred[j])
      OBVIOUS
    <3>2. /\ i \in DOMAIN p.deferred /\ q.deferred[i] = p.deferred[i]
          /\ q.deferred[i] \in V
      BY <1>1, <2>2, <3>1, AppendOne DEF Range
    <3>3. CASE j \in DOMAIN p.deferred
      BY <1>1, <2>2, <3>1, <3>2, <3>3, AppendOne DEF FirstInv
    <3>4. CASE j \notin DOMAIN p.deferred
      <4>1. q.deferred[j] = t
        BY <1>1, <2>2, <3>4, AppendOne
      <4> QED
        BY <3>2, <4>1
    <3> QED
      BY <3>3, <3>4
  <2>7. Reserved(r) = 1 /\ Len(p.run) >= MaxWorkers - 1
    BY <1>2, <1>4 DEF NoRoom
  <2>8. Range(q.deferred) \subseteq W \ Triggers /\ Range(q.run) \cap Range(q.deferred) = {}
        /\ Range(q.run) \subseteq W
    BY <1>1, <1>4, <2>2, <2>3 DEF FirstInv
  <2>9. \A s \in Range(q.run) \ Triggers : \A u \in Range(q.deferred) : Before(r, s, u)
    BY <1>1, <2>2, <2>3 DEF FirstInv
  <2> HIDE DEF q, W
  <2>10. /\ IsInjective(q.run) /\ Len(q.run) <= MaxWorkers /\ Fulls(r, q) <= FullCap
         /\ ~HasTrigger(q) => Len(q.run) <= MaxWorkers - Reserved(r)
         /\ Reserved(r) = 1 /\ Len(q.run) >= MaxWorkers - 1 /\ ~HasTrigger(q)
    BY <1>4, <2>2, <2>7 DEF FirstInv
  <2>11. \A s \in Range(q.run) : \A u \in Passed(q, W) : r[s].full = r[u].full => Before(r, s, u)
    BY <2>2, <2>4 DEF FirstInv
  <2> QED
    BY <2>2, <2>5, <2>6, <2>8, <2>9, <2>10, <2>11 DEF FirstInv, q, W
<1>5. CASE ~NoRoom(r, p, t)
           /\ ~(t \notin Triggers /\ ~HasTrigger(p) /\ Len(p.run) >= MaxWorkers - Reserved(r))
  <2>1. q = [p EXCEPT !.run = Append(@, t)]
    BY <1>5 DEF Consider, NoRoom
  <2>2. /\ q \in TickPlans /\ q.run = Append(p.run, t) /\ q.deferred = p.deferred
        /\ Len(q.run) = Len(p.run) + 1 /\ Range(q.run) = Range(p.run) \cup {t}
        /\ IsInjective(q.run)
    <3>1. q \in TickPlans /\ q.run = Append(p.run, t) /\ q.deferred = p.deferred
      BY <1>1, <2>1, StepsArePlans DEF TickPlans
    <3>2. IsInjective(p.run) /\ t \notin Range(p.run)
      BY <1>1 DEF FirstInv
    <3> HIDE DEF q
    <3> QED
      BY <1>1, <3>1, <3>2, AppendOne
  <2>3. Fulls(r, q) = Fulls(r, p) + (IF r[t].full THEN 1 ELSE 0)
    BY <1>1, <2>2, FullsOne
  <2>4. Len(p.run) < MaxWorkers /\ ~(r[t].full /\ Fulls(r, p) >= FullCap)
    BY <1>2, <1>5 DEF NoRoom
  <2>5. Passed(q, W) = Passed(p, V)
    BY <1>1, <2>2 DEF Passed
  <2>6. \A u \in Passed(q, W) : NoRoom(r, q, u)
    BY <1>1, <2>2, <2>5, RoomShrinks DEF FirstInv
  <2>7. \A s \in Range(q.run) : \A u \in Passed(q, W) : r[s].full = r[u].full => Before(r, s, u)
    <3>1. SUFFICES ASSUME NEW u \in Passed(p, V), r[t].full = r[u].full
                   PROVE  FALSE
      BY <2>2, <2>5 DEF FirstInv
    <3>2. NoRoom(r, p, u)
      BY DEF FirstInv
    <3> QED
      BY <1>2, <2>4, <3>1, <3>2 DEF NoRoom
  <2>8. HasTrigger(q) <=> (HasTrigger(p) \/ t \in Triggers)
    BY <1>1, <2>2, TriggerPlanned
  <2> HIDE DEF q, W
  <2>9. ASSUME ~HasTrigger(q)
        PROVE  Len(q.run) <= MaxWorkers - Reserved(r)
    BY <1>2, <1>5, <2>2, <2>8, <2>9
  <2>10. ASSUME Range(q.deferred) # {}
         PROVE  /\ Reserved(r) = 1 /\ t \in Triggers
                /\ Len(q.run) >= MaxWorkers
    <3>1. /\ Reserved(r) = 1 /\ Len(p.run) >= MaxWorkers - 1
          /\ HasTrigger(p) => Len(p.run) >= MaxWorkers
      BY <2>2, <2>10 DEF FirstInv
    <3>2. ~HasTrigger(p)
      BY <1>2, <2>4, <3>1
    <3> QED
      BY <1>2, <1>5, <2>2, <2>8, <3>1, <3>2
  <2>11. Fulls(r, q) <= FullCap
    BY <1>2, <2>3, <2>4 DEF FirstInv
  <2>12. \A s \in Range(q.run) \ Triggers : \A u \in Range(q.deferred) : Before(r, s, u)
    BY <2>2, <2>10 DEF FirstInv
  <2>13. /\ Range(q.run) \subseteq W /\ Range(q.deferred) \subseteq W \ Triggers
         /\ Range(q.run) \cap Range(q.deferred) = {} /\ Len(q.run) <= MaxWorkers
    BY <1>1, <1>2, <2>2, <2>4 DEF FirstInv, W
  <2>14. \A i, j \in DOMAIN q.deferred : i < j => Before(r, q.deferred[i], q.deferred[j])
    BY <2>2 DEF FirstInv
  <2>15. Len(q.run) >= MaxWorkers => Len(q.run) >= MaxWorkers - 1
    BY <1>2, <2>2
  <2>16. FirstInv(r, W, q)
    BY <2>2, <2>6, <2>7, <2>9, <2>10, <2>11, <2>12, <2>13, <2>14, <2>15 DEF FirstInv
  <2> QED
    BY <2>16 DEF q, W
<1> QED
  BY <1>3, <1>4, <1>5

LEMMA FirstHolds ==
    ASSUME NEW r \in PlannerRows
    PROVE  FirstInv(r, DueTargets(r), FirstPass(r))
<1>1. PICK c : c = Candidates(r)
  OBVIOUS
<1>2. PICK n : n = Cardinality(DueTargets(r))
  OBVIOUS
<1>3. Lists(c, DueTargets(r), Order(r))
  BY <1>1, CandidatesAreListed
<1>4. n \in Nat /\ DueTargets(r) \subseteq Targets
  BY <1>2, FS_Subset, FS_CardinalityType, TickPlannerAssumption DEF DueTargets
<1>5. /\ c \in [1 .. n -> DueTargets(r)]
      /\ \A i, j \in 1 .. n : i < j => <<c[i], c[j]>> \in Order(r)
      /\ \A t \in DueTargets(r) : \E i \in 1 .. n : c[i] = t
  BY <1>2, <1>3 DEF Lists
<1>6. c \in [1 .. n -> Targets]
  BY <1>4, <1>5
<1>7. PICK f : /\ f[0] = Nothing /\ f[n] = FirstPass(r)
               /\ \A i \in 0 .. n - 1 : f[i + 1] = Consider(r, f[i], c[i + 1])
  BY <1>1, <1>4, <1>6, FirstPassSteps
<1> DEFINE Seen(i) == {c[j] : j \in 1 .. i}
           K == {i \in Nat : i <= n => FirstInv(r, Seen(i), f[i])}
<1>8. 0 \in K
  <2>1. Seen(0) = {}
    OBVIOUS
  <2> QED
    BY <1>7, <2>1, FirstStart
<1>9. ASSUME NEW i \in Nat, i \in K
      PROVE  i + 1 \in K
  <2>1. SUFFICES ASSUME i + 1 <= n
                 PROVE  FirstInv(r, Seen(i + 1), f[i + 1])
    OBVIOUS
  <2>2. FirstInv(r, Seen(i), f[i]) /\ f[i + 1] = Consider(r, f[i], c[i + 1])
    BY <1>4, <1>7, <1>9, <2>1
  <2>3. \A j \in 1 .. i : Before(r, c[j], c[i + 1]) /\ c[j] # c[i + 1]
    <3>1. \A j \in 1 .. i : <<c[j], c[i + 1]>> \in Order(r)
      BY <1>4, <1>5, <2>1
    <3>2. \A j \in 1 .. i : Before(r, c[j], c[i + 1]) /\ c[i + 1] \in Targets
      BY <3>1 DEF Order
    <3>3. Orders(Order(r), Targets)
      BY BeforeOrders
    <3> QED
      BY <3>1, <3>2, <3>3 DEF Orders
  <2>4. Seen(i + 1) = Seen(i) \cup {c[i + 1]}
    <3>1. \A j : j \in 1 .. i + 1 <=> (j \in 1 .. i \/ j = i + 1)
      OBVIOUS
    <3> QED
      BY <3>1
  <2>5. c[i + 1] \in Targets \ Seen(i) /\ Seen(i) \in SUBSET Targets
    BY <1>4, <1>6, <2>1, <2>3
  <2>6. \A v \in Seen(i) : Before(r, v, c[i + 1])
    BY <2>3
  <2> HIDE DEF Seen
  <2>7. FirstInv(r, Seen(i) \cup {c[i + 1]}, Consider(r, f[i], c[i + 1]))
    BY <2>2, <2>5, <2>6, FirstStep
  <2> QED
    BY <2>2, <2>4, <2>7
<1>10. n \in K
  <2> HIDE DEF K
  <2> QED
    BY <1>4, <1>8, <1>9, AllNumbers
<1>11. Seen(n) = DueTargets(r)
  BY <1>5
<1> QED
  BY <1>4, <1>7, <1>10, <1>11

\* What the second pass keeps over the plan p of the first, when it has seen j of
\* what was deferred.
Waiting(p, j) == {p.deferred[k] : k \in j + 1 .. Len(p.deferred)}

BackInv(r, p, j, q) ==
    /\ q \in TickPlans
    /\ Range(q.run) \subseteq Range(p.run) \cup {p.deferred[k] : k \in 1 .. j}
    /\ Range(p.run) \subseteq Range(q.run) /\ IsInjective(q.run)
    /\ Len(q.run) <= MaxWorkers /\ Fulls(r, q) <= FullCap
    /\ \A u \in DueTargets(r) \ (Range(q.run) \cup Waiting(p, j)) : NoRoom(r, q, u)
    /\ \A t \in Range(q.run) : \A u \in DueTargets(r) \ (Range(q.run) \cup Waiting(p, j)) :
          r[t].full = r[u].full => Before(r, t, u)

LEMMA BackStart ==
    ASSUME NEW r, NEW p, FirstInv(r, DueTargets(r), p)
    PROVE  BackInv(r, p, 0, p)
<1>1. p \in TickPlans /\ p.deferred \in Seq(Targets)
  BY DEF FirstInv, TickPlans
<1>2. Waiting(p, 0) = Range(p.deferred)
  BY <1>1 DEF Waiting, Range
<1>3. DueTargets(r) \ (Range(p.run) \cup Waiting(p, 0)) = Passed(p, DueTargets(r))
  BY <1>2 DEF Passed
<1> QED
  BY <1>1, <1>3 DEF BackInv, FirstInv

LEMMA BackStep ==
    ASSUME NEW r \in PlannerRows, NEW p, FirstInv(r, DueTargets(r), p), ~HasTrigger(p),
           NEW j \in Nat, j + 1 <= Len(p.deferred), NEW q, BackInv(r, p, j, q)
    PROVE  BackInv(r, p, j + 1, GiveBack(r, q, p.deferred[j + 1]))
<1>1. PICK t : t = p.deferred[j + 1]
  OBVIOUS
<1>2. PICK n : n = Len(p.deferred)
  OBVIOUS
<1>3. PICK w : w = GiveBack(r, q, t)
  OBVIOUS
<1> DEFINE D == DueTargets(r)
           d == p.deferred
<1>4. /\ p \in TickPlans /\ d \in Seq(Targets) /\ n \in Nat /\ DOMAIN d = 1 .. n
      /\ q \in TickPlans /\ q.run \in Seq(Targets) /\ j + 1 \in 1 .. n
  BY <1>2 DEF FirstInv, BackInv, TickPlans
<1>5. t \in Range(d) /\ t \in D /\ t \notin Triggers /\ t \notin Range(p.run) /\ t \in Targets
  BY <1>1, <1>4 DEF FirstInv, Range, DueTargets
<1>6. \A k \in 1 .. j : Before(r, d[k], t) /\ d[k] # t
  <2>1. \A k \in 1 .. j : Before(r, d[k], t) /\ d[k] \in Targets
    BY <1>1, <1>4 DEF FirstInv
  <2>2. ~Before(r, t, t)
    BY <1>5, BeforeOrders DEF Orders, Order
  <2> QED
    BY <2>1, <2>2
<1>7. t \notin Range(q.run)
  BY <1>5, <1>6 DEF BackInv
<1>8. Waiting(p, j) = Waiting(p, j + 1) \cup {t} /\ t \notin Waiting(p, j + 1)
  <2>1. \A k : k \in j + 1 .. n <=> (k = j + 1 \/ k \in j + 1 + 1 .. n)
    BY <1>4
  <2>2. \A k \in j + 1 + 1 .. n : d[k] # t
    <3>1. SUFFICES ASSUME NEW k \in j + 1 + 1 .. n
                   PROVE  d[k] # t
      OBVIOUS
    <3>2. Before(r, t, d[k])
      BY <1>1, <1>4 DEF FirstInv
    <3>3. ~Before(r, t, t)
      BY <1>5, BeforeOrders DEF Orders, Order
    <3> QED
      BY <3>2, <3>3
  <2> QED
    BY <1>1, <1>2, <2>1, <2>2 DEF Waiting
<1>9. Range(p.run) \cap Triggers = {}
  BY <1>4, TriggerPlanned
<1>10. \A s \in Range(q.run) : Before(r, s, t)
  BY <1>5, <1>6, <1>9 DEF BackInv, FirstInv
<1>11. {d[k] : k \in 1 .. j + 1} = {d[k] : k \in 1 .. j} \cup {t}
  <2>1. \A k : k \in 1 .. j + 1 <=> (k = j + 1 \/ k \in 1 .. j)
    OBVIOUS
  <2> QED
    BY <1>1, <2>1
<1>12. CASE NoRoom(r, q, t)
  <2>1. w = q
    BY <1>3, <1>12 DEF GiveBack, NoRoom
  <2>2. D \ (Range(q.run) \cup Waiting(p, j + 1)) = (D \ (Range(q.run) \cup Waiting(p, j))) \cup {t}
    BY <1>5, <1>7, <1>8
  <2>3. \A u \in D \ (Range(q.run) \cup Waiting(p, j + 1)) : NoRoom(r, q, u)
    BY <1>12, <2>2 DEF BackInv
  <2>4. \A s \in Range(q.run) : \A u \in D \ (Range(q.run) \cup Waiting(p, j + 1)) :
           r[s].full = r[u].full => Before(r, s, u)
    BY <1>10, <2>2 DEF BackInv
  <2>5. BackInv(r, p, j + 1, q)
    BY <1>11, <2>3, <2>4 DEF BackInv
  <2> QED
    BY <1>1, <1>3, <2>1, <2>5
<1>13. CASE ~NoRoom(r, q, t)
  <2>1. w = [q EXCEPT !.run = Append(@, t)]
    BY <1>3, <1>13 DEF GiveBack, NoRoom
  <2>2. w \in TickPlans /\ w.run = Append(q.run, t)
    BY <1>3, <1>4, <1>5, <2>1, StepsArePlans DEF TickPlans
  <2>3. /\ Len(w.run) = Len(q.run) + 1 /\ Range(w.run) = Range(q.run) \cup {t}
        /\ IsInjective(w.run) /\ Len(q.run) \in Nat
    BY <1>4, <1>5, <1>7, <2>2, AppendOne DEF BackInv
  <2>4. Fulls(r, w) = Fulls(r, q) + (IF r[t].full THEN 1 ELSE 0) /\ Fulls(r, q) \in Nat
    BY <1>4, <1>5, <2>2, FullsOne
  <2>5. Len(q.run) < MaxWorkers /\ ~(r[t].full /\ Fulls(r, q) >= FullCap)
    BY <1>13, <2>3, CapIsNat DEF NoRoom
  <2>6. Len(w.run) <= MaxWorkers /\ Fulls(r, w) <= FullCap
    BY <2>3, <2>4, <2>5, CapIsNat DEF BackInv
  <2>7. D \ (Range(w.run) \cup Waiting(p, j + 1)) = D \ (Range(q.run) \cup Waiting(p, j))
    BY <1>8, <2>3
  <2>8. \A u \in D \ (Range(w.run) \cup Waiting(p, j + 1)) : NoRoom(r, w, u)
    BY <1>4, <1>5, <2>2, <2>7, RoomShrinks DEF BackInv
  <2>9. \A s \in Range(w.run) : \A u \in D \ (Range(w.run) \cup Waiting(p, j + 1)) :
           r[s].full = r[u].full => Before(r, s, u)
    <3>1. SUFFICES ASSUME NEW u \in D \ (Range(q.run) \cup Waiting(p, j)), r[t].full = r[u].full
                   PROVE  FALSE
      BY <2>3, <2>7 DEF BackInv
    <3>2. NoRoom(r, q, u)
      BY DEF BackInv
    <3> QED
      BY <2>3, <2>4, <2>5, <3>1, <3>2, CapIsNat DEF NoRoom
  <2>10. /\ Range(w.run) \subseteq Range(p.run) \cup {d[k] : k \in 1 .. j + 1}
         /\ Range(p.run) \subseteq Range(w.run)
    BY <1>11, <2>3 DEF BackInv
  <2>11. BackInv(r, p, j + 1, w)
    BY <2>2, <2>3, <2>6, <2>8, <2>9, <2>10 DEF BackInv
  <2> QED
    BY <1>1, <1>3, <2>11
<1> QED
  BY <1>12, <1>13

LEMMA BackHolds ==
    ASSUME NEW r \in PlannerRows, NEW p, p = FirstPass(r), Reserved(r) = 1, ~HasTrigger(p)
    PROVE  \E q : /\ q.run = PlanTick(r) /\ BackInv(r, p, Len(p.deferred), q)
                  /\ Waiting(p, Len(p.deferred)) = {}
<1>1. FirstInv(r, DueTargets(r), p)
  BY FirstHolds
<1>2. p \in TickPlans /\ p.deferred \in Seq(Targets)
  BY <1>1 DEF FirstInv, TickPlans
<1>3. PICK n : n = Len(p.deferred)
  OBVIOUS
<1>4. PICK c : c = p.deferred
  OBVIOUS
<1>5. n \in Nat /\ c \in [1 .. n -> Targets]
  BY <1>2, <1>3, <1>4
<1>6. PICK f : /\ f[0] = p /\ f[n].run = PlanTick(r)
               /\ \A i \in 0 .. n - 1 : f[i + 1] = GiveBack(r, f[i], c[i + 1])
  BY <1>2, <1>4, <1>5, GiveBackSteps
<1> DEFINE K == {i \in Nat : i <= n => BackInv(r, p, i, f[i])}
<1>7. 0 \in K
  BY <1>1, <1>6, BackStart
<1>8. ASSUME NEW i \in Nat, i \in K
      PROVE  i + 1 \in K
  <2>1. SUFFICES ASSUME i + 1 <= n
                 PROVE  BackInv(r, p, i + 1, f[i + 1])
    OBVIOUS
  <2>2. BackInv(r, p, i, f[i]) /\ f[i + 1] = GiveBack(r, f[i], p.deferred[i + 1])
    BY <1>4, <1>5, <1>6, <1>8, <2>1
  <2> QED
    BY <1>1, <1>3, <2>1, <2>2, BackStep
<1> HIDE DEF K
<1>9. n \in K
  BY <1>5, <1>7, <1>8, AllNumbers
<1>10. BackInv(r, p, n, f[n])
  BY <1>5, <1>9 DEF K
<1>11. Waiting(p, n) = {}
  BY <1>3, <1>5 DEF Waiting
<1> QED
  BY <1>3, <1>6, <1>10, <1>11

-------------------------------------------------------------------------------
(* What holds of a plan. *)

\* q.run may stand as the plan for the rows r.
Lawful(r, q) ==
    /\ q \in TickPlans
    /\ Range(q.run) \subseteq DueTargets(r) /\ IsInjective(q.run)
    /\ Len(q.run) <= MaxWorkers /\ Fulls(r, q) <= FullCap
    /\ \A u \in DueTargets(r) \ Range(q.run) : NoRoom(r, q, u)
    /\ \A t \in Range(q.run) : \A u \in DueTargets(r) \ Range(q.run) :
          (t \in Triggers <=> u \in Triggers) /\ r[t].full = r[u].full => Before(r, t, u)
    /\ MaxWorkers >= 2 /\ (\E u \in DueTargets(r) \ Range(q.run) : u \in Triggers /\ ~r[u].full)
          => Range(q.run) \cap Triggers # {}

\* The plan of the first pass, when nothing is to be given back.
LEMMA FirstIsLawful ==
    ASSUME NEW r \in PlannerRows, NEW p, FirstInv(r, DueTargets(r), p),
           Reserved(r) = 0 \/ HasTrigger(p)
    PROVE  Lawful(r, p)
<1> DEFINE D == DueTargets(r)
<1>1. p \in TickPlans /\ Range(p.run) \subseteq D
  BY DEF FirstInv
<1>2. HasTrigger(p) <=> Range(p.run) \cap Triggers # {}
  BY <1>1, TriggerPlanned
<1>3. ASSUME NEW u \in D \ Range(p.run)
      PROVE  u \in Passed(p, D) \/ (u \in Range(p.deferred) /\ u \notin Triggers)
  BY <1>3 DEF Passed, FirstInv
<1>4. ASSUME Range(p.deferred) # {}
      PROVE  Len(p.run) >= MaxWorkers
  BY <1>4 DEF FirstInv
<1>5. \A u \in D \ Range(p.run) : NoRoom(r, p, u)
  BY <1>3, <1>4 DEF FirstInv, NoRoom
<1>6. \A t \in Range(p.run) : \A u \in D \ Range(p.run) :
         (t \in Triggers <=> u \in Triggers) /\ r[t].full = r[u].full => Before(r, t, u)
  BY <1>3 DEF FirstInv
<1>7. MaxWorkers >= 2 /\ (\E u \in D : u \in Triggers) => Reserved(r) = 1
  BY DEF Reserved, DueTargets
<1>8. MaxWorkers >= 2 /\ (\E u \in D \ Range(p.run) : u \in Triggers /\ ~r[u].full)
         => Range(p.run) \cap Triggers # {}
  BY <1>2, <1>7
<1> QED
  BY <1>1, <1>5, <1>6, <1>8 DEF Lawful, FirstInv

\* The plan of the second pass.
LEMMA BackIsLawful ==
    ASSUME NEW r \in PlannerRows, NEW p, FirstInv(r, DueTargets(r), p),
           Reserved(r) = 1, ~HasTrigger(p),
           NEW q, BackInv(r, p, Len(p.deferred), q), Waiting(p, Len(p.deferred)) = {}
    PROVE  Lawful(r, q)
<1> DEFINE D == DueTargets(r)
<1>1. p \in TickPlans /\ Range(p.run) \subseteq D /\ Range(p.deferred) \subseteq D
  BY DEF FirstInv
<1>2. Range(q.run) \subseteq D
  <2>1. \A k \in 1 .. Len(p.deferred) : p.deferred[k] \in Range(p.deferred)
    BY <1>1 DEF TickPlans, Range
  <2> QED
    BY <1>1, <2>1 DEF BackInv
<1>3. /\ \A u \in D \ Range(q.run) : NoRoom(r, q, u)
      /\ \A t \in Range(q.run) : \A u \in D \ Range(q.run) : r[t].full = r[u].full => Before(r, t, u)
  BY DEF BackInv
<1>4. ASSUME NEW u \in D \ Range(q.run), u \in Triggers, ~r[u].full
      PROVE  FALSE
  <2>1. u \in Passed(p, D)
    BY <1>4 DEF Passed, FirstInv, BackInv
  <2>2. NoRoom(r, p, u)
    BY <2>1 DEF FirstInv
  <2>3. Len(p.run) >= MaxWorkers /\ Len(p.run) <= MaxWorkers - 1 /\ Len(p.run) \in Nat
    BY <1>1, <1>4, <2>2 DEF NoRoom, FirstInv, TickPlans
  <2> QED
    BY <2>3, CapIsNat
<1> QED
  BY <1>2, <1>3, <1>4 DEF Lawful, BackInv

LEMMA PlanIsLawful ==
    ASSUME NEW r \in PlannerRows
    PROVE  \E q : q.run = PlanTick(r) /\ Lawful(r, q)
<1>1. PICK p : p = FirstPass(r)
  OBVIOUS
<1>2. FirstInv(r, DueTargets(r), p)
  BY <1>1, FirstHolds
<1>3. CASE Reserved(r) = 1 /\ ~HasTrigger(p)
  BY <1>1, <1>2, <1>3, BackHolds, BackIsLawful
<1>4. CASE ~(Reserved(r) = 1 /\ ~HasTrigger(p))
  <2>1. PlanTick(r) = p.run
    BY <1>1, <1>4 DEF PlanTick
  <2> QED
    BY <1>2, <1>4, <2>1, ReservedOne, FirstIsLawful
<1> QED
  BY <1>3, <1>4

\* PlanTick (tick_planner.cpp) plans each target at most once, only targets that are
\* due, no more of them than the budget of a tick and no more full loads than their
\* share of it, whatever the rows say.
THEOREM PlanIsBounded ==
    ASSUME NEW r \in PlannerRows
    PROVE  /\ PlanTick(r) \in Seq(Targets) /\ IsInjective(PlanTick(r))
           /\ \A t \in Range(PlanTick(r)) : Due(r, t)
           /\ Len(PlanTick(r)) <= MaxWorkers
           /\ Cardinality({i \in DOMAIN PlanTick(r) : r[PlanTick(r)[i]].full}) <= FullCap
<1>1. PICK q : q.run = PlanTick(r) /\ Lawful(r, q)
  BY PlanIsLawful
<1> QED
  BY <1>1 DEF Lawful, TickPlans, DueTargets, Fulls

\* PlanTick (tick_planner.cpp): a slot stays free only for full loads beyond their
\* share, and a trigger target that waits finds a slot given to one of its tier.
THEOREM SlotsAreUsedByEveryPlan ==
    ASSUME NEW r \in PlannerRows
    PROVE  SlotsUsed(r)
<1>1. PICK q : q.run = PlanTick(r) /\ Lawful(r, q)
  BY PlanIsLawful
<1>2. Left(r) = DueTargets(r) \ Range(q.run)
  BY <1>1 DEF Left, DueTargets
<1>3. Len(q.run) \in Nat /\ MaxWorkers \in Nat
  BY <1>1, CapIsNat DEF Lawful, TickPlans
<1>4. ASSUME Len(q.run) < MaxWorkers, NEW t \in Left(r)
      PROVE  r[t].full
  BY <1>1, <1>2, <1>3, <1>4 DEF Lawful, NoRoom
<1>5. MaxWorkers >= 2 /\ (\E t \in Left(r) \cap Triggers : ~r[t].full)
         => Range(q.run) \cap Triggers # {}
  BY <1>1, <1>2 DEF Lawful
<1> QED
  BY <1>1, <1>4, <1>5 DEF SlotsUsed

\* PlanTick (tick_planner.cpp): within a tier, and among full loads or among the
\* others, no target is planned before one that is more overdue.
THEOREM PriorityIsKeptByEveryPlan ==
    ASSUME NEW r \in PlannerRows
    PROVE  PriorityKept(r)
<1>1. PICK q : q.run = PlanTick(r) /\ Lawful(r, q)
  BY PlanIsLawful
<1>2. SUFFICES ASSUME NEW t \in Range(q.run), NEW u \in Left(r),
                      t \in Triggers <=> u \in Triggers, r[t].full = r[u].full
               PROVE  Overdue(r, t) >= Overdue(r, u)
  BY <1>1 DEF PriorityKept
<1>3. Left(r) = DueTargets(r) \ Range(q.run)
  BY <1>1 DEF Left, DueTargets
<1>4. Before(r, t, u) /\ t \in Targets /\ u \in Targets
  BY <1>1, <1>2, <1>3 DEF Lawful, DueTargets
<1> QED
  BY <1>4, DelaysAreNumbers DEF Before
===============================================================================
