---------------------------- MODULE GatewayProofs ----------------------------
(***************************************************************************)
(* Gateway for every set of requests, apps, routes, policies and limits:   *)
(* a request holds a slot exactly while it is admitted, it makes at most   *)
(* two attempts and never two at one provider, the gateway implements      *)
(* Slots, from which it inherits exact counters and the ceilings, each     *)
(* request leaves one final fact and one price per billable attempt, and   *)
(* its answer is explained by what its attempts met.  What rests on the    *)
(* plan rests on what the planner builds, which comes first: the routes    *)
(* the policy permits, and their order.                                    *)
(***************************************************************************)
EXTENDS Gateway, PlanCall, SequenceLemmas, FiniteSetTheorems, TLAPS

\* OfModel, Primary and Rest split the table.
LEMMA OfModelIs ==
  ASSUME NEW routes \in Seq(Route), NEW m
  PROVE  /\ OfModel(routes, m) \in Seq(Route)
         /\ ToSet(OfModel(routes, m)) = {x \in ToSet(routes) : x.model = m}
<1> DEFINE I == {i \in DOMAIN routes : routes[i].model = m}
<1>1. SubseqAt(routes, I) \in Seq(Route) /\ ToSet(SubseqAt(routes, I)) = {routes[i] : i \in DOMAIN routes \cap I}
  BY SubseqAtTyped
<1>2. OfModel(routes, m) = SubseqAt(routes, I)
  BY DEF OfModel
<1>3. {routes[i] : i \in DOMAIN routes \cap I} = {x \in ToSet(routes) : x.model = m}
  BY DEF ToSet
<1> QED
  BY <1>1, <1>2, <1>3

LEMMA RestIs ==
  ASSUME NEW table \in Seq(Route), NEW asked
  PROVE  /\ Rest(asked, table) \in Seq(Route)
         /\ ToSet(Rest(asked, table)) = {x \in ToSet(table) : x.model # asked}
<1> DEFINE I == {i \in DOMAIN table : table[i].model # asked}
<1>1. SubseqAt(table, I) \in Seq(Route) /\ ToSet(SubseqAt(table, I)) = {table[i] : i \in DOMAIN table \cap I}
  BY SubseqAtTyped
<1>2. Rest(asked, table) = SubseqAt(table, I)
  BY DEF Rest
<1>3. {table[i] : i \in DOMAIN table \cap I} = {x \in ToSet(table) : x.model # asked}
  BY DEF ToSet
<1> QED
  BY <1>1, <1>2, <1>3
-----------------------------------------------------------------------------
\* Ranks are places in the order, or one past them.
LEMMA NamesInOrder ==
  ASSUME NEW order \in Seq(Providers)
  PROVE  Cardinality(ToSet(order)) \in Nat /\ Cardinality(ToSet(order)) <= Len(order)
<1>1. order \in Surjection(1..Len(order), ToSet(order))
  BY DEF Surjection, ToSet
<1>2. IsFiniteSet(1..Len(order)) /\ Cardinality(1..Len(order)) = Len(order)
  <2>1. Len(order) \in Nat /\ Len(order) \in Int /\ 1 \in Int
    OBVIOUS
  <2>2. Cardinality(1..Len(order)) = IF 1 > Len(order) THEN 0 ELSE Len(order) - 1 + 1
    BY <2>1, FS_Interval
  <2> QED
    BY <2>1, <2>2, FS_Interval
<1>3. IsFiniteSet(ToSet(order)) /\ Cardinality(ToSet(order)) <= Len(order)
  BY <1>1, <1>2, FS_Surjection
<1> QED
  BY <1>3, FS_CardinalityType

LEMMA RankIsPlace ==
  ASSUME NEW order \in Seq(Providers), NEW p
  PROVE  providerRank(RankMap(order), p) \in 1..(Len(order) + 1)
<1> DEFINE rank == RankMap(order)
<1>1. DOMAIN rank = ToSet(order)
  BY DEF RankMap
<1>2. CASE p \in ToSet(order)
  <2> DEFINE I == {i \in 1..Len(order) : order[i] = p}
  <2>1. rank[p] = SelectLastInSeq(order, LAMBDA q : q = p)
    BY <1>2 DEF RankMap
  <2>2. I # {}
    BY <1>2 DEF ToSet
  <2>3. rank[p] = Max(I)
    BY <2>1, <2>2 DEF SelectLastInSeq
  <2>4. Max(I) \in I
    <3>1. I \subseteq 1..Len(order) /\ Len(order) \in Nat
      OBVIOUS
    <3> HIDE DEF I
    <3> QED
      BY <2>2, <3>1, GreatestElement DEF Max
  <2> QED
    BY <1>1, <1>2, <2>3, <2>4 DEF providerRank
<1>3. CASE p \notin ToSet(order)
  BY <1>1, <1>3, NamesInOrder DEF providerRank
<1> QED
  BY <1>2, <1>3

\* Sorting drops nothing and invents nothing.
LEMMA SortKeepsRoutes ==
  ASSUME NEW routes \in Seq(Route), NEW order \in Seq(Providers)
  PROVE  /\ SortByRank(routes, order) \in Seq(Route)
         /\ ToSet(SortByRank(routes, order)) = ToSet(routes)
<1> DEFINE rank == RankMap(order)
           n == Len(order) + 1
           K(k) == {i \in DOMAIN routes : providerRank(rank, routes[i].provider) = k}
           ss == [k \in 1..n |-> SubseqAt(routes, K(k))]
<1>1. n \in Nat
  OBVIOUS
<1>2. \A k \in 1..n : ss[k] \in Seq(Route) /\ ToSet(ss[k]) = {routes[i] : i \in DOMAIN routes \cap K(k)}
  BY SubseqAtTyped
<1>3. ss \in Seq(Seq(Route)) /\ Len(ss) = n
  BY <1>1, <1>2
<1>4. SortByRank(routes, order) = FlattenSeq(ss)
  BY DEF SortByRank
<1>5. \A i \in DOMAIN routes : \E k \in 1..n : i \in K(k)
  BY RankIsPlace
<1> HIDE DEF K, rank
<1>6. ElementsUpTo(ss, n) = ToSet(routes)
  <2>1. ElementsUpTo(ss, n) = UNION {ToSet(ss[k]) : k \in 1..n}
    BY DEF ElementsUpTo
  <2>2. ASSUME NEW x \in ToSet(routes) PROVE \E k \in 1..n : x \in ToSet(ss[k])
    <3>1. PICK i \in DOMAIN routes : x = routes[i]
      BY DEF ToSet
    <3>2. PICK k \in 1..n : i \in K(k)
      BY <1>5
    <3> HIDE DEF ss
    <3> QED
      BY <3>1, <3>2, <1>2
  <2>3. ASSUME NEW k \in 1..n, NEW x \in ToSet(ss[k]) PROVE x \in ToSet(routes)
    <3> HIDE DEF ss
    <3>1. x \in {routes[i] : i \in DOMAIN routes \cap K(k)}
      BY <1>2
    <3> QED
      BY <3>1 DEF ToSet
  <2> HIDE DEF ss
  <2> QED
    BY <2>1, <2>2, <2>3
<1> HIDE DEF ss
<1> QED
  BY <1>3, <1>4, <1>6, FlattenSeqTyped

-----------------------------------------------------------------------------
\* Of a name listed several times, one place is the first.
LEMMA FirstPlace ==
  ASSUME NEW list \in Seq(Models), NEW m \in ToSet(list)
  PROVE  \E i \in DOMAIN list : list[i] = m /\ \A j \in 1..(i - 1) : list[j] # m
<1> DEFINE T == {i \in DOMAIN list : list[i] = m}
<1>1. T \subseteq Nat /\ T # {}
  BY DEF ToSet
<1>2. PICK i \in T : \A j \in T : i <= j
  BY <1>1, LeastElement
<1>3. \A j \in 1..(i - 1) : list[j] # m
  <2> TAKE j \in 1..(i - 1)
  <2>1. j \in DOMAIN list /\ ~(i <= j)
    OBVIOUS
  <2> QED
    BY <1>2, <2>1
<1> QED
  BY <1>2, <1>3

\* An allowlist adds every route it names, and no other.
LEMMA SubstitutesAre ==
  ASSUME NEW rest \in Seq(Route), NEW list \in Seq(Models), NEW asked
  PROVE  /\ Substitutes(asked, list, rest) \in Seq(Route)
         /\ ToSet(Substitutes(asked, list, rest)) =
              {x \in ToSet(rest) : x.model \in ToSet(list) \ {asked}}
<1> DEFINE n == Len(list)
           skip(i) == list[i] = asked \/ \E j \in 1..(i - 1) : list[j] = list[i]
           ss == [i \in DOMAIN list |-> IF skip(i) THEN <<>> ELSE OfModel(rest, list[i])]
<1>1. n \in Nat /\ DOMAIN list = 1..n
  OBVIOUS
<1>2. Substitutes(asked, list, rest) = FlattenSeq(ss)
  BY DEF Substitutes
<1>3. \A i \in 1..n : ss[i] = IF skip(i) THEN <<>> ELSE OfModel(rest, list[i])
  BY <1>1
<1> HIDE DEF skip
<1>4. \A i \in 1..n : ss[i] \in Seq(Route)
  BY <1>3, OfModelIs
<1>5. ss \in Seq(Seq(Route)) /\ Len(ss) = n
  BY <1>1, <1>4
<1> HIDE DEF ss
<1>6. ASSUME NEW i \in 1..n, NEW x \in ToSet(ss[i])
      PROVE  x \in ToSet(rest) /\ x.model \in ToSet(list) /\ x.model # asked
  <2>1. ~skip(i)
    <3> SUFFICES ASSUME skip(i) PROVE FALSE
      OBVIOUS
    <3>1. ss[i] = <<>>
      BY <1>3
    <3>2. ToSet(<<>>) = {}
      BY DEF ToSet
    <3> QED
      BY <1>6, <3>1, <3>2
  <2>2. x \in ToSet(OfModel(rest, list[i]))
    BY <1>3, <1>6, <2>1
  <2>3. x \in ToSet(rest) /\ x.model = list[i]
    BY <2>2, OfModelIs
  <2>4. list[i] # asked /\ list[i] \in ToSet(list)
    BY <1>1, <2>1 DEF skip, ToSet
  <2> QED
    BY <2>3, <2>4
<1>7. ASSUME NEW x \in ToSet(rest), x.model \in ToSet(list), x.model # asked
      PROVE  \E i \in 1..n : x \in ToSet(ss[i])
  <2>1. PICK i \in DOMAIN list : list[i] = x.model /\ \A j \in 1..(i - 1) : list[j] # x.model
    BY <1>7, FirstPlace
  <2>2. ~skip(i)
    BY <1>7, <2>1 DEF skip
  <2>3. x \in ToSet(OfModel(rest, list[i]))
    BY <2>1, OfModelIs
  <2> QED
    BY <1>1, <1>3, <2>2, <2>3
<1>8. ElementsUpTo(ss, n) = {x \in ToSet(rest) : x.model \in ToSet(list) \ {asked}}
  BY <1>6, <1>7 DEF ElementsUpTo
<1> QED
  BY <1>2, <1>5, <1>8, FlattenSeqTyped

\* ExcludedBy finds a route the allowlist leaves out, if there is one.
LEMMA ExcludedIs ==
  ASSUME NEW rest \in Seq(Route), NEW list \in Seq(Models), NEW asked,
         \A x \in ToSet(rest) : x.model # asked
  PROVE  ExcludedBy(asked, list, rest) <=> \E x \in ToSet(rest) : x.model \notin ToSet(list)
  BY DEF ExcludedBy, ToSet

-----------------------------------------------------------------------------
\* What a plan holds: the routes the policy permits if the model is served at
\* all, and none otherwise; and what it says of the others.
PlanIsExact(plan, asked, policy, table) ==
  /\ plan.eligible \in Seq(Route)
  /\ asked \in ModelsOf(table) =>
       /\ ToSet(plan.eligible) = {x \in ToSet(table) : Permits(policy, asked, x.model)}
       /\ plan.constrained <=> \E x \in ToSet(table) : ~Permits(policy, asked, x.model)
  /\ asked \notin ModelsOf(table) =>
       /\ plan.eligible = <<>>
       /\ plan.constrained <=> table # <<>>

\* buildModelsProvidersFallback gives that plan, for every table, failover order
\* and policy (fallback_logic_build.go:5-79).
THEOREM BuildIsExact ==
  ASSUME NEW table \in Seq(Route), NEW order \in Seq(Providers), NEW policy \in Policy, NEW asked
  PROVE  PlanIsExact(buildModelsProvidersFallback(asked, policy, table, order), asked, policy, table)
<1> DEFINE plan == buildModelsProvidersFallback(asked, policy, table, order)
           primary == Primary(asked, table)
           rest == Rest(asked, table)
<1>1. /\ primary \in Seq(Route)
      /\ ToSet(primary) = {x \in ToSet(table) : x.model = asked}
  BY OfModelIs DEF Primary
<1>2. /\ rest \in Seq(Route)
      /\ ToSet(rest) = {x \in ToSet(table) : x.model # asked}
  BY RestIs
<1>3. policy.kind \in {"same-model", "any", "allowlist"} /\ policy.allowlist \in Seq(Models)
  BY DEF Policy
<1>4. asked \in ModelsOf(table) <=> primary # <<>>
  <2>1. ModelsOf(table) = {x.model : x \in ToSet(table)}
    BY DEF ModelsOf, ToSet
  <2> HIDE DEF primary
  <2>2. primary # <<>> <=> ToSet(primary) # {}
    BY <1>1, EmptyHasNoElement
  <2> QED
    BY <1>1, <2>1, <2>2
<1>5. CASE primary = <<>>
  <2>1. plan = [eligible |-> <<>>, constrained |-> Len(table) > 0]
    BY <1>5 DEF buildModelsProvidersFallback
  <2>2. <<>> \in Seq(Route) /\ (Len(table) > 0 <=> table # <<>>)
    OBVIOUS
  <2>3. plan.eligible = <<>> /\ plan.constrained = (Len(table) > 0)
    BY <2>1
  <2> HIDE DEF plan, primary
  <2> QED
    BY <1>4, <1>5, <2>2, <2>3 DEF PlanIsExact, plan
<1>6. CASE primary # <<>> /\ policy.kind = "any"
  <2>1. plan = [eligible |-> primary \o SortByRank(rest, order), constrained |-> FALSE]
    BY <1>6 DEF buildModelsProvidersFallback
  <2>2. SortByRank(rest, order) \in Seq(Route) /\ ToSet(SortByRank(rest, order)) = ToSet(rest)
    BY <1>2, SortKeepsRoutes
  <2>3. plan.eligible \in Seq(Route) /\ ToSet(plan.eligible) = ToSet(primary) \cup ToSet(rest)
    BY <1>1, <2>1, <2>2, ToSetConcat
  <2>4. \A m : Permits(policy, asked, m)
    BY <1>6 DEF Permits
  <2> HIDE DEF plan, primary, rest
  <2>5. ToSet(plan.eligible) = {x \in ToSet(table) : Permits(policy, asked, x.model)}
    BY <1>1, <1>2, <2>3, <2>4
  <2>6. plan.constrained = FALSE
    BY <2>1
  <2> QED
    BY <1>4, <1>6, <2>3, <2>4, <2>5, <2>6 DEF PlanIsExact, plan
<1>7. CASE primary # <<>> /\ policy.kind = "allowlist"
  <2> DEFINE list == policy.allowlist
  <2>1. plan = [eligible    |-> primary \o Substitutes(asked, list, rest),
                constrained |-> ExcludedBy(asked, list, rest)]
    BY <1>7 DEF buildModelsProvidersFallback
  <2>2. /\ Substitutes(asked, list, rest) \in Seq(Route)
        /\ ToSet(Substitutes(asked, list, rest)) = {x \in ToSet(rest) : x.model \in ToSet(list) \ {asked}}
    BY <1>2, <1>3, SubstitutesAre
  <2>3. /\ plan.eligible \in Seq(Route)
        /\ ToSet(plan.eligible) = ToSet(primary) \cup ToSet(Substitutes(asked, list, rest))
    BY <1>1, <2>1, <2>2, ToSetConcat
  <2>4. \A m : Permits(policy, asked, m) <=> m = asked \/ m \in ToSet(list)
    BY <1>7 DEF Permits
  <2>5. plan.constrained <=> \E x \in ToSet(rest) : x.model \notin ToSet(list)
    <3>1. \A x \in ToSet(rest) : x.model # asked
      BY <1>2
    <3>2. ExcludedBy(asked, list, rest) <=> \E x \in ToSet(rest) : x.model \notin ToSet(list)
      BY <1>2, <1>3, <3>1, ExcludedIs
    <3> QED
      BY <2>1, <3>2
  <2> HIDE DEF plan, primary, rest, list
  <2>6. ToSet(plan.eligible) = {x \in ToSet(table) : Permits(policy, asked, x.model)}
    BY <1>1, <1>2, <2>2, <2>3, <2>4
  <2>7. plan.constrained <=> \E x \in ToSet(table) : ~Permits(policy, asked, x.model)
    BY <1>2, <2>4, <2>5
  <2> QED
    BY <1>4, <1>7, <2>3, <2>6, <2>7 DEF PlanIsExact, plan
<1>8. CASE primary # <<>> /\ policy.kind = "same-model"
  <2>1. plan = [eligible |-> primary, constrained |-> Len(rest) > 0]
    BY <1>8 DEF buildModelsProvidersFallback
  <2>2. \A m : Permits(policy, asked, m) <=> m = asked
    BY <1>8 DEF Permits
  <2>3. Len(rest) > 0 <=> ToSet(rest) # {}
    <3> HIDE DEF rest
    <3>1. Len(rest) \in Nat
      BY <1>2
    <3> QED
      BY <1>2, <3>1, EmptyHasNoElement
  <2>4. plan.eligible = primary /\ (plan.constrained <=> ToSet(rest) # {})
    <3>1. plan.eligible = primary /\ plan.constrained = (Len(rest) > 0)
      BY <2>1
    <3> HIDE DEF plan, primary, rest
    <3> QED
      BY <2>3, <3>1
  <2> HIDE DEF plan, primary, rest
  <2>5. plan.constrained <=> \E x \in ToSet(table) : ~Permits(policy, asked, x.model)
    BY <1>2, <2>2, <2>4
  <2> QED
    BY <1>1, <1>4, <1>8, <2>2, <2>4, <2>5 DEF PlanIsExact, plan
<1> QED
  BY <1>3, <1>5, <1>6, <1>7, <1>8

-----------------------------------------------------------------------------
(* The order of the plan.  A plan is followed through the positions of its   *)
(* routes in the table: an increasing list of them, in the order preferred.  *)

\* plan lists the entries T of the table, each once, in the order B.
Ranked(plan, table, T, B) ==
  \E Q \in Seq(DOMAIN table) : ToSet(Q) = T /\ Ascending(Q, B) /\ plan = Mapped(table, Q)

\* What is selected from a plan whose entries are R.
LEMMA SelectedRanked ==
  ASSUME NEW table \in Seq(Route), NEW R \in Seq(DOMAIN table), NEW I, NEW B,
         \A i, j \in DOMAIN R : i \in I /\ j \in I /\ i < j => <<R[i], R[j]>> \in B
  PROVE  Ranked(SubseqAt(Mapped(table, R), I), table, {R[k] : k \in DOMAIN R \cap I}, B)
<1> DEFINE Q == SubseqAt(R, I)
           D == DOMAIN table
<1>1. IsMap(table, D, Route)
  BY DEF IsMap
<1>2. R \in Seq(D)
  OBVIOUS
<1> HIDE DEF D
<1>3. Q \in Seq(D) /\ ToSet(Q) = {R[k] : k \in DOMAIN R \cap I}
  BY <1>2, SubseqAtTyped
<1>4. Ascending(Q, B)
  BY <1>2, SubseqAtAscending
<1>5. SubseqAt(Mapped(table, R), I) = Mapped(table, Q)
  BY <1>1, <1>2, SubseqAtMaps
<1> HIDE DEF Q
<1> QED
  BY <1>3, <1>4, <1>5 DEF Ranked, D

\* A selection from the table itself.
LEMMA TableSelected ==
  ASSUME NEW table \in Seq(Route), NEW I, NEW B,
         \A i, j \in DOMAIN table : i \in I /\ j \in I /\ i < j => <<i, j>> \in B
  PROVE  Ranked(SubseqAt(table, I), table, DOMAIN table \cap I, B)
<1> DEFINE R == [i \in DOMAIN table |-> i]
<1>1. /\ R \in Seq(DOMAIN table) /\ DOMAIN R = DOMAIN table
      /\ \A i \in DOMAIN table : R[i] = i
  OBVIOUS
<1>2. Mapped(table, R) = table
  BY DEF Mapped
<1> HIDE DEF R
<1>3. {R[k] : k \in DOMAIN R \cap I} = DOMAIN table \cap I
  BY <1>1
<1>4. \A i, j \in DOMAIN R : i \in I /\ j \in I /\ i < j => <<R[i], R[j]>> \in B
  BY <1>1
<1>5. Ranked(SubseqAt(Mapped(table, R), I), table, {R[k] : k \in DOMAIN R \cap I}, B)
  BY <1>1, <1>4, SelectedRanked
<1> QED
  BY <1>2, <1>3, <1>5

Rising == {p \in Nat \X Nat : p[1] < p[2]}

LEMMA RisingPairs == \A x, y \in Nat : <<x, y>> \in Rising <=> x < y
  BY DEF Rising

\* A selection, by what the routes are, from the routes of the other models:
\* what SortByRank and an allowlist make their pieces of.
LEMMA RestSelected ==
  ASSUME NEW table \in Seq(Route), NEW asked, NEW W, NEW B,
         \A i, j \in DOMAIN table :
           /\ table[i].model # asked /\ table[i] \in W
           /\ table[j].model # asked /\ table[j] \in W
           /\ i < j
           => <<i, j>> \in B
  PROVE  LET rest == Rest(asked, table)
         IN  Ranked(SubseqAt(rest, {k \in DOMAIN rest : rest[k] \in W}), table,
                    {i \in DOMAIN table : table[i].model # asked /\ table[i] \in W}, B)
<1> DEFINE rest == Rest(asked, table)
           O == {i \in DOMAIN table : table[i].model # asked}
           I == {k \in DOMAIN rest : rest[k] \in W}
           T == {i \in DOMAIN table : table[i].model # asked /\ table[i] \in W}
<1>1. DOMAIN table \subseteq Nat
  OBVIOUS
<1>2. Ranked(rest, table, O, Rising)
  <2>1. \A i, j \in DOMAIN table : i \in O /\ j \in O /\ i < j => <<i, j>> \in Rising
    BY <1>1, RisingPairs
  <2>2. DOMAIN table \cap O = O
    OBVIOUS
  <2>3. rest = SubseqAt(table, O)
    BY DEF Rest
  <2> HIDE DEF O, rest
  <2>4. Ranked(SubseqAt(table, O), table, DOMAIN table \cap O, Rising)
    BY <2>1, TableSelected
  <2> QED
    BY <2>2, <2>3, <2>4
<1>3. PICK R \in Seq(DOMAIN table) : ToSet(R) = O /\ Ascending(R, Rising) /\ rest = Mapped(table, R)
  BY <1>2 DEF Ranked
<1>4. DOMAIN rest = DOMAIN R /\ \A k \in DOMAIN R : rest[k] = table[R[k]] /\ R[k] \in O /\ R[k] \in Nat
  <2>1. \A k \in DOMAIN R : R[k] \in O
    BY <1>3 DEF ToSet
  <2>2. DOMAIN rest = DOMAIN R /\ \A k \in DOMAIN R : rest[k] = table[R[k]]
    BY <1>3 DEF Mapped
  <2> QED
    BY <1>1, <2>1, <2>2
<1> HIDE DEF rest
<1>5. {R[k] : k \in DOMAIN R \cap I} = T
  <2>1. \A i \in O : \E k \in DOMAIN R : R[k] = i
    BY <1>3 DEF ToSet
  <2> QED
    BY <1>4, <2>1
<1>6. \A i, j \in DOMAIN R : i \in I /\ j \in I /\ i < j => <<R[i], R[j]>> \in B
  <2> SUFFICES ASSUME NEW i \in DOMAIN R, NEW j \in DOMAIN R, i \in I, j \in I, i < j
               PROVE  <<R[i], R[j]>> \in B
    OBVIOUS
  <2>1. <<R[i], R[j]>> \in Rising
    BY <1>3 DEF Ascending
  <2>2. R[i] < R[j]
    BY <1>4, <2>1, RisingPairs
  <2> QED
    BY <1>4, <2>2
<1> HIDE DEF I, T
<1>7. Ranked(SubseqAt(Mapped(table, R), I), table, {R[k] : k \in DOMAIN R \cap I}, B)
  BY <1>6, SelectedRanked
<1> QED
  BY <1>3, <1>5, <1>7 DEF I, T, rest

LEMMA ConcatRanked ==
  ASSUME NEW table \in Seq(Route), NEW B, NEW s, NEW t, NEW X, NEW Y,
         Ranked(s, table, X, B), Ranked(t, table, Y, B), AllBefore(X, Y, B)
  PROVE  Ranked(s \o t, table, X \cup Y, B)
<1> DEFINE D == DOMAIN table
<1>1. IsMap(table, D, Route)
  BY DEF IsMap
<1>2. PICK P \in Seq(D) : ToSet(P) = X /\ Ascending(P, B) /\ s = Mapped(table, P)
  BY DEF Ranked
<1>3. PICK Q \in Seq(D) : ToSet(Q) = Y /\ Ascending(Q, B) /\ t = Mapped(table, Q)
  BY DEF Ranked
<1> HIDE DEF D
<1>4. P \o Q \in Seq(D) /\ ToSet(P \o Q) = X \cup Y
  BY <1>2, <1>3, ToSetConcat
<1>5. Ascending(P \o Q, B)
  <2>1. AllBefore(ToSet(P), ToSet(Q), B)
    BY <1>2, <1>3
  <2> QED
    BY <1>2, <1>3, <2>1, ConcatAscending
<1>6. Mapped(table, P \o Q) = s \o t
  <2>1. P \in Seq(D) /\ Q \in Seq(D)
    OBVIOUS
  <2>2. Mapped(table, P \o Q) = Mapped(table, P) \o Mapped(table, Q)
    BY <1>1, <2>1, MappedConcat
  <2> QED
    BY <1>2, <1>3, <2>2
<1> QED
  BY <1>4, <1>5, <1>6 DEF Ranked, D

\* The entries of the first n pieces.
EntriesUpTo(TT, n) == UNION {TT[k] : k \in 1..n}

LEMMA PiecesRanked ==
  ASSUME NEW table \in Seq(Route), NEW B, NEW ss, IsPieces(Route, ss), NEW n \in Nat, Len(ss) = n,
         NEW TT, \A k \in 1..n : Ranked(ss[k], table, TT[k], B),
         \A i, j \in 1..n : i < j => AllBefore(TT[i], TT[j], B)
  PROVE  Ranked(FlattenSeq(ss), table, EntriesUpTo(TT, n), B)
<1> DEFINE D == DOMAIN table
           Fits(Q, k) == Q \in Seq(D) /\ ToSet(Q) = TT[k] /\ Ascending(Q, B) /\ ss[k] = Mapped(table, Q)
           pick(k) == CHOOSE Q : Fits(Q, k)
           qq == [k \in 1..n |-> pick(k)]
<1>0. ss \in Seq(Seq(Route))
  BY DEF IsPieces
<1>1. \A k \in 1..n : \E Q : Fits(Q, k)
  BY DEF Ranked
<1>2. \A k \in 1..n : Fits(pick(k), k)
  <2> HIDE DEF Fits
  <2> QED
    BY <1>1
<1>3. \A k \in 1..n : qq[k] = pick(k)
  <2> HIDE DEF pick
  <2> QED
    OBVIOUS
<1>4. DOMAIN qq = 1..n /\ Len(qq) = n
  <2> HIDE DEF pick
  <2> QED
    OBVIOUS
<1>5. IsMap(table, D, Route)
  BY DEF IsMap
<1> HIDE DEF qq, pick, D
<1>6. \A k \in 1..n : /\ qq[k] \in Seq(D) /\ ToSet(qq[k]) = TT[k] /\ Ascending(qq[k], B)
                      /\ ss[k] = Mapped(table, qq[k])
  BY <1>2, <1>3
<1>7. qq \in Seq(Seq(D))
  <2>1. qq = [k \in 1..n |-> pick(k)] /\ \A k \in 1..n : pick(k) \in Seq(D)
    BY <1>2 DEF qq
  <2> QED
    BY <2>1
<1>8. FlattenSeq(ss) = Mapped(table, FlattenSeq(qq))
  <2>1. MapsTo(ss, table, qq)
    BY <1>4, <1>6 DEF MapsTo
  <2>2. table \in [D -> Route]
    BY <1>5 DEF IsMap
  <2> QED
    BY <1>0, <1>4, <1>7, <2>1, <2>2, FlattenSeqMaps
<1>9. Ascending(FlattenSeq(qq), B)
  <2>1. InOrder(qq, B)
    BY <1>4, <1>6 DEF InOrder
  <2>2. IsPieces(D, qq)
    BY <1>7 DEF IsPieces
  <2> QED
    BY <2>1, <2>2, FlattenSeqAscending
<1>10. FlattenSeq(qq) \in Seq(D) /\ ToSet(FlattenSeq(qq)) = EntriesUpTo(TT, n)
  <2>1. FlattenSeq(qq) \in Seq(D) /\ ToSet(FlattenSeq(qq)) = ElementsUpTo(qq, Len(qq))
    BY <1>7, FlattenSeqTyped
  <2>2. ElementsUpTo(qq, n) = EntriesUpTo(TT, n)
    BY <1>6 DEF ElementsUpTo, EntriesUpTo
  <2> QED
    BY <1>4, <2>1, <2>2
<1> QED
  BY <1>8, <1>9, <1>10 DEF Ranked, D

\* An order in which nothing precedes itself lists each entry once: the plan
\* is as long as its entries are many.
LEMMA RankedOnce ==
  ASSUME NEW table \in Seq(Route), NEW T, NEW B, NEW plan, Ranked(plan, table, T, B),
         \A x \in T : <<x, x>> \notin B
  PROVE  \E f \in [1..Cardinality(T) -> T] :
           /\ \A m, n \in DOMAIN f : m < n => <<f[m], f[n]>> \in B
           /\ plan = [n \in DOMAIN f |-> table[f[n]]]
<1>1. PICK Q \in Seq(DOMAIN table) : ToSet(Q) = T /\ Ascending(Q, B) /\ plan = Mapped(table, Q)
  BY DEF Ranked
<1>2. /\ Len(Q) \in Nat /\ DOMAIN Q = 1..Len(Q)
      /\ \A i \in DOMAIN Q : Q[i] \in T
      /\ Q \in [1..Len(Q) -> T]
  <2>1. Len(Q) \in Nat /\ DOMAIN Q = 1..Len(Q) /\ Q = [i \in 1..Len(Q) |-> Q[i]]
    OBVIOUS
  <2>2. \A i \in DOMAIN Q : Q[i] \in T
    BY <1>1 DEF ToSet
  <2> QED
    BY <2>1, <2>2
<1>3. \A i, j \in DOMAIN Q : Q[i] = Q[j] => i = j
  <2> SUFFICES ASSUME NEW i \in DOMAIN Q, NEW j \in DOMAIN Q, Q[i] = Q[j], i # j PROVE FALSE
    OBVIOUS
  <2>1. i \in Nat /\ j \in Nat
    BY <1>2
  <2>2. i < j \/ j < i
    BY <2>1
  <2>3. <<Q[i], Q[i]>> \in B
    BY <1>1, <2>2 DEF Ascending
  <2> QED
    BY <1>2, <2>3
<1>4. Cardinality(T) = Len(Q)
  <2>1. Q \in Bijection(1..Len(Q), T)
    <3>1. Q \in Injection(1..Len(Q), T)
      BY <1>2, <1>3 DEF Injection, IsInjective
    <3>2. Q \in Surjection(1..Len(Q), T)
      <4>1. \A x \in T : \E i \in 1..Len(Q) : Q[i] = x
        BY <1>1, <1>2 DEF ToSet
      <4> QED
        BY <1>2, <4>1 DEF Surjection
    <3> QED
      BY <3>1, <3>2 DEF Bijection
  <2>2. IsFiniteSet(1..Len(Q)) /\ Cardinality(1..Len(Q)) = Len(Q)
    <3>1. Len(Q) \in Int /\ 1 \in Int
      BY <1>2
    <3>2. Cardinality(1..Len(Q)) = IF 1 > Len(Q) THEN 0 ELSE Len(Q) - 1 + 1
      BY <3>1, FS_Interval
    <3> QED
      BY <1>2, <3>1, <3>2, FS_Interval
  <2>3. ExistsBijection(1..Len(Q), T)
    BY <2>1 DEF ExistsBijection
  <2> QED
    BY <2>2, <2>3, FS_Bijection
<1>5. plan = [n \in DOMAIN Q |-> table[Q[n]]]
  BY <1>1 DEF Mapped
<1>6. \A m, n \in DOMAIN Q : m < n => <<Q[m], Q[n]>> \in B
  BY <1>1 DEF Ascending
<1>7. Q \in [1..Cardinality(T) -> T]
  BY <1>2, <1>4
<1> QED
  BY <1>5, <1>6, <1>7

-----------------------------------------------------------------------------
\* PlaceOf finds a first place, and none only if there is none.
LEMMA FirstPlaceIs ==
  ASSUME NEW E, NEW s \in Seq(E), NEW x, NEW i \in DOMAIN s, s[i] = x, \A j \in 1..(i - 1) : s[j] # x
  PROVE  PlaceOf(s, x) = i
<1> DEFINE T == {j \in 1..Len(s) : s[j] = x}
<1>1. Len(s) \in Nat /\ DOMAIN s = 1..Len(s)
  OBVIOUS
<1>2. T \in SUBSET Nat /\ i \in T
  BY <1>1
<1>3. PlaceOf(s, x) = Min(T)
  BY <1>2 DEF PlaceOf, SelectInSeq
<1>4. Min(T) \in T /\ \A j \in T : Min(T) <= j
  <2> HIDE DEF T
  <2> QED
    BY <1>2, MinIsLeast
<1>5. Min(T) \in 1..Len(s) /\ s[Min(T)] = x /\ Min(T) <= i
  BY <1>2, <1>4
<1>6. Min(T) \notin 1..(i - 1)
  BY <1>5
<1> QED
  BY <1>1, <1>3, <1>5, <1>6

LEMMA PlaceFound ==
  ASSUME NEW E, NEW s \in Seq(E), NEW x
  PROVE  LET k == PlaceOf(s, x)
         IN  /\ x \in ToSet(s) => k \in DOMAIN s /\ s[k] = x
             /\ x \notin ToSet(s) => k = 0
             /\ k \in Nat
<1> DEFINE T == {j \in 1..Len(s) : s[j] = x}
           k == PlaceOf(s, x)
<1>1. Len(s) \in Nat /\ DOMAIN s = 1..Len(s)
  OBVIOUS
<1>2. x \in ToSet(s) <=> T # {}
  BY <1>1 DEF ToSet
<1>3. k = IF T # {} THEN Min(T) ELSE 0
  BY DEF PlaceOf, SelectInSeq
<1>4. T # {} => Min(T) \in T
  <2>1. T \in SUBSET Nat
    BY <1>1
  <2> HIDE DEF T
  <2> QED
    BY <2>1, MinIsLeast
<1> HIDE DEF k
<1>5. T # {} => k \in DOMAIN s /\ s[k] = x /\ k \in Nat
  BY <1>1, <1>3, <1>4
<1>6. QED
  BY <1>2, <1>3, <1>5 DEF k

\* In an order without repetitions the rank of a provider is its place in it,
\* or one past the last.
LEMMA RankIsPreference ==
  ASSUME NEW order \in Seq(Providers), IsInjective(order), NEW p
  PROVE  LET k == PlaceOf(order, p)
         IN  providerRank(RankMap(order), p) = IF k = 0 THEN Len(order) + 1 ELSE k
<1> DEFINE rank == RankMap(order)
           k == PlaceOf(order, p)
<1>1. DOMAIN rank = ToSet(order)
  BY DEF RankMap
<1>2. /\ p \in ToSet(order) => k \in DOMAIN order /\ order[k] = p
      /\ p \notin ToSet(order) => k = 0
  BY PlaceFound
<1>3. Len(order) \in Nat /\ DOMAIN order = 1..Len(order)
  OBVIOUS
<1> HIDE DEF k
<1>4. CASE p \in ToSet(order)
  <2> DEFINE I == {i \in 1..Len(order) : order[i] = p}
  <2>1. I = {k}
    BY <1>2, <1>3, <1>4 DEF IsInjective
  <2>2. rank[p] = SelectLastInSeq(order, LAMBDA q : q = p)
    BY <1>4 DEF RankMap
  <2>3. rank[p] = Max(I)
    BY <2>1, <2>2 DEF SelectLastInSeq
  <2>4. Max(I) = k
    <3>1. I \subseteq 1..Len(order) /\ I # {}
      BY <2>1
    <3>2. Max(I) \in I
      <4> HIDE DEF I
      <4> QED
        BY <1>3, <3>1, GreatestElement DEF Max
    <3> QED
      BY <2>1, <3>2
  <2>5. k # 0
    BY <1>2, <1>3, <1>4
  <2> QED
    BY <1>1, <1>4, <2>3, <2>4, <2>5 DEF providerRank, k
<1>5. CASE p \notin ToSet(order)
  <2>1. Cardinality(ToSet(order)) = Len(order)
    <3>1. order \in Injection(1..Len(order), ToSet(order))
      BY <1>3 DEF Injection, ToSet
    <3>2. order \in Surjection(1..Len(order), ToSet(order))
      BY DEF Surjection, ToSet
    <3>3. IsFiniteSet(1..Len(order)) /\ Cardinality(1..Len(order)) = Len(order)
      <4>1. Len(order) \in Int /\ 1 \in Int
        BY <1>3
      <4>2. Cardinality(1..Len(order)) = IF 1 > Len(order) THEN 0 ELSE Len(order) - 1 + 1
        BY <4>1, FS_Interval
      <4> QED
        BY <1>3, <4>1, <4>2, FS_Interval
    <3> QED
      BY <3>1, <3>2, <3>3, FS_Surjection
  <2>2. k = 0
    BY <1>2, <1>5
  <2> QED
    BY <1>1, <1>5, <2>1, <2>2 DEF providerRank, k
<1> QED
  BY <1>4, <1>5

-----------------------------------------------------------------------------
IsCall(c) == c.table \in Seq(Route) /\ c.order \in Seq(Providers) /\ c.policy \in Policy

\* The order preferred, as a set of pairs.
Pairs(c) == {p \in Nat \X Nat : Before(c, p[1], p[2])}

LEMMA PairsAre ==
  ASSUME NEW c
  PROVE  /\ \A i, j \in Nat : Preference(c, i) < Preference(c, j) => <<i, j>> \in Pairs(c)
         /\ \A i, j \in Nat : Preference(c, i) = Preference(c, j) /\ i < j => <<i, j>> \in Pairs(c)
         /\ \A i, j : <<i, j>> \in Pairs(c) => Before(c, i, j)
  BY DEF Pairs, Before

\* What each branch prefers by.
LEMMA PreferenceIs ==
  ASSUME NEW c, IsCall(c), NEW i \in DOMAIN c.table
  PROVE  /\ Preference(c, i) \in Nat
         /\ c.table[i].model = c.asked => Preference(c, i) = 0
         /\ c.table[i].model # c.asked /\ c.policy.kind = "any" /\ IsInjective(c.order) =>
              Preference(c, i) = providerRank(RankMap(c.order), c.table[i].provider)
         /\ c.table[i].model # c.asked /\ c.policy.kind = "allowlist" =>
              Preference(c, i) = PlaceOf(c.policy.allowlist, c.table[i].model)
<1> DEFINE order == c.order
           list == c.policy.allowlist
           m == c.table[i].model
           p == c.table[i].provider
           a == PlaceOf(order, p)
           b == PlaceOf(list, m)
<1>1. order \in Seq(Providers) /\ list \in Seq(Models)
  BY DEF IsCall, Policy
<1>2. a \in Nat /\ b \in Nat /\ Len(order) \in Nat
  <2>1. a \in Nat
    <3> HIDE DEF order, p
    <3> QED
      BY <1>1, PlaceFound
  <2>2. b \in Nat
    <3> HIDE DEF list, m
    <3> QED
      BY <1>1, PlaceFound
  <2> QED
    BY <1>1, <2>1, <2>2
<1>3. IsInjective(order) => providerRank(RankMap(order), p) = IF a = 0 THEN Len(order) + 1 ELSE a
  <2> HIDE DEF order, p
  <2> QED
    BY <1>1, RankIsPreference
<1>4. Preference(c, i) = CASE m = c.asked -> 0
                           [] m # c.asked /\ c.policy.kind = "any" -> IF a = 0 THEN Len(order) + 1 ELSE a
                           [] OTHER -> b
  BY DEF Preference
<1>5. /\ m = c.asked => Preference(c, i) = 0
      /\ m # c.asked /\ c.policy.kind = "any" => Preference(c, i) = IF a = 0 THEN Len(order) + 1 ELSE a
      /\ m # c.asked /\ c.policy.kind # "any" => Preference(c, i) = b
  <2> HIDE DEF a, b, m, order
  <2> QED
    BY <1>4
<1>6. Preference(c, i) \in Nat
  <2> HIDE DEF a, b, m, order
  <2> QED
    BY <1>2, <1>5
<1> QED
  BY <1>3, <1>5, <1>6

AskedFor(c)  == {i \in DOMAIN c.table : c.table[i].model = c.asked}
Others(c) == {i \in DOMAIN c.table : c.table[i].model # c.asked}

LEMMA PrimaryRanked ==
  ASSUME NEW c, IsCall(c)
  PROVE  Ranked(Primary(c.asked, c.table), c.table, AskedFor(c), Pairs(c))
<1> DEFINE table == c.table
           I == AskedFor(c)
<1>1. table \in Seq(Route) /\ DOMAIN table \subseteq Nat /\ DOMAIN table \cap I = I
  BY DEF IsCall, AskedFor
<1>2. \A i, j \in DOMAIN table : i \in I /\ j \in I /\ i < j => <<i, j>> \in Pairs(c)
  <2> SUFFICES ASSUME NEW i \in DOMAIN table, NEW j \in DOMAIN table, i \in I, j \in I, i < j
               PROVE  <<i, j>> \in Pairs(c)
    OBVIOUS
  <2>1. Preference(c, i) = 0 /\ Preference(c, j) = 0
    BY PreferenceIs DEF AskedFor
  <2>2. i \in Nat /\ j \in Nat
    BY <1>1
  <2> QED
    BY <2>1, <2>2, PairsAre
<1>3. Primary(c.asked, table) = SubseqAt(table, I)
  BY DEF Primary, OfModel, AskedFor
<1> HIDE DEF I, table
<1>4. Ranked(SubseqAt(table, I), table, DOMAIN table \cap I, Pairs(c))
  BY <1>1, <1>2, TableSelected
<1> QED
  BY <1>1, <1>3, <1>4 DEF I, table

\* The routes of the requested model come before any other that is preferred at all.
LEMMA AskedFirst ==
  ASSUME NEW c, IsCall(c), NEW T \in SUBSET Others(c), \A i \in T : Preference(c, i) # 0
  PROVE  AllBefore(AskedFor(c), T, Pairs(c))
<1> SUFFICES ASSUME NEW i \in AskedFor(c), NEW j \in T PROVE <<i, j>> \in Pairs(c)
  BY DEF AllBefore
<1>1. i \in DOMAIN c.table /\ j \in DOMAIN c.table /\ c.table[i].model = c.asked
  BY DEF AskedFor, Others
<1>2. i \in Nat /\ j \in Nat
  <2>1. DOMAIN c.table \subseteq Nat
    BY DEF IsCall
  <2> QED
    BY <1>1, <2>1
<1>3. Preference(c, i) = 0 /\ Preference(c, j) \in Nat
  BY <1>1, PreferenceIs
<1>4. Preference(c, i) < Preference(c, j)
  BY <1>3
<1> QED
  BY <1>2, <1>4, PairsAre

\* A piece of a plan: entries equally preferred, in table order.
LEMMA EquallyPreferred ==
  ASSUME NEW c, IsCall(c), NEW W, NEW k,
         \A i \in Others(c) : c.table[i] \in W => Preference(c, i) = k
  PROVE  LET rest == Rest(c.asked, c.table)
         IN  Ranked(SubseqAt(rest, {n \in DOMAIN rest : rest[n] \in W}), c.table,
                    {i \in Others(c) : c.table[i] \in W}, Pairs(c))
<1> DEFINE table == c.table
           asked == c.asked
           rest == Rest(asked, table)
           T == {i \in DOMAIN table : table[i].model # asked /\ table[i] \in W}
<1>1. table \in Seq(Route) /\ DOMAIN table \subseteq Nat
  BY DEF IsCall
<1>2. T = {i \in Others(c) : c.table[i] \in W}
  BY DEF Others
<1>3. \A i, j \in DOMAIN table :
        /\ table[i].model # asked /\ table[i] \in W
        /\ table[j].model # asked /\ table[j] \in W
        /\ i < j
        => <<i, j>> \in Pairs(c)
  <2> SUFFICES ASSUME NEW i \in DOMAIN table, NEW j \in DOMAIN table, i \in T, j \in T, i < j
               PROVE  <<i, j>> \in Pairs(c)
    OBVIOUS
  <2>1. Preference(c, i) = k /\ Preference(c, j) = k
    BY DEF Others
  <2>2. i \in Nat /\ j \in Nat
    BY <1>1
  <2> QED
    BY <2>1, <2>2, PairsAre
<1> HIDE DEF table, asked
<1>4. Ranked(SubseqAt(rest, {n \in DOMAIN rest : rest[n] \in W}), table, T, Pairs(c))
  BY <1>1, <1>3, RestSelected
<1> QED
  BY <1>2, <1>4 DEF table, asked

\* Pieces in the order of what they are preferred by.
LEMMA PieceByPiece ==
  ASSUME NEW c, IsCall(c), NEW n \in Nat, NEW TT,
         \A k \in 1..n : TT[k] \subseteq Others(c) /\ \A i \in TT[k] : Preference(c, i) = k
  PROVE  \A k, l \in 1..n : k < l => AllBefore(TT[k], TT[l], Pairs(c))
<1> SUFFICES ASSUME NEW k \in 1..n, NEW l \in 1..n, k < l, NEW i \in TT[k], NEW j \in TT[l]
             PROVE  <<i, j>> \in Pairs(c)
  BY DEF AllBefore
<1>1. Preference(c, i) < Preference(c, j)
  <2>1. Preference(c, i) = k /\ Preference(c, j) = l
    OBVIOUS
  <2> QED
    BY <2>1
<1>2. i \in Nat /\ j \in Nat
  <2>1. DOMAIN c.table \subseteq Nat
    BY DEF IsCall
  <2> QED
    BY <2>1 DEF Others
<1> QED
  BY <1>1, <1>2, PairsAre

\* The sort puts the other models' routes in the order of their providers.
LEMMA SortRanked ==
  ASSUME NEW c, IsCall(c), c.policy.kind = "any", IsInjective(c.order)
  PROVE  Ranked(SortByRank(Rest(c.asked, c.table), c.order), c.table, Others(c), Pairs(c))
<1> DEFINE table == c.table
           order == c.order
           rest == Rest(c.asked, table)
           rank == RankMap(order)
           n == Len(order) + 1
           W(k) == {x \in Route : providerRank(rank, x.provider) = k}
           K(k) == {i \in DOMAIN rest : providerRank(rank, rest[i].provider) = k}
           ss == [k \in 1..n |-> SubseqAt(rest, K(k))]
           U(k) == {i \in Others(c) : table[i] \in W(k)}
           TT == [k \in 1..n |-> U(k)]
<1>1. table \in Seq(Route) /\ order \in Seq(Providers) /\ n \in Nat
  BY DEF IsCall
<1>2. rest \in Seq(Route)
  <2> HIDE DEF table
  <2> QED
    BY <1>1, RestIs
<1>3. \A k \in 1..n : K(k) = {i \in DOMAIN rest : rest[i] \in W(k)}
  <2> HIDE DEF rest
  <2>1. \A i \in DOMAIN rest : rest[i] \in Route
    BY <1>2
  <2> QED
    BY <2>1
<1>4. \A i \in Others(c) : /\ table[i] \in Route
                           /\ Preference(c, i) = providerRank(rank, table[i].provider)
                           /\ providerRank(rank, table[i].provider) \in 1..n
  <2> TAKE i \in Others(c)
  <2>1. i \in DOMAIN table /\ table[i].model # c.asked
    BY DEF Others
  <2>2. table[i] \in Route
    BY <1>1, <2>1
  <2>3. Preference(c, i) = providerRank(rank, table[i].provider)
    BY <2>1, PreferenceIs
  <2>4. providerRank(rank, table[i].provider) \in 1..n
    <3> HIDE DEF order
    <3> QED
      BY <1>1, RankIsPlace
  <2> QED
    BY <2>2, <2>3, <2>4
<1>5. ASSUME NEW k \in 1..n PROVE Ranked(SubseqAt(rest, K(k)), table, U(k), Pairs(c))
  <2>1. \A i \in Others(c) : c.table[i] \in W(k) => Preference(c, i) = k
    BY <1>4
  <2>2. K(k) = {i \in DOMAIN rest : rest[i] \in W(k)}
    BY <1>3
  <2> HIDE DEF W, K
  <2> QED
    BY <2>1, <2>2, EquallyPreferred
<1>6. \A k \in 1..n : TT[k] = U(k) /\ ss[k] = SubseqAt(rest, K(k))
  <2> HIDE DEF U, K, rest
  <2> QED
    OBVIOUS
<1>7. SortByRank(rest, order) = FlattenSeq(ss)
  BY DEF SortByRank
<1>8. ss \in Seq(Seq(Route)) /\ Len(ss) = n
  <2> HIDE DEF rest, K
  <2>1. \A k \in 1..n : SubseqAt(rest, K(k)) \in Seq(Route)
    BY <1>2, SubseqAtTyped
  <2> QED
    BY <1>1, <2>1
<1>9. \A k \in 1..n : TT[k] \subseteq Others(c) /\ \A i \in TT[k] : Preference(c, i) = k
  BY <1>4, <1>6
<1>10. EntriesUpTo(TT, n) = Others(c)
  <2>1. \A i \in Others(c) : \E k \in 1..n : i \in U(k)
    BY <1>4
  <2> HIDE DEF U, TT
  <2> QED
    BY <1>6, <1>9, <2>1 DEF EntriesUpTo
<1>11. \A k \in 1..n : Ranked(ss[k], table, TT[k], Pairs(c))
  BY <1>5, <1>6
<1> HIDE DEF ss, TT, n, table, rest, order
<1>12. \A k, l \in 1..n : k < l => AllBefore(TT[k], TT[l], Pairs(c))
  BY <1>1, <1>9, PieceByPiece
<1>13. Ranked(FlattenSeq(ss), table, EntriesUpTo(TT, n), Pairs(c))
  <2>1. IsPieces(Route, ss)
    BY <1>8 DEF IsPieces
  <2>2. n \in Nat /\ Len(ss) = n
    BY <1>1, <1>8
  <2> QED
    BY <1>1, <1>11, <1>12, <2>1, <2>2, PiecesRanked
<1> QED
  BY <1>7, <1>10, <1>13 DEF rest, table, order

\* The substitutes come in the order in which the app first names them.
LEMMA SubstitutesRanked ==
  ASSUME NEW c, IsCall(c), c.policy.kind = "allowlist"
  PROVE  Ranked(Substitutes(c.asked, c.policy.allowlist, Rest(c.asked, c.table)), c.table,
                {i \in Others(c) : c.table[i].model \in ToSet(c.policy.allowlist)}, Pairs(c))
<1> DEFINE table == c.table
           asked == c.asked
           list == c.policy.allowlist
           rest == Rest(asked, table)
           n == Len(list)
           skip(k) == list[k] = asked \/ \E j \in 1..(k - 1) : list[j] = list[k]
           W(k) == {x \in Route : x.model = list[k]}
           ss == [k \in DOMAIN list |-> IF skip(k) THEN <<>> ELSE OfModel(rest, list[k])]
           U(k) == IF skip(k) THEN {} ELSE {i \in Others(c) : table[i] \in W(k)}
           TT == [k \in 1..n |-> U(k)]
           T == {i \in Others(c) : table[i].model \in ToSet(list)}
<1>1. table \in Seq(Route) /\ list \in Seq(Models) /\ n \in Nat /\ DOMAIN list = 1..n
  BY DEF IsCall, Policy
<1>2. rest \in Seq(Route)
  <2> HIDE DEF table
  <2> QED
    BY <1>1, RestIs
<1>3. \A k \in 1..n : ss[k] = IF skip(k) THEN <<>> ELSE OfModel(rest, list[k])
  BY <1>1
<1>4. \A k \in 1..n : TT[k] = U(k)
  <2> HIDE DEF U
  <2> QED
    OBVIOUS
<1>5. Substitutes(asked, list, rest) = FlattenSeq(ss)
  BY DEF Substitutes
<1>6. \A i \in Others(c) : /\ i \in DOMAIN table /\ table[i] \in Route /\ table[i].model # asked
                           /\ Preference(c, i) = PlaceOf(list, table[i].model)
  <2> TAKE i \in Others(c)
  <2>1. i \in DOMAIN table /\ table[i].model # c.asked
    BY DEF Others
  <2>2. table[i] \in Route
    BY <1>1, <2>1
  <2>3. Preference(c, i) = PlaceOf(list, table[i].model)
    BY <2>1, PreferenceIs
  <2> QED
    BY <2>1, <2>2, <2>3
<1> HIDE DEF skip
<1>7. \A k \in 1..n : ss[k] \in Seq(Route)
  <2>1. \A m : OfModel(rest, m) \in Seq(Route)
    <3> HIDE DEF rest
    <3> QED
      BY <1>2, OfModelIs
  <2>2. <<>> \in Seq(Route)
    OBVIOUS
  <2> HIDE DEF ss, rest, list
  <2> QED
    BY <1>3, <2>1, <2>2
<1>8. ss \in Seq(Seq(Route)) /\ Len(ss) = n
  <2>1. DOMAIN ss = 1..n
    BY <1>1
  <2>2. ss = [k \in 1..n |-> ss[k]]
    BY <2>1
  <2> HIDE DEF ss
  <2> QED
    BY <1>1, <1>7, <2>1, <2>2
<1> HIDE DEF ss, TT
\* Of a name not passed over, this place is the first.
<1>9. ASSUME NEW k \in 1..n, ~skip(k) PROVE PlaceOf(list, list[k]) = k /\ list[k] # asked
  <2>1. k \in DOMAIN list /\ \A j \in 1..(k - 1) : list[j] # list[k]
    BY <1>1, <1>9 DEF skip
  <2>2. PlaceOf(list, list[k]) = k
    <3> DEFINE x == list[k]
    <3>1. list[k] = x /\ \A j \in 1..(k - 1) : list[j] # x
      BY <2>1
    <3> HIDE DEF x, list
    <3>2. PlaceOf(list, x) = k
      BY <1>1, <2>1, <3>1, FirstPlaceIs
    <3> QED
      BY <3>1, <3>2
  <2> QED
    BY <1>9, <2>2 DEF skip
<1>10. ASSUME NEW k \in 1..n PROVE Ranked(ss[k], table, TT[k], Pairs(c))
  <2>1. CASE skip(k)
    <3>1. ss[k] = <<>> /\ TT[k] = {}
      BY <1>3, <1>4, <2>1
    <3>2. <<>> \in Seq(DOMAIN table) /\ ToSet(<<>>) = {} /\ Ascending(<<>>, Pairs(c)) /\ <<>> = Mapped(table, <<>>)
      BY DEF ToSet, Ascending, Mapped
    <3> HIDE DEF table
    <3> QED
      BY <3>1, <3>2 DEF Ranked
  <2>2. CASE ~skip(k)
    <3>1. \A i \in Others(c) : c.table[i] \in W(k) => Preference(c, i) = k
      BY <1>6, <1>9, <2>2
    <3>2. OfModel(rest, list[k]) = SubseqAt(rest, {i \in DOMAIN rest : rest[i] \in W(k)})
      <4>1. {i \in DOMAIN rest : rest[i].model = list[k]} = {i \in DOMAIN rest : rest[i] \in W(k)}
        <5> HIDE DEF rest, list
        <5>1. \A i \in DOMAIN rest : rest[i] \in Route
          BY <1>2
        <5> QED
          BY <5>1
      <4> QED
        BY <4>1 DEF OfModel
    <3>3. TT[k] = {i \in Others(c) : table[i] \in W(k)}
      BY <1>4, <2>2
    <3>4. ss[k] = OfModel(rest, list[k])
      BY <1>3, <2>2
    <3> HIDE DEF W
    <3>5. Ranked(SubseqAt(rest, {i \in DOMAIN rest : rest[i] \in W(k)}), table,
                 {i \in Others(c) : table[i] \in W(k)}, Pairs(c))
      BY <3>1, EquallyPreferred
    <3> QED
      BY <3>2, <3>3, <3>4, <3>5
  <2> QED
    BY <2>1, <2>2
<1>11. ASSUME NEW k \in 1..n
       PROVE  TT[k] \subseteq T /\ TT[k] \subseteq Others(c) /\ \A i \in TT[k] : Preference(c, i) = k
  <2>1. CASE skip(k)
    BY <1>4, <2>1
  <2>2. CASE ~skip(k)
    <3>1. TT[k] = {i \in Others(c) : table[i] \in W(k)}
      BY <1>4, <2>2
    <3>2. list[k] \in ToSet(list)
      BY <1>1 DEF ToSet
    <3> QED
      BY <1>6, <1>9, <2>2, <3>1, <3>2
  <2> QED
    BY <2>1, <2>2
<1>12. EntriesUpTo(TT, n) = T
  <2>1. ASSUME NEW i \in T PROVE \E k \in 1..n : i \in TT[k]
    <3> DEFINE m == table[i].model
    <3>1. m \in ToSet(list) /\ i \in Others(c)
      OBVIOUS
    <3>2. PICK k \in DOMAIN list : list[k] = m /\ \A j \in 1..(k - 1) : list[j] # m
      <4> HIDE DEF m, list
      <4> QED
        BY <1>1, <3>1, FirstPlace
    <3>3. ~skip(k)
      BY <1>6, <3>2 DEF skip
    <3>4. i \in U(k)
      BY <1>6, <3>2, <3>3
    <3> QED
      BY <1>1, <1>4, <3>4
  <2> HIDE DEF T
  <2> QED
    BY <1>11, <2>1 DEF EntriesUpTo
<1> HIDE DEF n, table, rest, list, asked, T
<1>13. \A k, l \in 1..n : k < l => AllBefore(TT[k], TT[l], Pairs(c))
  BY <1>1, <1>11, PieceByPiece
<1>14. Ranked(FlattenSeq(ss), table, EntriesUpTo(TT, n), Pairs(c))
  <2>1. IsPieces(Route, ss)
    BY <1>8 DEF IsPieces
  <2>2. n \in Nat /\ Len(ss) = n
    BY <1>1, <1>8
  <2> QED
    BY <1>1, <1>10, <1>13, <2>1, <2>2, PiecesRanked
<1> QED
  BY <1>5, <1>12, <1>14 DEF rest, table, list, asked, T

\* The plan lists the entries the policy permits, in the order it prefers them
\* (fallback_logic_build.go:9-19).
THEOREM BuildIsRanked ==
  ASSUME NEW c, IsCall(c), IsInjective(c.order)
  PROVE  Ranked(buildModelsProvidersFallback(c.asked, c.policy, c.table, c.order).eligible,
                c.table, Permitted(c), Pairs(c))
<1> DEFINE table == c.table
           asked == c.asked
           policy == c.policy
           plan == buildModelsProvidersFallback(asked, policy, table, c.order)
           primary == Primary(asked, table)
           rest == Rest(asked, table)
<1>1. table \in Seq(Route) /\ policy.kind \in {"same-model", "any", "allowlist"}
  BY DEF IsCall, Policy
<1>2. asked \in ModelsOf(table) <=> primary # <<>>
  <2> HIDE DEF table, asked
  <2>1. primary \in Seq(Route) /\ ToSet(primary) = {x \in ToSet(table) : x.model = asked}
    BY <1>1, OfModelIs DEF Primary
  <2>2. ModelsOf(table) = {x.model : x \in ToSet(table)}
    BY DEF ModelsOf, ToSet
  <2> HIDE DEF primary
  <2>3. primary # <<>> <=> ToSet(primary) # {}
    BY <2>1, EmptyHasNoElement
  <2> QED
    BY <2>1, <2>2, <2>3
<1>3. Ranked(primary, table, AskedFor(c), Pairs(c))
  BY PrimaryRanked
<1>4. CASE primary = <<>>
  <2>1. plan.eligible = <<>>
    BY <1>4 DEF buildModelsProvidersFallback
  <2>2. Permitted(c) = {}
    BY <1>2, <1>4 DEF Permitted
  <2>3. <<>> \in Seq(DOMAIN table) /\ ToSet(<<>>) = {} /\ Ascending(<<>>, Pairs(c)) /\ <<>> = Mapped(table, <<>>)
    BY DEF ToSet, Ascending, Mapped
  <2> HIDE DEF plan
  <2> QED
    BY <2>1, <2>2, <2>3 DEF Ranked, plan
<1>5. CASE primary # <<>> /\ policy.kind = "any"
  <2>1. plan.eligible = primary \o SortByRank(rest, c.order)
    BY <1>5 DEF buildModelsProvidersFallback
  <2>2. Ranked(SortByRank(rest, c.order), table, Others(c), Pairs(c))
    BY <1>5, SortRanked
  <2>3. AllBefore(AskedFor(c), Others(c), Pairs(c))
    <3>1. \A i \in Others(c) : Preference(c, i) # 0
      <4> TAKE i \in Others(c)
      <4>1. i \in DOMAIN c.table /\ c.table[i].model # c.asked
        BY DEF Others
      <4>2. Preference(c, i) = providerRank(RankMap(c.order), c.table[i].provider)
        BY <1>5, <4>1, PreferenceIs
      <4>3. c.order \in Seq(Providers)
        BY DEF IsCall
      <4>4. providerRank(RankMap(c.order), c.table[i].provider) \in 1..(Len(c.order) + 1)
        <5> DEFINE order == c.order
                   p == c.table[i].provider
        <5>1. order \in Seq(Providers)
          BY <4>3
        <5> HIDE DEF order, p
        <5>2. providerRank(RankMap(order), p) \in 1..(Len(order) + 1)
          BY <5>1, RankIsPlace
        <5> QED
          BY <5>2 DEF order, p
      <4> QED
        BY <4>2, <4>4
    <3> QED
      BY <3>1, AskedFirst
  <2>4. Permitted(c) = AskedFor(c) \cup Others(c)
    BY <1>2, <1>5 DEF Permitted, AskedFor, Others, Permits
  <2> HIDE DEF plan, primary, rest, table
  <2>5. Ranked(primary \o SortByRank(rest, c.order), table, AskedFor(c) \cup Others(c), Pairs(c))
    BY <1>1, <1>3, <2>2, <2>3, ConcatRanked
  <2> QED
    BY <2>1, <2>4, <2>5 DEF plan, table
<1>6. CASE primary # <<>> /\ policy.kind = "allowlist"
  <2> DEFINE list == policy.allowlist
             T == {i \in Others(c) : c.table[i].model \in ToSet(c.policy.allowlist)}
  <2>1. plan.eligible = primary \o Substitutes(asked, list, rest)
    BY <1>6 DEF buildModelsProvidersFallback
  <2>2. Ranked(Substitutes(asked, list, rest), table, T, Pairs(c))
    BY <1>6, SubstitutesRanked
  <2>3. AllBefore(AskedFor(c), T, Pairs(c))
    <3>1. \A i \in T : Preference(c, i) # 0
      <4> TAKE i \in T
      <4>1. i \in DOMAIN c.table /\ c.table[i].model # c.asked
        BY DEF Others
      <4>2. Preference(c, i) = PlaceOf(c.policy.allowlist, c.table[i].model)
        BY <1>6, <4>1, PreferenceIs
      <4> DEFINE s == c.policy.allowlist
                 x == c.table[i].model
      <4>3. s \in Seq(Models) /\ x \in ToSet(s)
        BY DEF IsCall, Policy
      <4> HIDE DEF s, x
      <4>4. PlaceOf(s, x) \in DOMAIN s
        BY <4>3, PlaceFound
      <4>5. 0 \notin DOMAIN s
        BY <4>3
      <4> QED
        BY <4>2, <4>4, <4>5 DEF s, x
    <3>2. T \in SUBSET Others(c)
      OBVIOUS
    <3> HIDE DEF T
    <3> QED
      BY <3>1, <3>2, AskedFirst
  <2>4. Permitted(c) = AskedFor(c) \cup T
    BY <1>2, <1>6 DEF Permitted, AskedFor, Others, Permits
  <2> HIDE DEF plan, primary, rest, table, T, list
  <2>5. Ranked(primary \o Substitutes(asked, list, rest), table, AskedFor(c) \cup T, Pairs(c))
    BY <1>1, <1>3, <2>2, <2>3, ConcatRanked
  <2> QED
    BY <2>1, <2>4, <2>5 DEF plan, table
<1>7. CASE primary # <<>> /\ policy.kind = "same-model"
  <2>1. plan.eligible = primary
    BY <1>7 DEF buildModelsProvidersFallback
  <2>2. Permitted(c) = AskedFor(c)
    BY <1>2, <1>7 DEF Permitted, AskedFor, Permits
  <2> HIDE DEF plan, primary, table
  <2> QED
    BY <1>3, <2>1, <2>2 DEF plan, table
<1> QED
  BY <1>1, <1>4, <1>5, <1>6, <1>7

-----------------------------------------------------------------------------
\* What a call is made with, and what the only call returns.
CallInv ==
  /\ IsCall(call)
  /\ built.done => built.result = buildModelsProvidersFallback(call.asked, call.policy, call.table, call.order)

\* A bounded sequence is a sequence.
LEMMA BoundedIsSeq ==
  ASSUME NEW E, NEW n \in Nat
  PROVE  BoundedSeq(E, n) \subseteq Seq(E)
<1> SUFFICES ASSUME NEW s \in BoundedSeq(E, n) PROVE s \in Seq(E)
  OBVIOUS
<1>1. PICK m \in 0..n : s \in [1..m -> E]
  BY DEF BoundedSeq, SeqOf
<1> QED
  BY <1>1

LEMMA CallInvInit == PlanInit => CallInv
<1> SUFFICES ASSUME PlanInit PROVE CallInv
  OBVIOUS
<1>1. MaxRoutes \in Nat /\ MaxNames \in Nat
  BY PlanCallAssumption
<1>2. PICK table \in BoundedSeq(Route, MaxRoutes), order \in BoundedSeq(Providers, MaxNames), asked \in Models :
        \E policy \in {SameModel, AnyModel} \cup Allowlists(table) :
          call = [table |-> table, order |-> order, policy |-> policy, asked |-> asked]
  BY DEF PlanInit
<1>3. PICK policy \in {SameModel, AnyModel} \cup Allowlists(table) :
        call = [table |-> table, order |-> order, policy |-> policy, asked |-> asked]
  BY <1>2
<1>4. table \in Seq(Route) /\ order \in Seq(Providers)
  <2>1. BoundedSeq(Route, MaxRoutes) \subseteq Seq(Route) /\ BoundedSeq(Providers, MaxNames) \subseteq Seq(Providers)
    BY <1>1, BoundedIsSeq
  <2> QED
    BY <2>1
<1>5. policy \in Policy
  <2>1. CASE policy \in {SameModel, AnyModel}
    <3>1. <<>> \in Seq(Models)
      OBVIOUS
    <3>2. SameModel \in Policy /\ AnyModel \in Policy
      BY <3>1 DEF SameModel, AnyModel, Policy
    <3> QED
      BY <2>1, <3>2
  <2>2. CASE policy \in Allowlists(table)
    <3>1. PICK ms \in BoundedSeq(ModelsOf(table), MaxNames) : policy = AllowlistOf(ms)
      BY <2>2 DEF Allowlists
    <3>2. ms \in Seq(ModelsOf(table))
      BY <1>1, <3>1, BoundedIsSeq
    <3>3. ModelsOf(table) \subseteq Models
      <4>1. \A i \in DOMAIN table : table[i].model \in Models
        <5>1. \A i \in DOMAIN table : table[i] \in Route
          BY <1>4
        <5>2. \A x \in Route : x.model \in Models
          BY DEF Route
        <5> QED
          BY <5>1, <5>2
      <4> QED
        BY <4>1 DEF ModelsOf
    <3>4. ms \in Seq(Models)
      BY <3>2, <3>3
    <3> QED
      BY <3>1, <3>4 DEF AllowlistOf, Policy
  <2> QED
    BY <1>3, <2>1, <2>2
<1>6. ~built.done
  BY DEF PlanInit, NotYet
<1> QED
  BY <1>3, <1>4, <1>5, <1>6 DEF CallInv, IsCall

LEMMA CallInvStep == CallInv /\ [Build]_planVars => CallInv'
<1> SUFFICES ASSUME CallInv, [Build]_planVars PROVE CallInv'
  OBVIOUS
<1>1. CASE Build
  <2>1. built'.result = buildModelsProvidersFallback(call.asked, call.policy, call.table, call.order)
    BY <1>1 DEF Build
  <2>2. call' = call
    BY <1>1 DEF Build
  <2> QED
    BY <2>1, <2>2 DEF CallInv, IsCall
<1>2. CASE UNCHANGED planVars
  BY <1>2 DEF planVars, CallInv, IsCall
<1> QED
  BY <1>1, <1>2

LEMMA CallInvAlways == PlanSpec => []CallInv
<1> QED
  BY CallInvInit, CallInvStep, PTL DEF PlanSpec

LEMMA RankedAsReferred == CallInv => PlanMatchesReference
<1> SUFFICES ASSUME CallInv, built.done, IsInjective(call.order)
             PROVE  \E ranked \in [1..Cardinality(Permitted(call)) -> Permitted(call)] :
                      /\ \A m, n \in DOMAIN ranked : m < n => Before(call, ranked[m], ranked[n])
                      /\ built.result.eligible = [n \in DOMAIN ranked |-> call.table[ranked[n]]]
  BY DEF PlanMatchesReference
<1> DEFINE plan == built.result.eligible
           table == call.table
           T == Permitted(call)
           B == Pairs(call)
<1>1. table \in Seq(Route) /\ IsCall(call)
  BY DEF CallInv, IsCall
<1>2. Ranked(plan, table, T, B)
  <2>1. built.result = buildModelsProvidersFallback(call.asked, call.policy, call.table, call.order)
    BY DEF CallInv
  <2> QED
    BY <1>1, <2>1, BuildIsRanked
<1>3. \A x \in T : <<x, x>> \notin B
  <2> SUFFICES ASSUME NEW x \in T, <<x, x>> \in B PROVE FALSE
    OBVIOUS
  <2>1. x \in DOMAIN call.table /\ x \in Nat
    BY <1>1 DEF Permitted
  <2>2. Preference(call, x) \in Nat
    BY <1>1, <2>1, PreferenceIs
  <2>3. Before(call, x, x)
    BY PairsAre
  <2> QED
    BY <2>1, <2>2, <2>3 DEF Before
<1> HIDE DEF plan, table, T, B
<1>4. PICK f \in [1..Cardinality(T) -> T] :
        /\ \A m, n \in DOMAIN f : m < n => <<f[m], f[n]>> \in B
        /\ plan = [n \in DOMAIN f |-> table[f[n]]]
  BY <1>1, <1>2, <1>3, RankedOnce
<1>5. \A m, n \in DOMAIN f : m < n => Before(call, f[m], f[n])
  BY <1>4, PairsAre DEF B
<1> QED
  BY <1>4, <1>5 DEF plan, table, T

LEMMA ConstrainedAsReferred == CallInv => ConstrainedIsExact
<1> SUFFICES ASSUME CallInv, built.done
             PROVE  built.result.constrained <=> Permitted(call) # DOMAIN call.table
  BY DEF ConstrainedIsExact
<1> DEFINE table == call.table
           order == call.order
           policy == call.policy
           asked == call.asked
           plan == buildModelsProvidersFallback(asked, policy, table, order)
<1>1. table \in Seq(Route) /\ order \in Seq(Providers) /\ policy \in Policy /\ built.result = plan
  BY DEF CallInv, IsCall
<1>2. PlanIsExact(plan, asked, policy, table)
  <2> HIDE DEF table, order, policy, asked
  <2> QED
    BY <1>1, BuildIsExact
<1>3. Permitted(call) = {i \in DOMAIN table : asked \in ModelsOf(table) /\ Permits(policy, asked, table[i].model)}
  BY DEF Permitted
<1>4. Permitted(call) # DOMAIN table <=>
        \E i \in DOMAIN table : asked \notin ModelsOf(table) \/ ~Permits(policy, asked, table[i].model)
  <2> HIDE DEF table, asked, policy
  <2> QED
    BY <1>3
<1>5. CASE asked \in ModelsOf(table)
  <2>1. plan.constrained <=> \E x \in ToSet(table) : ~Permits(policy, asked, x.model)
    <3> HIDE DEF plan, table, policy, asked
    <3> QED
      BY <1>2, <1>5, Zenon DEF PlanIsExact
  <2>2. (\E x \in ToSet(table) : ~Permits(policy, asked, x.model)) <=>
          \E i \in DOMAIN table : ~Permits(policy, asked, table[i].model)
    <3> HIDE DEF table, policy, asked
    <3> QED
      BY DEF ToSet
  <2> HIDE DEF plan, table, policy, asked
  <2> QED
    BY <1>1, <1>4, <1>5, <2>1, <2>2 DEF table
<1>6. CASE asked \notin ModelsOf(table)
  <2>1. plan.constrained <=> table # <<>>
    <3> HIDE DEF plan, table, policy, asked
    <3> QED
      BY <1>2, <1>6, Zenon DEF PlanIsExact
  <2>2. table # <<>> <=> \E i \in DOMAIN table : TRUE
    <3> HIDE DEF table
    <3>1. table = <<>> <=> DOMAIN table = {}
      BY <1>1
    <3> QED
      BY <3>1
  <2> HIDE DEF plan, table, policy, asked
  <2> QED
    BY <1>1, <1>4, <1>6, <2>1, <2>2 DEF table
<1> QED
  BY <1>5, <1>6

\* The plan is the reference's, for every table, failover order without
\* repetitions and policy the loader lets through (fallback_logic_build.go:5-79).
THEOREM PlanIsTheReference == PlanSpec => []PlanMatchesReference
  BY CallInvAlways, RankedAsReferred, PTL

\* And constrained says whether the policy left a route out, which is what
\* turns an empty plan into a 503 and not a 502 (fallback_logic_build.go:21-24).
THEOREM PlanConstrainedIsExact == PlanSpec => []ConstrainedIsExact
  BY CallInvAlways, ConstrainedAsReferred, PTL

-----------------------------------------------------------------------------
\* Who owns the closures issued.  SlotHeldWhileAdmitted alone is not inductive:
\* it does not exclude a closure of a request that was never admitted, already
\* run, which the next Grant would have to avoid.
ClosuresAreOwned ==
  /\ fired \subseteq issued
  /\ \A c \in issued :
       /\ c.id \in Requests
       /\ c = [id |-> c.id, app |-> caller[c.id]]
       /\ pc[c.id] \in Admitted \cup {"done"}

SlotInv == ClosuresAreOwned /\ SlotHeldWhileAdmitted

IInv == ReqTypeOK /\ AttemptsBounded /\ SlotInv

-----------------------------------------------------------------------------
\* Every plan is exact: the assumptions on the configuration are what
\* BuildIsExact asks for.
LEMMA PlansAreExact ==
  ASSUME ReqTypeOK, NEW r \in Requests
  PROVE  PlanIsExact(Plan(r), requested[r], PolicyOf[caller[r]], Table)
<1>1. requested[r] \in Asked /\ caller[r] \in Apps
  BY DEF ReqTypeOK
<1>2. Plan(r) = buildModelsProvidersFallback(requested[r], PolicyOf[caller[r]], Table, Order)
  BY <1>1 DEF Plan, PlanFor
<1>3. PolicyOf[caller[r]] \in Policy
  BY <1>1, GatewayAssumption
<1> QED
  BY <1>2, <1>3, BuildIsExact, GatewayAssumption

\* Where the loop resumes, and what it means that it does not.
LEMMA NextTryIsFresh ==
  ASSUME ReqTypeOK, NEW r \in Requests, NextTry(r) # 0
  PROVE  /\ Len(trail[r]) # maxAttempts
         /\ Plan(r).eligible[NextTry(r)] \in Route
         /\ Plan(r).eligible[NextTry(r)].provider \notin Tried(r)
<1> DEFINE e == Plan(r).eligible
           I == {i \in 1..Len(e) : e[i].provider \notin Tried(r)}
<1>1. e \in Seq(Route)
  BY PlansAreExact DEF PlanIsExact
<1>2. Len(trail[r]) # maxAttempts /\ I # {} /\ NextTry(r) = Min(I)
  BY DEF NextTry, SelectInSeq
<1>3. I \in SUBSET Nat
  BY <1>1
<1>4. NextTry(r) \in I
  BY <1>2, <1>3, MinIsLeast
<1> HIDE DEF e
<1>5. NextTry(r) \in DOMAIN e /\ e[NextTry(r)].provider \notin Tried(r)
  BY <1>1, <1>4
<1>6. e[NextTry(r)] \in Route
  BY <1>1, <1>5
<1>7. QED
  BY <1>2, <1>5, <1>6 DEF e

LEMMA NoTryIsLeft ==
  ASSUME IInv, NEW r \in Requests, NextTry(r) = 0, Len(trail[r]) # maxAttempts
  PROVE  \A x \in ToSet(Plan(r).eligible) : x.provider \in Tried(r)
<1> DEFINE e == Plan(r).eligible
           I == {i \in 1..Len(e) : e[i].provider \notin Tried(r)}
<1>1. e \in Seq(Route)
  BY PlansAreExact DEF PlanIsExact, IInv
<1>2. I \subseteq Nat /\ ~(0 \in I)
  BY <1>1
<1>3. NextTry(r) = IF I # {} THEN Min(I) ELSE 0
  BY DEF NextTry, SelectInSeq
<1>4. I = {}
  BY <1>2, <1>3, MinIsLeast
<1> HIDE DEF e
<1>5. \A i \in DOMAIN e : e[i].provider \in Tried(r)
  BY <1>1, <1>4
<1> QED
  BY <1>1, <1>5, EmptyHasNoElement DEF e

-----------------------------------------------------------------------------
\* What moving one request does to the ownership of slots.
LEMMA StaysOutside ==
  ASSUME IInv, NEW r \in Requests, NEW l,
         UNCHANGED <<slotVars, caller>>, Goto(r, l),
         \/ pc[r] \in Waiting /\ l \in Waiting \cup {"done"}
         \/ pc[r] \in Admitted /\ l \in Admitted
  PROVE  SlotInv'
<1>1. S!Held' = S!Held
  BY DEF S!Held, slotVars
<1>2. \A q \in Requests : pc'[q] \in Admitted <=> pc[q] \in Admitted
  BY DEF IInv, ReqTypeOK, Goto, Waiting, Admitted
<1>3. SlotHeldWhileAdmitted'
  BY <1>1, <1>2 DEF IInv, SlotInv, SlotHeldWhileAdmitted
<1>4. ClosuresAreOwned'
  BY DEF IInv, SlotInv, ClosuresAreOwned, ReqTypeOK, Goto, slotVars, Waiting, Admitted
<1>5. QED
  BY <1>3, <1>4 DEF SlotInv

LEMMA Enters ==
  ASSUME IInv, NEW r \in Requests, UNCHANGED caller,
         pc[r] = "acquire", S!Grant(caller[r], r), Goto(r, "plan")
  PROVE  SlotInv'
<1> DEFINE c == [id |-> r, app |-> caller[r]]
           Owned(f) == {[id |-> q, app |-> caller[q]] : q \in {x \in Requests : f[x] \in Admitted}}
<1>1. issued' = issued \cup {c} /\ fired' = fired /\ c \notin issued
  BY DEF S!Grant
<1>2. S!Held' = S!Held \cup {c}
  BY <1>1 DEF S!Held, IInv, SlotInv, ClosuresAreOwned
<1>3. Owned(pc') = Owned(pc) \cup {c}
  BY DEF IInv, ReqTypeOK, Goto, Admitted
<1>4. SlotHeldWhileAdmitted'
  BY <1>2, <1>3 DEF IInv, SlotInv, SlotHeldWhileAdmitted
<1>5. ClosuresAreOwned'
  BY <1>1 DEF IInv, SlotInv, ClosuresAreOwned, ReqTypeOK, Goto, Admitted
<1>6. QED
  BY <1>4, <1>5 DEF SlotInv

\* Every return below TryAcquire runs a closure that had not run.
LEMMA Leaves ==
  ASSUME IInv, NEW r \in Requests, UNCHANGED caller,
         pc[r] \in Admitted, ReleaseSlot(r), Goto(r, "done")
  PROVE  /\ SlotInv'
         /\ [id |-> r, app |-> caller[r]] \in S!Held
<1> DEFINE c == [id |-> r, app |-> caller[r]]
           Owned(f) == {[id |-> q, app |-> caller[q]] : q \in {x \in Requests : f[x] \in Admitted}}
<1>1. c \in S!Held
  BY DEF IInv, SlotInv, SlotHeldWhileAdmitted
<1>2. issued' = issued /\ fired' = fired \cup {c}
  BY <1>1 DEF ReleaseSlot, S!Release, S!ReleaseOnce, S!Held
<1>3. S!Held' = S!Held \ {c}
  BY <1>2 DEF S!Held
<1>4. Owned(pc') = Owned(pc) \ {c}
  BY DEF IInv, ReqTypeOK, Goto, Admitted
<1>5. SlotHeldWhileAdmitted'
  BY <1>3, <1>4 DEF IInv, SlotInv, SlotHeldWhileAdmitted
<1>6. ClosuresAreOwned'
  BY <1>1, <1>2 DEF IInv, SlotInv, ClosuresAreOwned, ReqTypeOK, Goto, Admitted, S!Held
<1>7. QED
  BY <1>1, <1>5, <1>6 DEF SlotInv

-----------------------------------------------------------------------------
\* A new attempt at a fresh provider keeps the attempts bounded.
LEMMA OneMoreAttempt ==
  ASSUME IInv, NEW r \in Requests, NextTry(r) # 0,
         trail' = [trail EXCEPT ![r] = Append(@, Plan(r).eligible[NextTry(r)])]
  PROVE  /\ AttemptsBounded'
         /\ trail' \in [Requests -> Seq(Route)]
<1> DEFINE e == Plan(r).eligible[NextTry(r)]
<1>1. Len(trail[r]) # maxAttempts /\ e \in Route /\ e.provider \notin Tried(r)
  BY NextTryIsFresh DEF IInv
<1>2. trail[r] \in Seq(Route) /\ Len(trail[r]) <= maxAttempts
  BY DEF IInv, ReqTypeOK, AttemptsBounded
<1> HIDE DEF e
<1>3. trail'[r] = Append(trail[r], e) /\ \A q \in Requests \ {r} : trail'[q] = trail[q]
  BY DEF IInv, ReqTypeOK, e
<1>4. Len(trail'[r]) <= maxAttempts
  <2>1. Len(trail[r]) \in Nat /\ Len(trail'[r]) = Len(trail[r]) + 1
    BY <1>1, <1>2, <1>3
  <2>2. Len(trail[r]) # 2 /\ Len(trail[r]) <= 2
    BY <1>1, <1>2 DEF maxAttempts
  <2>3. \A n \in Nat : n # 2 /\ n <= 2 => n + 1 <= 2
    OBVIOUS
  <2>4. QED
    BY <2>1, <2>2, <2>3 DEF maxAttempts
<1>5. ASSUME NEW i \in DOMAIN trail'[r], NEW j \in DOMAIN trail'[r],
             trail'[r][i].provider = trail'[r][j].provider
      PROVE  i = j
  <2>1. \A k \in 1..Len(trail[r]) : trail'[r][k].provider \in Tried(r)
    BY <1>2, <1>3 DEF Tried
  <2>2. DOMAIN trail'[r] = 1..(Len(trail[r]) + 1) /\ trail'[r][Len(trail[r]) + 1] = e
    BY <1>2, <1>3
  <2>3. CASE i \in 1..Len(trail[r]) /\ j \in 1..Len(trail[r])
    <3>1. trail'[r][i] = trail[r][i] /\ trail'[r][j] = trail[r][j]
      BY <1>2, <1>3, <2>3
    <3>2. QED
      BY <1>2, <1>5, <2>3, <3>1 DEF IInv, AttemptsBounded
  <2>4. QED
    BY <1>1, <1>2, <1>5, <2>1, <2>2, <2>3
<1>6. AttemptsBounded'
  BY <1>3, <1>4, <1>5 DEF IInv, AttemptsBounded
<1>7. trail' \in [Requests -> Seq(Route)]
  BY <1>1, <1>2 DEF IInv, ReqTypeOK, e
<1>8. QED
  BY <1>6, <1>7
-----------------------------------------------------------------------------
\* The entries a handler records are well formed: an attempt's number is
\* within bounds because the attempts are.
LEMMA EntriesTyped ==
  ASSUME IInv, NEW r \in Requests
  PROVE  /\ \A c \in RejectionCodes : Rejection(c) \in Entry
         /\ \A f \in Facts : FactOf(f, 0) \in Entry /\ FactOf(f, Len(trail[r])) \in Entry
<1>1. Len(trail[r]) \in Nat /\ Len(trail[r]) <= 2
  BY DEF IInv, ReqTypeOK, AttemptsBounded, maxAttempts
<1>2. Len(trail[r]) \in 0..2
  <2>1. \A n \in Nat : n <= 2 => n \in 0..2
    OBVIOUS
  <2>2. QED
    BY <1>1, <2>1
<1>3. QED
  BY <1>2 DEF Rejection, FactOf, Entry, Facts, maxAttempts

LEMMA RecordTyped ==
  ASSUME IInv, NEW r \in Requests, NEW e \in Entry, Record(r, e)
  PROVE  log' \in [Requests -> Seq(Entry)]
  BY DEF IInv, ReqTypeOK, Record

LEMMA GotoTyped ==
  ASSUME IInv, NEW r \in Requests, NEW l \in Waiting \cup Admitted \cup {"done"}, Goto(r, l)
  PROVE  pc' \in [Requests -> Waiting \cup Admitted \cup {"done"}]
  BY DEF IInv, ReqTypeOK, Goto

LEMMA ReturnTyped ==
  ASSUME IInv, NEW r \in Requests, NEW out \in Outcomes, Return(r, out)
  PROVE  /\ outcome' \in [Requests -> Outcomes]
         /\ pc' \in [Requests -> Waiting \cup Admitted \cup {"done"}]
         /\ Goto(r, "done")
<1>1. Goto(r, "done") /\ outcome' = [outcome EXCEPT ![r] = out]
  BY DEF Return
<1>2. pc' \in [Requests -> Waiting \cup Admitted \cup {"done"}]
  BY <1>1, GotoTyped
<1>3. QED
  BY <1>1, <1>2 DEF IInv, ReqTypeOK

\* A failed attempt appends its fault and leaves the request's inputs alone.
LEMMA FaultTyped ==
  ASSUME IInv, NEW r \in Requests, NEW kind \in Faults, AttemptFails(r, kind)
  PROVE  /\ faults' \in [Requests -> Seq(Faults)]
         /\ pc[r] = "attempt"
         /\ UNCHANGED <<caller, requested, expired>>
  BY DEF IInv, ReqTypeOK, AttemptFails

-----------------------------------------------------------------------------
\* The steps of a request that neither takes a slot nor returns one.
LEMMA OutsideStep ==
  ASSUME IInv, NEW r \in Requests,
         \/ Arrive(r)
         \/ Allow(r)
         \/ Check(r)
         \/ Acquire(r) /\ S!Refuse(caller[r]) /\ Return(r, "concurrency_ceiling")
                       /\ Record(r, Rejection("concurrency_ceiling"))
  PROVE  IInv'
<1> DEFINE Quiet == UNCHANGED <<caller, requested, trail, faults, cancelled, expired>>
           Closures == UNCHANGED <<issued, fired>>
<1>1. Quiet /\ Closures /\ pc[r] \in Waiting
  BY DEF Arrive, Allow, Check, Meter, Acquire, S!Refuse, slotVars, Waiting
<1>2. \/ \E out \in Outcomes : Return(r, out)
      \/ (\E l \in Waiting : Goto(r, l)) /\ outcome' = outcome
  BY DEF Arrive, Allow, Check, Meter, Outcomes, RejectionCodes, Waiting
<1>3. \/ \E c \in RejectionCodes : Record(r, Rejection(c))
      \/ Record(r, FactOf("fail_open", 0))
      \/ log' = log
  BY DEF Arrive, Allow, Check, Meter, RejectionCodes
<1>4. \E l \in Waiting \cup {"done"} : Goto(r, l)
  BY <1>2 DEF Return
<1>5. pc' \in [Requests -> Waiting \cup Admitted \cup {"done"}]
  BY <1>4, GotoTyped
<1>6. outcome' \in [Requests -> Outcomes]
  BY <1>2, ReturnTyped DEF IInv, ReqTypeOK
<1>7. log' \in [Requests -> Seq(Entry)]
  BY <1>3, EntriesTyped, RecordTyped DEF IInv, ReqTypeOK, Facts
<1>8. ReqTypeOK'
  BY <1>1, <1>5, <1>6, <1>7 DEF IInv, ReqTypeOK
<1>9. AttemptsBounded'
  BY <1>1 DEF IInv, AttemptsBounded
<1>10. SlotInv'
  <2>1. S!Held' = S!Held
    BY <1>1 DEF S!Held
  <2>2. \A q \in Requests : pc'[q] \in Admitted <=> pc[q] \in Admitted
    BY <1>1, <1>4 DEF IInv, ReqTypeOK, Goto, Waiting, Admitted
  <2>3. SlotHeldWhileAdmitted'
    BY <1>1, <2>1, <2>2 DEF IInv, SlotInv, SlotHeldWhileAdmitted
  <2>4. ClosuresAreOwned'
    BY <1>1, <1>4 DEF IInv, SlotInv, ClosuresAreOwned, ReqTypeOK, Goto, Waiting, Admitted
  <2>5. QED
    BY <2>3, <2>4 DEF SlotInv
<1>11. QED
  BY <1>8, <1>9, <1>10 DEF IInv

\* The steps that return from below TryAcquire.
LEMMA LeavingStep ==
  ASSUME IInv, NEW r \in Requests, pc[r] \in Admitted, ReleaseSlot(r),
         NEW out \in Outcomes, Return(r, out),
         UNCHANGED <<caller, requested, trail, expired>>,
         cancelled' \in [Requests -> BOOLEAN],
         faults' \in [Requests -> Seq(Faults)],
         log' \in [Requests -> Seq(Entry)]
  PROVE  IInv'
<1>1. /\ outcome' \in [Requests -> Outcomes]
      /\ pc' \in [Requests -> Waiting \cup Admitted \cup {"done"}]
      /\ Goto(r, "done")
  BY ReturnTyped
<1>2. SlotInv'
  BY <1>1, Leaves
<1>3. ReqTypeOK'
  BY <1>1 DEF IInv, ReqTypeOK
<1>4. AttemptsBounded'
  BY DEF IInv, AttemptsBounded
<1>5. QED
  BY <1>2, <1>3, <1>4 DEF IInv
-----------------------------------------------------------------------------
LEMMA AcquirePreserves ==
  ASSUME IInv, NEW r \in Requests, Acquire(r)
  PROVE  IInv'
<1>1. CASE S!Grant(caller[r], r) /\ Goto(r, "plan") /\ UNCHANGED <<log, outcome>>
  <2>1. UNCHANGED <<caller, requested, trail, faults, cancelled, expired>> /\ pc[r] = "acquire"
    BY DEF Acquire
  <2>2. SlotInv'
    BY <1>1, <2>1, Enters
  <2>3. pc' \in [Requests -> Waiting \cup Admitted \cup {"done"}]
    BY <1>1, GotoTyped DEF Admitted
  <2>4. ReqTypeOK' /\ AttemptsBounded'
    BY <1>1, <2>1, <2>3 DEF IInv, ReqTypeOK, AttemptsBounded
  <2>5. QED
    BY <2>2, <2>4 DEF IInv
<1>2. CASE S!Refuse(caller[r]) /\ Return(r, "concurrency_ceiling")
           /\ Record(r, Rejection("concurrency_ceiling"))
  BY <1>2, OutsideStep
<1>3. QED
  BY <1>1, <1>2 DEF Acquire

LEMMA StartPlanPreserves ==
  ASSUME IInv, NEW r \in Requests, StartPlan(r)
  PROVE  IInv'
<1>1. /\ pc[r] = "plan" /\ pc[r] \in Admitted
      /\ UNCHANGED <<caller, requested, faults, cancelled, expired>>
      /\ faults' \in [Requests -> Seq(Faults)]
      /\ cancelled' \in [Requests -> BOOLEAN]
  BY DEF StartPlan, Admitted, IInv, ReqTypeOK
<1>2. CASE /\ Record(r, Rejection("model_unavailable"))
           /\ Return(r, "model_unavailable")
           /\ ReleaseSlot(r)
           /\ UNCHANGED trail
  <2>1. log' \in [Requests -> Seq(Entry)]
    BY <1>2, EntriesTyped, RecordTyped DEF RejectionCodes
  <2>2. QED
    BY <1>1, <1>2, <2>1, LeavingStep DEF Outcomes, RejectionCodes
<1>3. CASE /\ NextTry(r) # 0
           /\ trail' = [trail EXCEPT ![r] = Append(@, Plan(r).eligible[NextTry(r)])]
           /\ Goto(r, "attempt")
           /\ UNCHANGED <<slotVars, log, outcome>>
  <2>1. AttemptsBounded' /\ trail' \in [Requests -> Seq(Route)]
    BY <1>3, OneMoreAttempt
  <2>2. SlotInv'
    BY <1>1, <1>3, StaysOutside DEF Admitted
  <2>3. pc' \in [Requests -> Waiting \cup Admitted \cup {"done"}]
    BY <1>3, GotoTyped DEF Admitted
  <2>4. ReqTypeOK'
    BY <1>1, <1>3, <2>1, <2>3 DEF IInv, ReqTypeOK
  <2>5. QED
    BY <2>1, <2>2, <2>4 DEF IInv
<1>4. QED
  BY <1>2, <1>3 DEF StartPlan

LEMMA CompletePreserves ==
  ASSUME IInv, NEW r \in Requests, Complete(r)
  PROVE  IInv'
<1>1. log' \in [Requests -> Seq(Entry)]
  BY EntriesTyped, RecordTyped DEF Complete, Facts
<1>2. pc' \in [Requests -> Waiting \cup Admitted \cup {"done"}]
  BY GotoTyped DEF Complete, Admitted
<1>3. ReqTypeOK' /\ AttemptsBounded'
  BY <1>1, <1>2 DEF Complete, IInv, ReqTypeOK, AttemptsBounded
<1>4. SlotInv'
  BY StaysOutside DEF Complete, Admitted
<1>5. QED
  BY <1>3, <1>4 DEF IInv

LEMMA SetAsidePreserves ==
  ASSUME IInv, NEW r \in Requests, NEW kind \in Faults, SetAside(r, kind)
  PROVE  IInv'
<1>1. /\ faults' \in [Requests -> Seq(Faults)]
      /\ pc[r] = "attempt"
      /\ UNCHANGED <<caller, requested, cancelled, expired>>
  BY FaultTyped DEF SetAside
<1>2. UNCHANGED <<slotVars, trail, outcome>> /\ Goto(r, "next")
  BY DEF SetAside
<1>3. pc' \in [Requests -> Waiting \cup Admitted \cup {"done"}]
  BY <1>2, GotoTyped DEF Admitted
<1>4. log' \in [Requests -> Seq(Entry)]
  <2>1. Record(r, FactOf("double_spend", Len(trail[r]))) \/ log' = log
    BY DEF SetAside
  <2>2. QED
    BY <2>1, EntriesTyped, RecordTyped DEF Facts, IInv, ReqTypeOK
<1>5. ReqTypeOK' /\ AttemptsBounded'
  BY <1>1, <1>2, <1>3, <1>4 DEF IInv, ReqTypeOK, AttemptsBounded
<1>6. SlotInv'
  BY <1>1, <1>2, StaysOutside DEF Admitted
<1>7. QED
  BY <1>5, <1>6 DEF IInv

LEMMA FailOverPreserves ==
  ASSUME IInv, NEW r \in Requests, FailOver(r)
  PROVE  IInv'
<1>1. /\ pc[r] = "next" /\ NextTry(r) # 0 /\ Goto(r, "attempt")
      /\ trail' = [trail EXCEPT ![r] = Append(@, Plan(r).eligible[NextTry(r)])]
      /\ UNCHANGED <<slotVars, caller, requested, faults, cancelled, expired, log, outcome>>
  BY DEF FailOver
<1>2. AttemptsBounded' /\ trail' \in [Requests -> Seq(Route)]
  BY <1>1, OneMoreAttempt
<1>3. pc' \in [Requests -> Waiting \cup Admitted \cup {"done"}]
  BY <1>1, GotoTyped DEF Admitted
<1>4. ReqTypeOK'
  BY <1>1, <1>2, <1>3 DEF IInv, ReqTypeOK
<1>5. SlotInv'
  BY <1>1, StaysOutside DEF Admitted
<1>6. QED
  BY <1>2, <1>4, <1>5 DEF IInv

LEMMA GiveUpPreserves ==
  ASSUME IInv, NEW r \in Requests, GiveUp(r)
  PROVE  IInv'
<1>1. /\ pc[r] \in Admitted /\ ReleaseSlot(r) /\ Return(r, GiveUpCode(r))
      /\ Record(r, Rejection(GiveUpCode(r)))
      /\ UNCHANGED <<caller, requested, trail, expired>>
      /\ cancelled' \in [Requests -> BOOLEAN]
      /\ faults' \in [Requests -> Seq(Faults)]
  BY DEF GiveUp, Admitted, IInv, ReqTypeOK
<1>2. GiveUpCode(r) \in RejectionCodes
  BY DEF GiveUpCode, RejectionCodes
<1>3. log' \in [Requests -> Seq(Entry)]
  BY <1>1, <1>2, EntriesTyped, RecordTyped
<1>4. QED
  BY <1>1, <1>2, <1>3, LeavingStep DEF Outcomes

\* The two ways a failed attempt ends the request at once.
LEMMA FailedForGoodPreserves ==
  ASSUME IInv, NEW r \in Requests, NEW kind \in Faults,
         CallerGone(r, kind) \/ DeadlineExhausted(r, kind)
  PROVE  IInv'
<1>1. AttemptFails(r, kind) /\ ReleaseSlot(r) /\ trail' = trail
  BY DEF CallerGone, DeadlineExhausted
<1>2. /\ faults' \in [Requests -> Seq(Faults)]
      /\ pc[r] \in Admitted
      /\ UNCHANGED <<caller, requested, expired>>
      /\ cancelled' \in [Requests -> BOOLEAN]
  BY <1>1, FaultTyped DEF Admitted, CallerGone, DeadlineExhausted, IInv, ReqTypeOK
<1>3. \E out \in Outcomes : Return(r, out)
  BY DEF CallerGone, DeadlineExhausted, Outcomes, RejectionCodes
<1>4. \/ Record(r, FactOf("disconnect", Len(trail[r])))
      \/ \E c \in RejectionCodes : Record(r, Rejection(c))
  BY DEF CallerGone, DeadlineExhausted, RejectionCodes
<1>5. log' \in [Requests -> Seq(Entry)]
  BY <1>4, EntriesTyped, RecordTyped DEF Facts
<1>6. QED
  BY <1>1, <1>2, <1>3, <1>5, LeavingStep

LEMMA SettlePreserves ==
  ASSUME IInv, NEW r \in Requests, Settle(r)
  PROVE  IInv'
<1>1. /\ pc[r] \in Admitted /\ ReleaseSlot(r) /\ Return(r, "served")
      /\ UNCHANGED <<caller, requested, trail, expired>>
      /\ cancelled' \in [Requests -> BOOLEAN]
      /\ faults' \in [Requests -> Seq(Faults)]
  BY DEF Settle, Admitted, IInv, ReqTypeOK
<1>2. \/ Record(r, FactOf("debit", Len(trail[r])))
      \/ Record(r, FactOf("debit_lost", Len(trail[r])))
  BY DEF Settle
<1>3. log' \in [Requests -> Seq(Entry)]
  BY <1>2, EntriesTyped, RecordTyped DEF Facts
<1>4. QED
  BY <1>1, <1>3, LeavingStep DEF Outcomes

LEMMA PanicPreserves ==
  ASSUME IInv, NEW r \in Requests, Panic(r)
  PROVE  IInv'
<1>1. /\ pc[r] \in Admitted /\ ReleaseSlot(r) /\ Return(r, "panicked")
      /\ UNCHANGED <<caller, requested, trail, expired>>
      /\ cancelled' \in [Requests -> BOOLEAN]
      /\ faults' \in [Requests -> Seq(Faults)]
      /\ log' \in [Requests -> Seq(Entry)]
  BY DEF Panic, Admitted, IInv, ReqTypeOK
<1>2. QED
  BY <1>1, LeavingStep DEF Outcomes

\* Hanging up and the deadline touch a flag of the request and nothing else.
LEMMA EnvironmentPreserves ==
  ASSUME IInv, NEW r \in Requests, HangUp(r) \/ DeadlinePasses(r)
  PROVE  IInv'
<1>1. UNCHANGED <<slotVars, caller, requested, pc, trail, faults, log, outcome>>
  BY DEF HangUp, DeadlinePasses
<1>2. cancelled' \in [Requests -> BOOLEAN] /\ expired' \in [Requests -> BOOLEAN]
  BY DEF HangUp, DeadlinePasses, IInv, ReqTypeOK
<1>3. ReqTypeOK' /\ AttemptsBounded'
  BY <1>1, <1>2 DEF IInv, ReqTypeOK, AttemptsBounded
<1>4. SlotInv'
  BY <1>1 DEF IInv, SlotInv, ClosuresAreOwned, SlotHeldWhileAdmitted, S!Held, slotVars
<1>5. QED
  BY <1>3, <1>4 DEF IInv
-----------------------------------------------------------------------------
LEMMA InitEstablishes == Init => IInv
<1> SUFFICES ASSUME Init PROVE IInv
  OBVIOUS
<1>1. ReqTypeOK
  BY DEF Init, ReqTypeOK, Waiting, Outcomes
<1>2. AttemptsBounded
  BY DEF Init, AttemptsBounded, maxAttempts
<1>3. issued = {} /\ fired = {} /\ \A q \in Requests : pc[q] \notin Admitted
  BY DEF Init, S!Init, Admitted
<1>4. SlotInv
  BY <1>3 DEF SlotInv, ClosuresAreOwned, SlotHeldWhileAdmitted, S!Held
<1>5. QED
  BY <1>1, <1>2, <1>4 DEF IInv

LEMMA NextPreserves == IInv /\ [Next]_vars => IInv'
<1> SUFFICES ASSUME IInv, [Next]_vars PROVE IInv'
  OBVIOUS
<1>1. ASSUME NEW r \in Requests, Arrive(r) \/ Allow(r) \/ Check(r) PROVE IInv'
  BY <1>1, OutsideStep
<1>2. ASSUME NEW r \in Requests, Acquire(r) PROVE IInv'
  BY <1>2, AcquirePreserves
<1>3. ASSUME NEW r \in Requests, StartPlan(r) PROVE IInv'
  BY <1>3, StartPlanPreserves
<1>4. ASSUME NEW r \in Requests, AttemptEnds(r) PROVE IInv'
  BY <1>4, CompletePreserves, SetAsidePreserves, FailedForGoodPreserves DEF AttemptEnds
<1>5. ASSUME NEW r \in Requests, FailOver(r) \/ GiveUp(r) \/ Settle(r) PROVE IInv'
  BY <1>5, FailOverPreserves, GiveUpPreserves, SettlePreserves
<1>6. ASSUME NEW r \in Requests, Panic(r) PROVE IInv'
  BY <1>6, PanicPreserves
<1>7. ASSUME NEW r \in Requests, HangUp(r) \/ DeadlinePasses(r) PROVE IInv'
  BY <1>7, EnvironmentPreserves
<1>8. CASE UNCHANGED vars
  BY <1>8 DEF vars, slotVars, reqVars, IInv, ReqTypeOK, AttemptsBounded, SlotInv,
              ClosuresAreOwned, SlotHeldWhileAdmitted, S!Held
<1>9. QED
  BY <1>1, <1>2, <1>3, <1>4, <1>5, <1>6, <1>7, <1>8 DEF Next, Step

\* Chat keeps its invariant (llm_gateway.go:206-360).
THEOREM GatewayInvariant == Spec => []IInv
<1>1. QED
  BY InitEstablishes, NextPreserves, PTL DEF Spec

\* At most two attempts, on two different providers, for every plan.
THEOREM GatewayAttemptsBounded == Spec => []AttemptsBounded
<1>1. IInv => AttemptsBounded
  BY DEF IInv
<1>2. QED
  BY <1>1, GatewayInvariant, PTL

\* No path through Chat leaks a slot or returns one it does not hold.
THEOREM GatewaySlotHeldWhileAdmitted == Spec => []SlotHeldWhileAdmitted
<1>1. IInv => SlotHeldWhileAdmitted
  BY DEF IInv, SlotInv
<1>2. QED
  BY <1>1, GatewayInvariant, PTL

-----------------------------------------------------------------------------
\* A step of the gateway is a step of the slot limiter, or leaves it alone.
LEMMA StepIsSlotsStep == IInv /\ [Next]_vars => [S!Next]_(S!vars)
<1> SUFFICES ASSUME IInv, [Next]_vars PROVE [S!Next]_(S!vars)
  OBVIOUS
<1>1. UNCHANGED slotVars => UNCHANGED S!vars
  BY DEF slotVars, S!vars
<1>2. ASSUME NEW r \in Requests, ReleaseSlot(r) PROVE S!Next
  BY <1>2 DEF ReleaseSlot, S!Release, S!Next
<1>3. ASSUME NEW r \in Requests, Acquire(r) PROVE S!Next
  <2>1. caller[r] \in Apps
    BY DEF IInv, ReqTypeOK
  <2>2. S!TryAcquire(caller[r], r)
    BY <1>3 DEF Acquire, S!TryAcquire
  <2>3. QED
    BY <2>1, <2>2 DEF S!Next
<1>4. ASSUME NEW r \in Requests, Arrive(r) \/ Allow(r) \/ Check(r)
      PROVE  UNCHANGED slotVars
  BY <1>4 DEF Arrive, Allow, Check, Meter
<1>5. ASSUME NEW r \in Requests, StartPlan(r) PROVE ReleaseSlot(r) \/ UNCHANGED slotVars
  BY <1>5 DEF StartPlan
<1>6. ASSUME NEW r \in Requests, AttemptEnds(r) PROVE ReleaseSlot(r) \/ UNCHANGED slotVars
  BY <1>6 DEF AttemptEnds, Complete, CallerGone, DeadlineExhausted, SetAside
<1>7. ASSUME NEW r \in Requests, GiveUp(r) \/ Settle(r) \/ Panic(r) PROVE ReleaseSlot(r)
  BY <1>7 DEF GiveUp, Settle, Panic
<1>8. ASSUME NEW r \in Requests, FailOver(r) \/ HangUp(r) \/ DeadlinePasses(r)
      PROVE  UNCHANGED slotVars
  BY <1>8 DEF FailOver, HangUp, DeadlinePasses
<1>9. CASE UNCHANGED vars
  BY <1>1, <1>9 DEF vars
<1>10. QED
  BY <1>1, <1>2, <1>3, <1>4, <1>5, <1>6, <1>7, <1>8, <1>9 DEF Next, Step

\* The gateway implements the slot limiter's specification.
THEOREM GatewayImplementsSlots == Spec => SlotsSpec
<1>1. Init => S!Init
  BY DEF Init
<1>2. QED
  BY <1>1, StepIsSlotsStep, GatewayInvariant, PTL DEF Spec, SlotsSpec, S!Spec
-----------------------------------------------------------------------------
\* What is proved of Slots, read for the gateway's slots.
SP == INSTANCE SlotsProofs WITH Ids <- Requests

\* The instance's copies of two library operators are the library's.
LEMMA SameOperators ==
  /\ \A T : SP!IsFiniteSet(T) = IsFiniteSet(T)
  /\ \A T : SP!Cardinality(T) = Cardinality(T)
<1>1. \A T : SP!IsFiniteSet(T) = IsFiniteSet(T)
  BY DEF SP!IsFiniteSet, IsFiniteSet
<1>2. \A T : SP!Cardinality(T) = Cardinality(T)
  BY <1>1 DEF SP!Cardinality, Cardinality
<1>3. QED
  BY <1>1, <1>2

\* The specification the gateway implements is the one SlotsProofs is about.
LEMMA SlotsAreTheModules == Spec => SP!Spec
<1>1. S!Spec => SP!Spec
  BY PTL DEF S!Spec, SP!Spec, S!Init, SP!Init, S!Next, SP!Next, S!vars, SP!vars,
         S!TryAcquire, SP!TryAcquire, S!Grant, SP!Grant, S!Refuse, SP!Refuse,
         S!Release, SP!Release, S!ReleaseOnce, SP!ReleaseOnce, S!limits, SP!limits,
         S!OwnCeilingRefuses, SP!OwnCeilingRefuses, S!GlobalCapRefuses,
         SP!GlobalCapRefuses, S!NoAnswer, SP!NoAnswer
<1>2. QED
  BY <1>1, GatewayImplementsSlots, PTL DEF SlotsSpec

LEMMA SlotsAssumed == Limits \subseteq Nat /\ SP!IsFiniteSet(Apps)
  BY GatewayAssumption, SameOperators

LEMMA SlotsFacts == Spec => []SP!IInv
<1>1. SP!Spec => []SP!IInv
  BY SP!SlotsInvariant, SlotsAssumed
<1>2. QED
  BY <1>1, SlotsAreTheModules, PTL

\* Inside the gateway too, the global cap turns an app's request away only while
\* that app holds its share (limiter.go:6-13, llm_gateway.go:248-258).
THEOREM GatewayGuaranteedShare == Spec => []SP!GuaranteedShare
<1>1. SP!Spec => []SP!GuaranteedShare
  BY SP!SlotsGuaranteedShare, SlotsAssumed
<1>2. QED
  BY <1>1, SlotsAreTheModules, PTL

\* Every variable of the gateway keeps its type.
THEOREM GatewayTypeCorrect == Spec => []TypeOK
<1>1. IInv /\ SP!IInv => TypeOK
  BY DEF IInv, SP!IInv, SP!TypeOK, TypeOK, S!TypeOK, S!Closure, SP!Closure
<1>2. QED
  BY <1>1, GatewayInvariant, SlotsFacts, PTL

\* The handlers of a set of apps and the slots those apps hold are equally
\* many: r corresponds to its closure.
LEMMA AsManyHandlersAsSlots ==
  ASSUME IInv, NEW A \in SUBSET Apps,
         IsFiniteSet({c \in S!Held : c.app \in A})
  PROVE  Cardinality({r \in Requests : pc[r] \in Admitted /\ caller[r] \in A})
           = Cardinality({c \in S!Held : c.app \in A})
<1> DEFINE R == {r \in Requests : pc[r] \in Admitted /\ caller[r] \in A}
           C == {c \in S!Held : c.app \in A}
           f == [c \in C |-> c.id]
<1>1. S!Held = {[id |-> r, app |-> caller[r]] : r \in {q \in Requests : pc[q] \in Admitted}}
  BY DEF IInv, SlotInv, SlotHeldWhileAdmitted
<1>2. \A c \in C : c.id \in R /\ c = [id |-> c.id, app |-> caller[c.id]]
  BY <1>1
<1>3. \A r \in R : [id |-> r, app |-> caller[r]] \in C
  BY <1>1
<1>4. f \in Bijection(C, R)
  <2>1. f \in Injection(C, R)
    BY <1>2 DEF Injection, IsInjective
  <2>2. f \in Surjection(C, R)
    BY <1>2, <1>3 DEF Surjection
  <2>3. QED
    BY <2>1, <2>2 DEF Bijection
<1>5. ExistsBijection(C, R)
  BY <1>4 DEF ExistsBijection
<1>6. QED
  BY <1>5, FS_Bijection

\* The ceilings bind the handlers themselves, in every interleaving.
THEOREM GatewayHandlersWithinCeilings == Spec => []HandlersWithinCeilings
<1>1. ASSUME IInv, SP!IInv PROVE HandlersWithinCeilings
  <2> DEFINE Running(A) == {r \in Requests : pc[r] \in Admitted /\ caller[r] \in A}
             HeldOf(A)  == {c \in S!Held : c.app \in A}
  <2>1. S!Held = SP!Held /\ IsFiniteSet(S!Held)
    <3>1. SP!IsFiniteSet(issued)
      BY <1>1 DEF SP!IInv
    <3>2. IsFiniteSet(issued)
      BY <3>1, SameOperators, Zenon
    <3>3. QED
      BY <3>2, FS_Subset DEF S!Held, SP!Held
  <2>2. ASSUME NEW A \in SUBSET Apps PROVE Cardinality(Running(A)) = Cardinality(HeldOf(A))
    <3>1. IsFiniteSet(HeldOf(A))
      BY <2>1, FS_Subset
    <3>2. QED
      BY <1>1, <3>1, AsManyHandlersAsSlots
  <2>3. HeldOf(Apps) = SP!Held
    BY <1>1, <2>1 DEF SP!IInv, SP!TypeOK, SP!Held, SP!Closure
  <2>4. \A a \in Apps : HeldOf({a}) = SP!HeldBy(a)
    BY <2>1 DEF SP!HeldBy
  <2>5. SP!CeilingsHold
    BY <1>1 DEF SP!IInv
  <2> HIDE DEF Running, HeldOf
  <2>6. global > 0 => Cardinality(Running(Apps)) <= global
    BY <2>2, <2>3, <2>5, SameOperators DEF SP!CeilingsHold
  <2>7. \A a \in Apps : ceilings[a] > 0 => Cardinality(Running({a})) <= ceilings[a]
    BY <2>2, <2>4, <2>5, SameOperators DEF SP!CeilingsHold
  <2>8. QED
    BY <2>6, <2>7 DEF HandlersWithinCeilings, Running
<1>2. QED
  BY <1>1, GatewayInvariant, SlotsFacts, PTL
-----------------------------------------------------------------------------
\* What a request leaves on record.  The invariants speak of one request's own
\* values, so that a step of another request cannot disturb them.
FinalFacts   == {"rejection", "completion", "disconnect"}
PricingFacts == {"double_spend", "disconnect"}
Early        == Waiting \cup {"plan"}

Finals(l) == {i \in DOMAIN l : l[i].fact \in FinalFacts}

\* The attempts still to be judged: none before the loop, one in a call, none
\* between two calls.
AttemptsCounted(p, t, f) ==
  /\ p \in Early => t = <<>> /\ f = <<>>
  /\ p \in {"attempt", "settle"} => Len(t) = Len(f) + 1
  /\ p = "next" => Len(t) = Len(f)

\* One final fact, and only at the end: RecordedOnce, with what it needs of a
\* completion that is being settled.
FinalsRight(l, p, out) ==
  /\ p \in Early \cup {"attempt", "next"} => Finals(l) = {}
  /\ p = "settle" => \E i \in DOMAIN l : Finals(l) = {i} /\ l[i].fact = "completion"
  /\ p = "done" =>
       \/ out \in {"unauthorized", "panicked"} /\ Finals(l) = {}
       \/ /\ out # "unauthorized"
          /\ \E i \in DOMAIN l :
               /\ Finals(l) = {i}
               /\ l[i].fact = FinalFactOf(out)
               /\ l[i].fact = "rejection" => l[i].code = out

\* Whatever has been priced or completed so far is an earlier attempt than the
\* one under way, so the next price cannot repeat one.
PricesRight(l, p, out, t, f) ==
  /\ p # "done" => out = "none"
  /\ p \in Early \cup {"attempt"} =>
       \A i \in DOMAIN l :
         l[i].fact \in PricingFacts \cup {"completion"} => l[i].attempt < Len(t)
  /\ p = "next" =>
       \A i \in DOMAIN l :
         l[i].fact \in PricingFacts \cup {"completion"} => l[i].attempt < Len(t) + 1
  /\ \A i, j \in DOMAIN l :
       /\ l[i].fact \in PricingFacts /\ l[j].fact \in PricingFacts
            => (l[i].attempt = l[j].attempt => i = j)
       /\ l[i].fact = "completion" /\ l[j].fact \in PricingFacts
            => l[i].attempt # l[j].attempt
  /\ \A n \in DOMAIN f :
       billsDespiteFailure(f[n]) /\ (out = "gateway_timeout" => n < Len(f))
         => \E i \in DOMAIN l : l[i].fact \in PricingFacts /\ l[i].attempt = n

Booked(l, p, out, t, f) ==
  AttemptsCounted(p, t, f) /\ FinalsRight(l, p, out) /\ PricesRight(l, p, out, t, f)

Books == \A r \in Requests : Booked(log[r], pc[r], outcome[r], trail[r], faults[r])

-----------------------------------------------------------------------------
\* One more entry: the old ones keep their places.
LEMMA OneMoreEntry ==
  ASSUME NEW l \in Seq(Entry), NEW e \in Entry
  PROVE  /\ Append(l, e) \in Seq(Entry)
         /\ DOMAIN Append(l, e) = DOMAIN l \cup {Len(l) + 1}
         /\ Len(l) + 1 \notin DOMAIN l
         /\ Append(l, e)[Len(l) + 1] = e
         /\ \A i \in DOMAIN l : Append(l, e)[i] = l[i]
  OBVIOUS

LEMMA AttemptsAreNumbers ==
  ASSUME NEW l \in Seq(Entry)
  PROVE  \A i \in DOMAIN l : l[i].attempt \in Nat
<1>1. \A i \in DOMAIN l : l[i] \in Entry
  OBVIOUS
<1>2. \A x \in Entry : x.attempt \in Nat
  BY DEF Entry, maxAttempts
<1>3. QED
  BY <1>1, <1>2

LEMMA FinalsAfter ==
  ASSUME NEW l \in Seq(Entry), NEW e \in Entry
  PROVE  Finals(Append(l, e)) =
           IF e.fact \in FinalFacts THEN Finals(l) \cup {Len(l) + 1} ELSE Finals(l)
<1> DEFINE m == Append(l, e)
<1>1. /\ DOMAIN m = DOMAIN l \cup {Len(l) + 1} /\ Len(l) + 1 \notin DOMAIN l
      /\ m[Len(l) + 1] = e /\ \A i \in DOMAIN l : m[i] = l[i]
  BY OneMoreEntry
<1> HIDE DEF m
<1>2. QED
  BY <1>1 DEF Finals, m

\* An entry that is final ends the request with the right fact.
LEMMA FinalsClosed ==
  ASSUME NEW l \in Seq(Entry), NEW e \in Entry, NEW out,
         Finals(l) = {}, e.fact = FinalFactOf(out),
         e.fact = "rejection" => e.code = out,
         out \notin {"unauthorized", "panicked"}
  PROVE  FinalsRight(Append(l, e), "done", out)
<1> DEFINE m == Append(l, e)
           k == Len(l) + 1
<1>1. e.fact \in FinalFacts
  BY DEF FinalFactOf, FinalFacts
<1>2. Finals(m) = {k} /\ k \in DOMAIN m /\ m[k] = e
  BY <1>1, FinalsAfter, OneMoreEntry
<1> HIDE DEF m, k
<1>3. FinalsRight(m, "done", out)
  BY <1>2 DEF FinalsRight, Early, Waiting
<1>4. QED
  BY <1>3 DEF m

\* An entry that is not final, priced nor a completion changes nothing.
LEMMA PlainEntry ==
  ASSUME NEW l \in Seq(Entry), NEW e \in Entry, NEW p, NEW out, NEW t, NEW f,
         e.fact \notin PricingFacts \cup {"completion"},
         PricesRight(l, p, out, t, f)
  PROVE  PricesRight(Append(l, e), p, out, t, f)
<1> DEFINE m == Append(l, e)
           k == Len(l) + 1
<1>1. /\ DOMAIN m = DOMAIN l \cup {k} /\ k \notin DOMAIN l
      /\ m[k] = e /\ \A i \in DOMAIN l : m[i] = l[i]
  BY OneMoreEntry
<1> HIDE DEF m, k
<1>2. PricesRight(m, p, out, t, f)
  BY <1>1 DEF PricesRight
<1>3. QED
  BY <1>2 DEF m

\* Where the request moves within the loop does not matter to its prices.
LEMMA PricesMove ==
  ASSUME NEW l, NEW p, NEW q, NEW out, NEW t, NEW f,
         PricesRight(l, p, out, t, f), p # "done",
         q \in Early \cup {"attempt"} => p \in Early \cup {"attempt"}, q # "next",
         NEW result, q # "done" => result = "none",
         result = "gateway_timeout" => f = <<>>
  PROVE  PricesRight(l, q, result, t, f)
  BY DEF PricesRight
-----------------------------------------------------------------------------
\* A failed attempt that is priced: its number is new to the books.
LEMMA FaultPriced ==
  ASSUME NEW l \in Seq(Entry), NEW out, NEW t \in Seq(Route), NEW f \in Seq(Faults),
         NEW kind \in Faults, Len(t) = Len(f) + 1, PricesRight(l, "attempt", out, t, f),
         NEW e \in Entry, e.fact \in PricingFacts, e.attempt = Len(t),
         NEW p \in {"next", "done"}, NEW result, p = "next" => result = "none"
  PROVE  PricesRight(Append(l, e), p, result, t, Append(f, kind))
<1> DEFINE m == Append(l, e)
           k == Len(l) + 1
           g == Append(f, kind)
<1>1. /\ DOMAIN m = DOMAIN l \cup {k} /\ k \notin DOMAIN l
      /\ m[k] = e /\ \A i \in DOMAIN l : m[i] = l[i]
  BY OneMoreEntry
<1>2. /\ Len(g) = Len(f) + 1 /\ Len(f) \in Nat /\ Len(t) = Len(g)
      /\ DOMAIN g = DOMAIN f \cup {Len(t)}
      /\ \A n \in DOMAIN f : g[n] = f[n] /\ n \in Nat /\ n < Len(t)
  OBVIOUS
<1>3. \A i \in DOMAIN l : l[i].attempt \in Nat
  BY AttemptsAreNumbers
<1> HIDE DEF m, k, g
<1>4. /\ out = "none"
      /\ \A i \in DOMAIN l : l[i].fact \in PricingFacts \cup {"completion"}
                               => l[i].attempt < Len(t) /\ l[i].attempt # Len(t)
  BY <1>2, <1>3 DEF PricesRight
<1>5. ASSUME NEW i \in DOMAIN m, m[i].fact \in PricingFacts \cup {"completion"}
      PROVE  m[i].attempt < Len(t) + 1
  <2>1. Len(t) \in Nat
    OBVIOUS
  <2>2. CASE i = k
    BY <1>1, <2>1, <2>2
  <2>3. CASE i \in DOMAIN l
    BY <1>1, <1>3, <1>4, <1>5, <2>1, <2>3
  <2>4. QED
    BY <1>1, <2>2, <2>3
<1>6. \A i, j \in DOMAIN m :
        /\ m[i].fact \in PricingFacts /\ m[j].fact \in PricingFacts
             => (m[i].attempt = m[j].attempt => i = j)
        /\ m[i].fact = "completion" /\ m[j].fact \in PricingFacts
             => m[i].attempt # m[j].attempt
  BY <1>1, <1>4 DEF PricesRight, PricingFacts
<1>7. \A n \in DOMAIN g :
        billsDespiteFailure(g[n]) => \E i \in DOMAIN m : m[i].fact \in PricingFacts
                                                         /\ m[i].attempt = n
  BY <1>1, <1>2, <1>4 DEF PricesRight
<1>8. PricesRight(m, p, result, t, g)
  BY <1>5, <1>6, <1>7 DEF PricesRight, Early, Waiting
<1>9. QED
  BY <1>8 DEF m, g

\* A failed attempt that is not priced: it costs nothing, or the total deadline
\* ended it.
LEMMA FaultFree ==
  ASSUME NEW l \in Seq(Entry), NEW out, NEW t \in Seq(Route), NEW f \in Seq(Faults),
         NEW kind \in Faults, Len(t) = Len(f) + 1, PricesRight(l, "attempt", out, t, f),
         NEW p \in {"next", "done"}, NEW result, p = "next" => result = "none",
         ~billsDespiteFailure(kind) \/ result = "gateway_timeout"
  PROVE  PricesRight(l, p, result, t, Append(f, kind))
<1> DEFINE g == Append(f, kind)
<1>1. /\ Len(g) = Len(f) + 1 /\ Len(f) \in Nat /\ Len(t) = Len(g)
      /\ DOMAIN g = DOMAIN f \cup {Len(g)} /\ g[Len(g)] = kind
      /\ \A n \in DOMAIN f : g[n] = f[n]
  OBVIOUS
<1>2. \A i \in DOMAIN l : l[i].attempt \in Nat
  BY AttemptsAreNumbers
<1> HIDE DEF g
<1>3. \A i \in DOMAIN l :
        l[i].fact \in PricingFacts \cup {"completion"} => l[i].attempt < Len(t) + 1
  BY <1>1, <1>2 DEF PricesRight
<1>4. \A n \in DOMAIN g :
        billsDespiteFailure(g[n]) /\ (result = "gateway_timeout" => n < Len(g))
          => \E i \in DOMAIN l : l[i].fact \in PricingFacts /\ l[i].attempt = n
  BY <1>1 DEF PricesRight
<1>5. PricesRight(l, p, result, t, g)
  BY <1>3, <1>4 DEF PricesRight, Early, Waiting
<1>6. QED
  BY <1>5 DEF g
-----------------------------------------------------------------------------
\* The steps of one request and its books.
LEMMA BooksTyped ==
  ASSUME IInv, Books, NEW r \in Requests
  PROVE  /\ log[r] \in Seq(Entry) /\ trail[r] \in Seq(Route) /\ faults[r] \in Seq(Faults)
         /\ \A c \in RejectionCodes : Rejection(c) \in Entry
         /\ \A f \in Facts : FactOf(f, 0) \in Entry /\ FactOf(f, Len(trail[r])) \in Entry
         /\ AttemptsCounted(pc[r], trail[r], faults[r])
         /\ FinalsRight(log[r], pc[r], outcome[r])
         /\ PricesRight(log[r], pc[r], outcome[r], trail[r], faults[r])
  BY EntriesTyped DEF IInv, ReqTypeOK, Books, Booked

\* A request turned away before the loop: the rejection is all that is final.
LEMMA TurnedAway ==
  ASSUME IInv, Books, NEW r \in Requests, pc[r] \in Early,
         NEW c \in RejectionCodes \ {"gateway_timeout"},
         Record(r, Rejection(c)), Return(r, c), UNCHANGED <<trail, faults>>
  PROVE  Booked(log[r], pc[r], outcome[r], trail[r], faults[r])'
<1> DEFINE l == log[r]
           e == Rejection(c)
<1>1. /\ log'[r] = Append(l, e) /\ pc'[r] = "done" /\ outcome'[r] = c
      /\ trail'[r] = trail[r] /\ faults'[r] = faults[r]
  BY DEF Record, Return, Goto, IInv, ReqTypeOK
<1>2. l \in Seq(Entry) /\ e \in Entry
  BY BooksTyped
<1>3. e.fact = "rejection" /\ e.code = c
  BY DEF Rejection
<1>4. c \notin {"served", "disconnected", "unauthorized", "panicked", "gateway_timeout"}
  BY DEF RejectionCodes
<1>5. FinalsRight(Append(l, e), "done", c)
  <2>1. Finals(l) = {} /\ e.fact = FinalFactOf(c)
    BY <1>3, <1>4, BooksTyped DEF FinalsRight, FinalFactOf
  <2>2. QED
    BY <1>2, <1>3, <1>4, <2>1, FinalsClosed
<1>6. PricesRight(Append(l, e), "done", c, trail[r], faults[r])
  <2>1. pc[r] # "done"
    BY DEF Early, Waiting
  <2>2. PricesRight(l, "done", c, trail[r], faults[r])
    BY <1>4, <2>1, BooksTyped, PricesMove DEF Early, Waiting
  <2>3. QED
    BY <1>2, <1>3, <2>2, PlainEntry DEF PricingFacts
<1>7. AttemptsCounted("done", trail[r], faults[r])
  BY DEF AttemptsCounted, Early, Waiting
<1>8. QED
  BY <1>1, <1>5, <1>6, <1>7 DEF Booked

\* A request on its way to the loop, perhaps admitted unmetered.
LEMMA OnItsWay ==
  ASSUME IInv, Books, NEW r \in Requests, pc[r] \in Early, NEW q \in Early, Goto(r, q),
         Record(r, FactOf("fail_open", 0)) \/ UNCHANGED log,
         UNCHANGED <<trail, faults, outcome>>
  PROVE  Booked(log[r], pc[r], outcome[r], trail[r], faults[r])'
<1> DEFINE l == log[r]
           e == FactOf("fail_open", 0)
<1>1. /\ log'[r] = Append(l, e) \/ log'[r] = l
      /\ pc'[r] = q /\ outcome'[r] = outcome[r]
      /\ trail'[r] = trail[r] /\ faults'[r] = faults[r]
  BY DEF Record, Goto, IInv, ReqTypeOK
<1>2. l \in Seq(Entry) /\ e \in Entry /\ e.fact = "fail_open"
  BY BooksTyped DEF Facts, FactOf
<1>3. FinalsRight(l, q, outcome[r]) /\ PricesRight(l, q, outcome[r], trail[r], faults[r])
  <2>1. q \notin {"next", "settle", "done"} /\ pc[r] \notin {"next", "settle", "done"}
    BY DEF Early, Waiting
  <2>2. FinalsRight(l, q, outcome[r])
    BY <2>1, BooksTyped DEF FinalsRight
  <2>3. PricesRight(l, q, outcome[r], trail[r], faults[r])
    BY <2>1, BooksTyped DEF PricesRight
  <2>4. QED
    BY <2>2, <2>3
<1>4. /\ FinalsRight(Append(l, e), q, outcome[r])
      /\ PricesRight(Append(l, e), q, outcome[r], trail[r], faults[r])
  <2>1. Finals(Append(l, e)) = Finals(l)
    BY <1>2, FinalsAfter DEF FinalFacts
  <2>2. q \notin {"settle", "done"}
    BY DEF Early, Waiting
  <2>3. FinalsRight(Append(l, e), q, outcome[r])
    BY <1>3, <2>1, <2>2 DEF FinalsRight
  <2>4. QED
    BY <1>2, <1>3, <2>3, PlainEntry DEF PricingFacts
<1>5. AttemptsCounted(q, trail[r], faults[r])
  BY BooksTyped DEF AttemptsCounted, Early, Waiting
<1>6. QED
  BY <1>1, <1>3, <1>4, <1>5 DEF Booked

\* A return that records nothing: an unknown caller, a panic.
LEMMA LeavesNoFact ==
  ASSUME IInv, Books, NEW r \in Requests,
         NEW out \in {"unauthorized", "panicked"}, Return(r, out),
         pc[r] \in IF out = "panicked" THEN Admitted ELSE Waiting,
         UNCHANGED <<log, trail, faults>>
  PROVE  Booked(log[r], pc[r], outcome[r], trail[r], faults[r])'
<1>1. pc'[r] = "done" /\ outcome'[r] = out
  BY DEF Return, Goto, IInv, ReqTypeOK
<1>2. pc[r] # "done" /\ (pc[r] = "settle" => out = "panicked")
      /\ pc[r] \in Early \cup {"attempt", "next", "settle"}
  BY DEF Early, Waiting, Admitted
<1>3. FinalsRight(log[r], "done", out)
  <2>1. CASE pc[r] = "settle"
    <3>1. PICK i \in DOMAIN log[r] : Finals(log[r]) = {i} /\ log[r][i].fact = "completion"
      BY <2>1, BooksTyped DEF FinalsRight
    <3> QED
      BY <1>2, <2>1, <3>1 DEF FinalsRight, FinalFactOf, Early, Waiting
  <2>2. CASE pc[r] # "settle"
    BY <1>2, <2>2, BooksTyped DEF FinalsRight, Early, Waiting
  <2> QED
    BY <2>1, <2>2
<1>4. PricesRight(log[r], "done", out, trail[r], faults[r])
  <2>1. outcome[r] = "none"
    BY <1>2, BooksTyped DEF PricesRight
  <2>2. QED
    BY <2>1, BooksTyped DEF PricesRight, Early, Waiting
<1>5. AttemptsCounted("done", trail[r], faults[r])
  BY DEF AttemptsCounted, Early, Waiting
<1>6. QED
  BY <1>1, <1>3, <1>4, <1>5 DEF Booked

\* An attempt begins: whatever was priced belongs to an earlier one.
LEMMA NextAttempt ==
  ASSUME IInv, Books, NEW r \in Requests, pc[r] \in {"plan", "next"}, NEW mp \in Route,
         trail' = [trail EXCEPT ![r] = Append(@, mp)], Goto(r, "attempt"),
         UNCHANGED <<log, outcome, faults>>
  PROVE  Booked(log[r], pc[r], outcome[r], trail[r], faults[r])'
<1> DEFINE l == log[r]
           t == trail[r]
           u == Append(t, mp)
<1>1. /\ pc'[r] = "attempt" /\ trail'[r] = u
      /\ log'[r] = l /\ outcome'[r] = outcome[r] /\ faults'[r] = faults[r]
  BY DEF Goto, IInv, ReqTypeOK
<1>2. Len(t) = Len(faults[r])
  BY BooksTyped DEF AttemptsCounted, Early
<1>3. t \in Seq(Route) /\ Len(u) = Len(t) + 1
  BY BooksTyped
<1>4. FinalsRight(l, "attempt", outcome[r])
  BY BooksTyped DEF FinalsRight, Early
<1>5. \A i \in DOMAIN l :
        l[i].fact \in PricingFacts \cup {"completion"} => l[i].attempt < Len(t) + 1
  <2>1. \A i \in DOMAIN l : l[i].attempt \in Nat
    BY BooksTyped, AttemptsAreNumbers
  <2>2. Len(t) \in Nat
    BY <1>3
  <2>3. CASE pc[r] = "plan"
    <3>1. \A i \in DOMAIN l :
            l[i].fact \in PricingFacts \cup {"completion"} => l[i].attempt < Len(t)
      BY <2>3, BooksTyped DEF PricesRight, Early
    <3> HIDE DEF l, t
    <3> QED
      BY <2>1, <2>2, <3>1
  <2>4. CASE pc[r] = "next"
    BY <2>4, BooksTyped DEF PricesRight
  <2> QED
    BY <2>3, <2>4
<1> HIDE DEF u
<1>6. PricesRight(l, "attempt", outcome[r], u, faults[r])
  BY <1>3, <1>5, BooksTyped DEF PricesRight, Early, Waiting
<1>7. AttemptsCounted("attempt", u, faults[r])
  BY <1>2, <1>3 DEF AttemptsCounted, Early, Waiting
<1>8. QED
  BY <1>1, <1>4, <1>6, <1>7 DEF Booked

\* A completion is final and costs nothing unobserved.
LEMMA CompletionBooked ==
  ASSUME IInv, Books, NEW r \in Requests, Complete(r)
  PROVE  Booked(log[r], pc[r], outcome[r], trail[r], faults[r])'
<1> DEFINE l == log[r]
           e == FactOf("completion", Len(trail[r]))
           k == Len(l) + 1
           m == Append(l, e)
<1>1. /\ pc[r] = "attempt" /\ pc'[r] = "settle" /\ log'[r] = m
      /\ outcome'[r] = outcome[r] /\ trail'[r] = trail[r] /\ faults'[r] = faults[r]
  BY DEF Complete, Record, Goto, IInv, ReqTypeOK
<1>2. /\ l \in Seq(Entry) /\ e \in Entry
      /\ e.fact = "completion" /\ e.attempt = Len(trail[r])
  BY BooksTyped DEF Facts, FactOf
<1>3. /\ DOMAIN m = DOMAIN l \cup {k} /\ k \notin DOMAIN l
      /\ m[k] = e /\ \A i \in DOMAIN l : m[i] = l[i]
  BY <1>2, OneMoreEntry
<1>4. Finals(m) = {k}
  BY <1>1, <1>2, FinalsAfter, BooksTyped DEF FinalsRight, FinalFacts
<1>5. /\ \A i \in DOMAIN l : l[i].fact \in PricingFacts => l[i].attempt # Len(trail[r])
      /\ \A i \in DOMAIN l : l[i].fact # "completion"
  <2>1. \A i \in DOMAIN l : l[i].attempt \in Nat
    BY <1>2, AttemptsAreNumbers
  <2>2. \A i \in DOMAIN l : l[i].fact \in PricingFacts => l[i].attempt < Len(trail[r])
    BY <1>1, BooksTyped DEF PricesRight
  <2>3. \A i \in DOMAIN l : i \notin Finals(l)
    BY <1>1, BooksTyped DEF FinalsRight
  <2>4. QED
    BY <2>1, <2>2, <2>3, BooksTyped DEF Finals, FinalFacts
<1> HIDE DEF m, k
<1>6. FinalsRight(m, "settle", outcome[r])
  BY <1>2, <1>3, <1>4 DEF FinalsRight, Early, Waiting
<1>7. PricesRight(m, "settle", outcome[r], trail[r], faults[r])
  BY <1>1, <1>2, <1>3, <1>5, BooksTyped DEF PricesRight, PricingFacts, Early, Waiting
<1>8. AttemptsCounted("settle", trail[r], faults[r])
  BY <1>1, BooksTyped DEF AttemptsCounted, Early, Waiting
<1>9. QED
  BY <1>1, <1>6, <1>7, <1>8 DEF Booked

\* The debit, or its loss, is neither final nor a price.
LEMMA SettlementBooked ==
  ASSUME IInv, Books, NEW r \in Requests, Settle(r)
  PROVE  Booked(log[r], pc[r], outcome[r], trail[r], faults[r])'
<1> DEFINE l == log[r]
<1>1. PICK x \in {"debit", "debit_lost"} : Record(r, FactOf(x, Len(trail[r])))
  BY DEF Settle
<1> DEFINE e == FactOf(x, Len(trail[r]))
<1>2. /\ pc[r] = "settle" /\ pc'[r] = "done" /\ outcome'[r] = "served"
      /\ log'[r] = Append(l, e) /\ trail'[r] = trail[r] /\ faults'[r] = faults[r]
  BY <1>1 DEF Settle, Record, Return, Goto, IInv, ReqTypeOK
<1>3. l \in Seq(Entry) /\ e \in Entry /\ e.fact = x
  BY BooksTyped DEF Facts, FactOf
<1>4. FinalsRight(Append(l, e), "done", "served")
  <2>1. Finals(Append(l, e)) = Finals(l)
    BY <1>3, FinalsAfter DEF FinalFacts
  <2>2. PICK i \in DOMAIN l : Finals(l) = {i} /\ l[i].fact = "completion"
    BY <1>2, BooksTyped DEF FinalsRight
  <2>3. i \in DOMAIN Append(l, e) /\ Append(l, e)[i].fact = "completion"
    BY <1>3, <2>2, OneMoreEntry
  <2>4. QED
    BY <2>1, <2>2, <2>3 DEF FinalsRight, FinalFactOf, Early, Waiting
<1>5. PricesRight(Append(l, e), "done", "served", trail[r], faults[r])
  <2>1. PricesRight(l, "done", "served", trail[r], faults[r])
    BY <1>2, BooksTyped DEF PricesRight, Early, Waiting
  <2>2. QED
    BY <1>3, <2>1, PlainEntry DEF PricingFacts
<1>6. AttemptsCounted("done", trail[r], faults[r])
  BY DEF AttemptsCounted, Early, Waiting
<1>7. QED
  BY <1>2, <1>4, <1>5, <1>6 DEF Booked

\* A failed attempt that ends the request, with its price and its final fact.
LEMMA FailedBooked ==
  ASSUME IInv, Books, NEW r \in Requests, NEW kind \in Faults,
         CallerGone(r, kind) \/ DeadlineExhausted(r, kind)
  PROVE  Booked(log[r], pc[r], outcome[r], trail[r], faults[r])'
<1> DEFINE l == log[r]
           t == trail[r]
           g == Append(faults[r], kind)
           n == Len(trail[r])
<1>1. /\ pc[r] = "attempt" /\ pc'[r] = "done"
      /\ trail'[r] = t /\ faults'[r] = g
  BY DEF CallerGone, DeadlineExhausted, AttemptFails, Return, Goto, IInv, ReqTypeOK
<1>2. /\ l \in Seq(Entry) /\ t \in Seq(Route) /\ faults[r] \in Seq(Faults)
      /\ Len(t) = Len(faults[r]) + 1
      /\ PricesRight(l, "attempt", outcome[r], t, faults[r])
      /\ Finals(l) = {}
  BY <1>1, BooksTyped DEF AttemptsCounted, FinalsRight
<1>3. AttemptsCounted("done", t, g)
  BY DEF AttemptsCounted, Early, Waiting
<1> HIDE DEF g
<1>4. CASE CallerGone(r, kind)
  <2> DEFINE e == FactOf("disconnect", n)
  <2>1. log'[r] = Append(l, e) /\ outcome'[r] = "disconnected"
    BY <1>4 DEF CallerGone, Record, Return, IInv, ReqTypeOK
  <2>2. e \in Entry /\ e.fact = "disconnect" /\ e.attempt = n
    BY BooksTyped DEF Facts, FactOf
  <2>3. FinalsRight(Append(l, e), "done", "disconnected")
    BY <1>2, <2>2, FinalsClosed DEF FinalFactOf
  <2>4. PricesRight(Append(l, e), "done", "disconnected", t, g)
    BY <1>2, <2>2, FaultPriced DEF PricingFacts, g
  <2>5. QED
    BY <1>1, <1>3, <2>1, <2>3, <2>4 DEF Booked
<1>5. CASE DeadlineExhausted(r, kind)
  <2> DEFINE e == Rejection("gateway_timeout")
  <2>1. log'[r] = Append(l, e) /\ outcome'[r] = "gateway_timeout"
    BY <1>5 DEF DeadlineExhausted, Record, Return, IInv, ReqTypeOK
  <2>2. e \in Entry /\ e.fact = "rejection" /\ e.code = "gateway_timeout"
    BY BooksTyped DEF RejectionCodes, Rejection
  <2>3. FinalsRight(Append(l, e), "done", "gateway_timeout")
    BY <1>2, <2>2, FinalsClosed DEF FinalFactOf
  <2>4. PricesRight(l, "done", "gateway_timeout", t, g)
    BY <1>2, FaultFree DEF g
  <2>5. PricesRight(Append(l, e), "done", "gateway_timeout", t, g)
    BY <1>2, <2>2, <2>4, PlainEntry DEF PricingFacts
  <2>6. QED
    BY <1>1, <1>3, <2>1, <2>3, <2>5 DEF Booked
<1>6. QED
  BY <1>4, <1>5

\* A failed attempt that leaves the request in the loop: priced or free.
LEMMA SetAsideBooked ==
  ASSUME IInv, Books, NEW r \in Requests, NEW kind \in Faults, SetAside(r, kind)
  PROVE  Booked(log[r], pc[r], outcome[r], trail[r], faults[r])'
<1> DEFINE l == log[r]
           t == trail[r]
           g == Append(faults[r], kind)
           e == FactOf("double_spend", Len(trail[r]))
<1>1. /\ pc[r] = "attempt" /\ pc'[r] = "next" /\ outcome'[r] = outcome[r]
      /\ trail'[r] = t /\ faults'[r] = g
      /\ IF billsDespiteFailure(kind) THEN log'[r] = Append(l, e) ELSE log'[r] = l
  BY DEF SetAside, AttemptFails, Record, Goto, IInv, ReqTypeOK
<1>2. /\ l \in Seq(Entry) /\ t \in Seq(Route) /\ faults[r] \in Seq(Faults)
      /\ Len(t) = Len(faults[r]) + 1
      /\ PricesRight(l, "attempt", outcome[r], t, faults[r])
      /\ Finals(l) = {} /\ outcome[r] = "none"
  BY <1>1, BooksTyped DEF AttemptsCounted, FinalsRight, PricesRight
<1>3. Len(g) = Len(t)
  BY <1>2
<1>4. e \in Entry /\ e.fact = "double_spend" /\ e.attempt = Len(t)
  BY BooksTyped DEF Facts, FactOf
<1>5. AttemptsCounted("next", t, g)
  BY <1>3 DEF AttemptsCounted, Early, Waiting
<1> HIDE DEF g, e
<1>6. CASE billsDespiteFailure(kind)
  <2>1. Finals(Append(l, e)) = {}
    BY <1>2, <1>4, FinalsAfter DEF FinalFacts
  <2>2. PricesRight(Append(l, e), "next", outcome[r], t, g)
    BY <1>2, <1>4, FaultPriced DEF PricingFacts, g
  <2>3. QED
    BY <1>1, <1>5, <1>6, <2>1, <2>2 DEF Booked, FinalsRight
<1>7. CASE ~billsDespiteFailure(kind)
  <2>1. PricesRight(l, "next", outcome[r], t, g)
    BY <1>2, <1>7, FaultFree DEF g
  <2>2. QED
    BY <1>1, <1>2, <1>5, <1>7, <2>1 DEF Booked, FinalsRight
<1>8. QED
  BY <1>6, <1>7

\* The loop has ended: the verdict is the one final fact.
LEMMA GivesUpBooked ==
  ASSUME IInv, Books, NEW r \in Requests, GiveUp(r)
  PROVE  Booked(log[r], pc[r], outcome[r], trail[r], faults[r])'
<1> DEFINE l == log[r]
           c == GiveUpCode(r)
           e == Rejection(GiveUpCode(r))
<1>1. /\ pc[r] = "next" /\ pc'[r] = "done" /\ outcome'[r] = c /\ log'[r] = Append(l, e)
      /\ trail'[r] = trail[r] /\ faults'[r] = faults[r]
  BY DEF GiveUp, Record, Return, Goto, IInv, ReqTypeOK
<1>2. /\ l \in Seq(Entry) /\ Finals(l) = {} /\ outcome[r] = "none"
      /\ PricesRight(l, "next", outcome[r], trail[r], faults[r])
  BY <1>1, BooksTyped DEF FinalsRight, PricesRight
<1>3. c \in {"model_unavailable", "upstream_failed"}
  BY DEF GiveUpCode
<1>4. e \in Entry /\ e.fact = "rejection" /\ e.code = c
  BY <1>3, BooksTyped DEF RejectionCodes, Rejection
<1>5. e.fact = FinalFactOf(c)
  BY <1>3, <1>4 DEF FinalFactOf
<1> HIDE DEF c, e
<1>6. FinalsRight(Append(l, e), "done", c)
  BY <1>2, <1>3, <1>4, <1>5, FinalsClosed
<1>7. PricesRight(l, "done", c, trail[r], faults[r])
  BY <1>2, <1>3 DEF PricesRight, Early, Waiting
<1>8. PricesRight(Append(l, e), "done", c, trail[r], faults[r])
  BY <1>2, <1>4, <1>7, PlainEntry DEF PricingFacts
<1>9. AttemptsCounted("done", trail[r], faults[r])
  BY DEF AttemptsCounted, Early, Waiting
<1>10. QED
  BY <1>1, <1>6, <1>8, <1>9 DEF Booked

\* The books of the requests that do not move.
LEMMA OthersUnbooked ==
  ASSUME IInv, NEW r \in Requests, NEW q \in Requests, q # r,
         Arrive(r) \/ Step(r) \/ Panic(r) \/ HangUp(r) \/ DeadlinePasses(r)
  PROVE  UNCHANGED <<log[q], pc[q], outcome[q], trail[q], faults[q]>>
<1> USE DEF IInv, ReqTypeOK, Record, Return, Goto
<1>1. CASE Arrive(r) \/ Allow(r) \/ Check(r) \/ Acquire(r)
  BY <1>1 DEF Arrive, Allow, Check, Meter, Acquire
<1>2. CASE StartPlan(r) \/ Complete(r) \/ FailOver(r) \/ GiveUp(r) \/ Settle(r) \/ Panic(r)
  BY <1>2 DEF StartPlan, Complete, FailOver, GiveUp, Settle, Panic
<1>3. ASSUME NEW kind \in Faults,
             CallerGone(r, kind) \/ DeadlineExhausted(r, kind) \/ SetAside(r, kind)
      PROVE  UNCHANGED <<log[q], pc[q], outcome[q], trail[q], faults[q]>>
  BY <1>3 DEF CallerGone, DeadlineExhausted, SetAside, AttemptFails
<1>4. CASE HangUp(r) \/ DeadlinePasses(r)
  BY <1>4 DEF HangUp, DeadlinePasses
<1>5. QED
  BY <1>1, <1>2, <1>3, <1>4 DEF Step, AttemptEnds

LEMMA BooksInit == Init => Books
<1> SUFFICES ASSUME Init, NEW r \in Requests
             PROVE  Booked(log[r], pc[r], outcome[r], trail[r], faults[r])
  BY DEF Books
<1>1. /\ log[r] = <<>> /\ pc[r] = "idle" /\ outcome[r] = "none"
      /\ trail[r] = <<>> /\ faults[r] = <<>>
  BY DEF Init
<1>2. QED
  BY <1>1 DEF Booked, AttemptsCounted, FinalsRight, PricesRight, Finals, Early, Waiting

LEMMA BooksStep ==
  ASSUME IInv, Books, NEW r \in Requests,
         Arrive(r) \/ Step(r) \/ Panic(r) \/ HangUp(r) \/ DeadlinePasses(r)
  PROVE  Booked(log[r], pc[r], outcome[r], trail[r], faults[r])'
<1>1. CASE Arrive(r)
  <2>1. /\ pc[r] \in Early /\ pc[r] \in Waiting /\ UNCHANGED <<trail, faults>>
        /\ \/ Return(r, "unauthorized") /\ UNCHANGED log
           \/ Record(r, Rejection("invalid_request")) /\ Return(r, "invalid_request")
           \/ Goto(r, "allow") /\ UNCHANGED <<log, outcome>>
    BY <1>1 DEF Arrive, Early, Waiting
  <2>2. "allow" \in Early /\ "invalid_request" \in RejectionCodes \ {"gateway_timeout"}
    BY DEF Early, Waiting, RejectionCodes
  <2>3. QED
    BY <2>1, <2>2, LeavesNoFact, TurnedAway, OnItsWay
<1>2. ASSUME NEW here \in {"allow", "check"}, NEW next \in {"check", "acquire"},
             Meter(r, here, next)
      PROVE  Booked(log[r], pc[r], outcome[r], trail[r], faults[r])'
  <2>1. /\ pc[r] \in Early /\ UNCHANGED <<trail, faults>>
        /\ \/ Goto(r, next) /\ UNCHANGED <<log, outcome>>
           \/ Record(r, FactOf("fail_open", 0)) /\ Goto(r, next) /\ UNCHANGED outcome
           \/ Record(r, Rejection("quota_exceeded")) /\ Return(r, "quota_exceeded")
    BY <1>2 DEF Meter, Early, Waiting
  <2>2. next \in Early /\ "quota_exceeded" \in RejectionCodes \ {"gateway_timeout"}
    BY DEF Early, Waiting, RejectionCodes
  <2>3. QED
    BY <2>1, <2>2, TurnedAway, OnItsWay
<1>3. CASE Acquire(r)
  <2>1. /\ pc[r] \in Early /\ UNCHANGED <<trail, faults>>
        /\ \/ Goto(r, "plan") /\ UNCHANGED <<log, outcome>>
           \/ Record(r, Rejection("concurrency_ceiling")) /\ Return(r, "concurrency_ceiling")
    BY <1>3 DEF Acquire, Early, Waiting
  <2>2. "plan" \in Early /\ "concurrency_ceiling" \in RejectionCodes \ {"gateway_timeout"}
    BY DEF Early, RejectionCodes
  <2>3. QED
    BY <2>1, <2>2, TurnedAway, OnItsWay
<1>4. CASE StartPlan(r)
  <2>1. pc[r] = "plan" /\ pc[r] \in Early /\ UNCHANGED faults
    BY <1>4 DEF StartPlan, Early
  <2>2. CASE Record(r, Rejection("model_unavailable")) /\ Return(r, "model_unavailable")
             /\ UNCHANGED trail
    BY <2>1, <2>2, TurnedAway DEF RejectionCodes
  <2>3. CASE /\ NextTry(r) # 0
             /\ trail' = [trail EXCEPT ![r] = Append(@, Plan(r).eligible[NextTry(r)])]
             /\ Goto(r, "attempt")
             /\ UNCHANGED <<log, outcome>>
    <3>1. Plan(r).eligible[NextTry(r)] \in Route
      BY <2>3, NextTryIsFresh DEF IInv
    <3>2. QED
      BY <2>1, <2>3, <3>1, NextAttempt
  <2>4. QED
    BY <1>4, <2>2, <2>3 DEF StartPlan
<1>5. CASE AttemptEnds(r)
  BY <1>5, CompletionBooked, FailedBooked, SetAsideBooked DEF AttemptEnds
<1>5a. CASE FailOver(r)
  <2>1. Plan(r).eligible[NextTry(r)] \in Route
    BY <1>5a, NextTryIsFresh DEF FailOver, IInv
  <2>2. QED
    BY <1>5a, <2>1, NextAttempt DEF FailOver
<1>6. CASE GiveUp(r) \/ Settle(r)
  BY <1>6, GivesUpBooked, SettlementBooked
<1>7. CASE Panic(r)
  BY <1>7, LeavesNoFact DEF Panic
<1>8. CASE HangUp(r) \/ DeadlinePasses(r)
  BY <1>8 DEF HangUp, DeadlinePasses, Books
<1>9. QED
  BY <1>1, <1>2, <1>3, <1>4, <1>5, <1>5a, <1>6, <1>7, <1>8 DEF Step, Allow, Check

LEMMA BooksPreserved == IInv /\ Books /\ [Next]_vars => Books'
<1> SUFFICES ASSUME IInv, Books, [Next]_vars, NEW q \in Requests
             PROVE  Booked(log[q], pc[q], outcome[q], trail[q], faults[q])'
  BY DEF Books
<1>1. CASE UNCHANGED vars
  BY <1>1 DEF vars, reqVars, Books
<1>2. ASSUME NEW r \in Requests,
             Arrive(r) \/ Step(r) \/ Panic(r) \/ HangUp(r) \/ DeadlinePasses(r)
      PROVE  Booked(log[q], pc[q], outcome[q], trail[q], faults[q])'
  <2>1. CASE q = r
    BY <1>2, <2>1, BooksStep
  <2>2. CASE q # r
    BY <1>2, <2>2, OthersUnbooked DEF Books
  <2>3. QED
    BY <2>1, <2>2
<1>3. QED
  BY <1>1, <1>2 DEF Next

\* The books hold throughout.
THEOREM GatewayBooks == Spec => []Books
<1>1. QED
  BY BooksInit, BooksPreserved, GatewayInvariant, PTL DEF Spec

\* One final fact for every request of a known app, the one its outcome calls
\* for, whatever interrupts it.
THEOREM GatewayRecordedOnce == Spec => []RecordedOnce
<1>1. Books => RecordedOnce
  <2> SUFFICES ASSUME Books, NEW r \in Requests
               PROVE  /\ pc[r] \in Waiting \cup {"plan", "attempt", "next"}
                           => FinalEntries(r) = {}
                      /\ pc[r] = "done" =>
                           IF outcome[r] = "unauthorized" THEN FinalEntries(r) = {}
                           ELSE /\ Cardinality(FinalEntries(r)) <= 1
                                /\ outcome[r] # "panicked" => FinalEntries(r) # {}
                                /\ \A i \in FinalEntries(r) :
                                     /\ log[r][i].fact = FinalFactOf(outcome[r])
                                     /\ log[r][i].fact = "rejection"
                                          => log[r][i].code = outcome[r]
    BY DEF RecordedOnce
  <2>1. FinalsRight(log[r], pc[r], outcome[r]) /\ FinalEntries(r) = Finals(log[r])
    BY DEF Books, Booked, FinalEntries, Finals, FinalFacts
  <2>2. CASE pc[r] = "done" /\ FinalEntries(r) = {}
    <3>1. outcome[r] \in {"unauthorized", "panicked"}
      BY <2>1, <2>2 DEF FinalsRight
    <3>2. Cardinality(FinalEntries(r)) = 0
      BY <2>2, FS_EmptySet
    <3>3. QED
      BY <2>2, <3>1, <3>2 DEF Waiting
  <2>3. CASE pc[r] = "done" /\ FinalEntries(r) # {}
    <3>1. /\ outcome[r] # "unauthorized"
          /\ \E i \in DOMAIN log[r] :
               /\ FinalEntries(r) = {i}
               /\ log[r][i].fact = FinalFactOf(outcome[r])
               /\ log[r][i].fact = "rejection" => log[r][i].code = outcome[r]
      BY <2>1, <2>3 DEF FinalsRight
    <3>2. Cardinality(FinalEntries(r)) = 1
      BY <3>1, FS_Singleton
    <3>3. QED
      BY <2>3, <3>1, <3>2 DEF Waiting
  <2>4. CASE pc[r] # "done"
    BY <2>1, <2>4 DEF FinalsRight, Early
  <2>5. QED
    BY <2>2, <2>3, <2>4
<1>2. QED
  BY <1>1, GatewayBooks, PTL

\* Unobserved spend is priced once per attempt and, but for the attempt a 504
\* ended, never missed.
THEOREM GatewaySpendPricedOnce == Spec => []SpendPricedOnce
<1>1. ASSUME Books, NEW r \in Requests
      PROVE  /\ \A n \in 1..maxAttempts : Cardinality(Pricings(r, n)) <= 1
             /\ \A i \in DOMAIN log[r] :
                  log[r][i].fact = "completion" => Pricings(r, log[r][i].attempt) = {}
             /\ \A n \in MayBeBilled(r) :
                  (outcome[r] = "gateway_timeout" => n < Len(faults[r])) => Pricings(r, n) # {}
  <2>1. PricesRight(log[r], pc[r], outcome[r], trail[r], faults[r])
    BY <1>1 DEF Books, Booked
  <2>2. ASSUME NEW n \in 1..maxAttempts PROVE Cardinality(Pricings(r, n)) <= 1
    <3>1. CASE Pricings(r, n) = {}
      BY <3>1, FS_EmptySet
    <3>2. CASE Pricings(r, n) # {}
      <4>1. PICK i : i \in Pricings(r, n)
        BY <3>2
      <4>2. Pricings(r, n) = {i}
        BY <2>1, <4>1 DEF Pricings, PricesRight, PricingFacts
      <4>3. QED
        BY <4>2, FS_Singleton
    <3>3. QED
      BY <3>1, <3>2
  <2>3. \A i \in DOMAIN log[r] :
          log[r][i].fact = "completion" => Pricings(r, log[r][i].attempt) = {}
    BY <2>1 DEF Pricings, PricesRight, PricingFacts
  <2>4. \A n \in MayBeBilled(r) :
          (outcome[r] = "gateway_timeout" => n < Len(faults[r])) => Pricings(r, n) # {}
    BY <2>1 DEF Pricings, PricesRight, PricingFacts, MayBeBilled
  <2>5. QED
    BY <2>2, <2>3, <2>4
<1>2. Books => SpendPricedOnce
  BY <1>1 DEF SpendPricedOnce
<1>3. QED
  BY <1>2, GatewayBooks, PTL

-----------------------------------------------------------------------------
\* What ends in the two verdicts on the plan: the plan found empty, or the last
\* attempt failing with nothing left to try.
LEMMA VerdictsComeFrom ==
  ASSUME IInv, Books, NEW r \in Requests,
         Arrive(r) \/ Step(r) \/ Panic(r) \/ HangUp(r) \/ DeadlinePasses(r),
         outcome'[r] \in {"upstream_failed", "model_unavailable"}
  PROVE  /\ NextTry(r) = 0
         /\ UNCHANGED <<trail, requested, caller>>
         /\ \/ pc[r] = "plan" /\ outcome'[r] = "model_unavailable"
            \/ pc[r] = "next" /\ outcome'[r] = GiveUpCode(r)
<1>1. outcome[r] = "none" /\ outcome \in [Requests -> Outcomes]
  <2>1. pc[r] # "done"
    BY DEF Arrive, Step, Allow, Check, Meter, Acquire, StartPlan, AttemptEnds, Complete,
       CallerGone, DeadlineExhausted, SetAside, AttemptFails, FailOver, GiveUp, Settle, Panic,
       HangUp, DeadlinePasses, Waiting, Admitted
  <2> QED
    BY <2>1 DEF Books, Booked, PricesRight, IInv, ReqTypeOK
<1>2. \A out : Return(r, out) => outcome'[r] = out
  BY <1>1 DEF Return
<1>3. CASE Arrive(r) \/ Allow(r) \/ Check(r) \/ Acquire(r)
  <2>1. \/ \E out \in {"unauthorized", "invalid_request", "quota_exceeded", "concurrency_ceiling"} :
              Return(r, out)
        \/ outcome' = outcome
    BY <1>3 DEF Arrive, Allow, Check, Meter, Acquire
  <2> QED
    BY <1>1, <1>2, <2>1
<1>4. CASE StartPlan(r)
  BY <1>1, <1>2, <1>4 DEF StartPlan
<1>5. CASE Complete(r) \/ FailOver(r) \/ HangUp(r) \/ DeadlinePasses(r)
  <2>1. outcome' = outcome
    BY <1>5 DEF Complete, FailOver, HangUp, DeadlinePasses
  <2> QED
    BY <1>1, <2>1
<1>6. CASE Settle(r) \/ Panic(r)
  <2>1. \E out \in {"served", "panicked"} : Return(r, out)
    BY <1>6 DEF Settle, Panic
  <2> QED
    BY <1>2, <2>1
<1>7. ASSUME NEW kind \in Faults,
             CallerGone(r, kind) \/ DeadlineExhausted(r, kind) \/ SetAside(r, kind)
      PROVE  FALSE
  <2>1. \/ \E out \in {"disconnected", "gateway_timeout"} : Return(r, out)
        \/ outcome' = outcome
    BY <1>7 DEF CallerGone, DeadlineExhausted, SetAside
  <2> QED
    BY <1>1, <1>2, <2>1
<1>8. CASE GiveUp(r)
  BY <1>2, <1>8 DEF GiveUp
<1> QED
  BY <1>3, <1>4, <1>5, <1>6, <1>7, <1>8 DEF Step, AttemptEnds

\* The verdict on one request, of its own values: a step of another request
\* cannot disturb it, and once given nothing in it moves.
Explained(out, t, m, policy) ==
  LET tried == {t[i].provider : i \in DOMAIN t}
  IN  /\ out = "upstream_failed" =>
           Len(t) = maxAttempts \/ \A x \in ToSet(Table) : x.provider \in tried
      /\ out = "model_unavailable" =>
           /\ Len(t) < maxAttempts
           /\ \/ m \notin ModelsOf(Table)
              \/ \E x \in ToSet(Table) : ~Permits(policy, m, x.model)

Explanations ==
  \A r \in Requests : Explained(outcome[r], trail[r], requested[r], PolicyOf[caller[r]])

LEMMA VerdictExplained ==
  ASSUME IInv, Books, NEW r \in Requests, NextTry(r) = 0, NEW out,
         \/ pc[r] = "plan" /\ out = "model_unavailable"
         \/ pc[r] = "next" /\ out = GiveUpCode(r)
  PROVE  Explained(out, trail[r], requested[r], PolicyOf[caller[r]])
<1> DEFINE policy == PolicyOf[caller[r]]
           m == requested[r]
           e == Plan(r).eligible
           tried == {trail[r][i].provider : i \in DOMAIN trail[r]}
<1>1. PlanIsExact(Plan(r), m, policy, Table)
  BY PlansAreExact DEF IInv
<1>2. Len(trail[r]) \in Nat /\ Len(trail[r]) <= maxAttempts
  BY DEF IInv, AttemptsBounded, ReqTypeOK
<1> DEFINE l == Len(trail[r])
<1>2a. l \in Nat /\ l <= 2 /\ maxAttempts = 2
  BY <1>2 DEF maxAttempts
<1> HIDE DEF l
<1>2b. ~(l < maxAttempts) => l = maxAttempts
  BY <1>2a
<1>2c. l < maxAttempts => l # maxAttempts
  BY <1>2a
<1>3. Len(trail[r]) # maxAttempts => \A x \in ToSet(e) : x.provider \in tried
  BY NoTryIsLeft DEF Tried
<1>4. m \in ModelsOf(Table) => \E x \in ToSet(Table) : x.model = m
  BY DEF ModelsOf, ToSet
<1>5. CASE pc[r] = "plan" /\ out = "model_unavailable"
  <2>1. trail[r] = <<>> /\ Len(trail[r]) < maxAttempts
    BY <1>5 DEF Books, Booked, AttemptsCounted, Early, maxAttempts
  <2>2. tried = {}
    BY <2>1
  <2>3. ToSet(e) = {}
    BY <1>3, <2>1, <2>2
  <2>4. m \notin ModelsOf(Table)
    BY <1>1, <1>4, <2>3 DEF PlanIsExact, Permits
  <2> QED
    BY <1>5, <2>1, <2>4 DEF Explained
<1>6. CASE pc[r] = "next" /\ out = GiveUpCode(r)
  <2>1. CASE Len(trail[r]) < maxAttempts /\ Plan(r).constrained
    <3>1. out = "model_unavailable"
      BY <1>6, <2>1 DEF GiveUpCode
    <3>2. m \notin ModelsOf(Table) \/ \E x \in ToSet(Table) : ~Permits(policy, m, x.model)
      BY <1>1, <2>1 DEF PlanIsExact
    <3> QED
      BY <2>1, <3>1, <3>2 DEF Explained
  <2>2. CASE Len(trail[r]) < maxAttempts /\ ~Plan(r).constrained
    <3>1. out = "upstream_failed"
      BY <1>6, <2>2 DEF GiveUpCode
    <3>2. \A x \in ToSet(Table) : x \in ToSet(e)
      <4>1. CASE m \in ModelsOf(Table)
        BY <1>1, <2>2, <4>1 DEF PlanIsExact
      <4>2. CASE m \notin ModelsOf(Table)
        BY <1>1, <2>2, <4>2, GatewayAssumption, EmptyHasNoElement DEF PlanIsExact
      <4> QED
        BY <4>1, <4>2
    <3>3. \A x \in ToSet(Table) : x.provider \in tried
      BY <1>3, <1>2c, <2>2, <3>2 DEF l
    <3> QED
      BY <3>1, <3>3 DEF Explained
  <2>3. CASE ~(Len(trail[r]) < maxAttempts)
    <3>1. out = "upstream_failed"
      BY <1>6, <2>3 DEF GiveUpCode
    <3>2. Len(trail[r]) = maxAttempts
      BY <1>2b, <2>3 DEF l
    <3> QED
      BY <3>1, <3>2 DEF Explained
  <2> QED
    BY <2>1, <2>2, <2>3
<1> QED
  BY <1>5, <1>6

LEMMA ExplanationsInit == Init => Explanations
  BY DEF Init, Explanations, Explained

\* A request that moves had no verdict yet; the others keep theirs.
LEMMA ExplanationsPreserved == IInv /\ Books /\ Explanations /\ [Next]_vars => Explanations'
<1> SUFFICES ASSUME IInv, Books, Explanations, [Next]_vars, NEW q \in Requests
             PROVE  Explained(outcome[q], trail[q], requested[q], PolicyOf[caller[q]])'
  BY DEF Explanations
<1>1. Explained(outcome[q], trail[q], requested[q], PolicyOf[caller[q]])
  BY DEF Explanations
<1>2. CASE UNCHANGED vars
  BY <1>1, <1>2 DEF vars, reqVars
<1>3. ASSUME NEW r \in Requests,
             Arrive(r) \/ Step(r) \/ Panic(r) \/ HangUp(r) \/ DeadlinePasses(r)
      PROVE  Explained(outcome[q], trail[q], requested[q], PolicyOf[caller[q]])'
  <2>1. UNCHANGED <<requested, caller>>
    BY <1>3 DEF Arrive, Step, Allow, Check, Meter, Acquire, StartPlan, AttemptEnds, Complete,
       CallerGone, DeadlineExhausted, SetAside, AttemptFails, FailOver, GiveUp, Settle, Panic,
       HangUp, DeadlinePasses
  <2>2. CASE q # r
    <3>1. UNCHANGED <<outcome[q], trail[q]>>
      BY <1>3, <2>2, OthersUnbooked
    <3> QED
      BY <1>1, <2>1, <3>1
  <2>3. CASE q = r /\ outcome'[r] \in {"upstream_failed", "model_unavailable"}
    <3>1. /\ NextTry(r) = 0 /\ trail' = trail
          /\ \/ pc[r] = "plan" /\ outcome'[r] = "model_unavailable"
             \/ pc[r] = "next" /\ outcome'[r] = GiveUpCode(r)
      BY <1>3, <2>3, VerdictsComeFrom
    <3>2. Explained(outcome'[r], trail[r], requested[r], PolicyOf[caller[r]])
      BY <3>1, VerdictExplained
    <3> QED
      BY <2>1, <2>3, <3>1, <3>2
  <2>4. CASE q = r /\ outcome'[r] \notin {"upstream_failed", "model_unavailable"}
    BY <2>4 DEF Explained
  <2> QED
    BY <2>2, <2>3, <2>4
<1> QED
  BY <1>2, <1>3 DEF Next

\* A 502 means that no provider of the table was left untried, or that both
\* attempts were spent; a 503 that the policy, or the table, left one out.
THEOREM GatewayGiveUpIsExplained == Spec => []GiveUpIsExplained
<1>1. ASSUME Explanations PROVE GiveUpIsExplained
  <2> SUFFICES ASSUME NEW r \in Requests
               PROVE  /\ outcome[r] = "upstream_failed" =>
                           Len(trail[r]) = maxAttempts
                             \/ \A i \in DOMAIN Table : Table[i].provider \in Tried(r)
                      /\ outcome[r] = "model_unavailable" =>
                           /\ Len(trail[r]) < maxAttempts
                           /\ \/ \A i \in DOMAIN Table : Table[i].model # requested[r]
                              \/ \E i \in DOMAIN Table : ~PolicyPermits(r, Table[i].model)
    BY DEF GiveUpIsExplained
  <2>1. Explained(outcome[r], trail[r], requested[r], PolicyOf[caller[r]])
    BY <1>1 DEF Explanations
  <2>2. \A model : Permits(PolicyOf[caller[r]], requested[r], model) <=> PolicyPermits(r, model)
    BY DEF Permits, PolicyPermits
  <2>3. \A i \in DOMAIN Table : Table[i] \in ToSet(Table) /\ Table[i].model \in ModelsOf(Table)
    BY DEF ToSet, ModelsOf
  <2>4. \A x \in ToSet(Table) : \E i \in DOMAIN Table : x = Table[i]
    BY DEF ToSet
  <2> QED
    BY <2>1, <2>2, <2>3, <2>4 DEF Explained, Tried
<1>2. Explanations => GiveUpIsExplained
  BY <1>1
<1> QED
  BY <1>2, ExplanationsInit, ExplanationsPreserved, GatewayInvariant, GatewayBooks, PTL DEF Spec
=============================================================================
