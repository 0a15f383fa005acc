------------------------------ MODULE PlanCall ------------------------------
(***************************************************************************)
(* One call of buildModelsProvidersFallback, as the core makes it once per *)
(* request, and what its caller may expect of the plan: a definition that  *)
(* looks at the whole routing table at once, where the code goes through   *)
(* it branch by branch.                                                    *)
(***************************************************************************)
EXTENDS FallbackPlan

CONSTANTS MaxRoutes,    \* longest routing table
          MaxNames      \* longest allowlist and failover order

ASSUME PlanCallAssumption == MaxRoutes \in Nat /\ MaxNames \in Nat

VARIABLES call,   \* the arguments
          built   \* what was returned

planVars == <<call, built>>

NotYet == [done |-> FALSE, result |-> <<>>]

ModelsOf(table) == {table[i].model : i \in DOMAIN table}

\* What the loader lets through: an allowlist that is not empty and names
\* routed models only.
Allowlists(table) == {AllowlistOf(ms) : ms \in BoundedSeq(ModelsOf(table), MaxNames) \ {<<>>}}

PlanInit ==
  /\ \E table \in BoundedSeq(Route, MaxRoutes), order \in BoundedSeq(Providers, MaxNames),
        asked \in Models :
       \E policy \in {SameModel, AnyModel} \cup Allowlists(table) :
         call = [table |-> table, order |-> order, policy |-> policy, asked |-> asked]
  /\ built = NotYet

Build ==
  /\ ~built.done
  /\ built' = [done   |-> TRUE,
               result |-> buildModelsProvidersFallback(call.asked, call.policy, call.table, call.order)]
  /\ UNCHANGED call

PlanSpec == PlanInit /\ [][Build]_planVars

-----------------------------------------------------------------------------
\* The models an app may be served: the one asked for, and the substitutes its
\* policy names.
Permits(policy, asked, model) ==
  \/ model = asked
  \/ policy.kind = "any"
  \/ policy.kind = "allowlist" /\ model \in ToSet(policy.allowlist)

\* The table entries a call may plan: none, if the model asked for has no route.
Permitted(c) ==
  {i \in DOMAIN c.table :
     c.asked \in ModelsOf(c.table) /\ Permits(c.policy, c.asked, c.table[i].model)}

\* Where x first stands in s, or 0.
PlaceOf(s, x) == SelectInSeq(s, LAMBDA y : y = x)

\* How far an entry is from what was asked: the model itself, then by the
\* failover order, the providers it leaves out last, or by the app's own order.
Preference(c, i) ==
  LET place == PlaceOf(c.order, c.table[i].provider)
  IN  CASE c.table[i].model = c.asked -> 0
        [] c.table[i].model # c.asked /\ c.policy.kind = "any" ->
             IF place = 0 THEN Len(c.order) + 1 ELSE place
        [] OTHER -> PlaceOf(c.policy.allowlist, c.table[i].model)

Before(c, i, j) ==
  \/ Preference(c, i) < Preference(c, j)
  \/ Preference(c, i) = Preference(c, j) /\ i < j

\* The plan holds exactly the routes the policy permits, each once, the
\* requested model's first and the others by preference, ties in table order
\* (fallback_logic_build.go:9-19); stated for a failover order without
\* repetitions.
PlanMatchesReference ==
  built.done /\ IsInjective(call.order) =>
    \E ranked \in [1..Cardinality(Permitted(call)) -> Permitted(call)] :
      /\ \A m, n \in DOMAIN ranked : m < n => Before(call, ranked[m], ranked[n])
      /\ built.result.eligible = [n \in DOMAIN ranked |-> call.table[ranked[n]]]

\* constrained says exactly that the policy left out a route that exists, the
\* signal that separates a 503 from a 502 (fallback_logic_build.go:21-24).
ConstrainedIsExact ==
  built.done => (built.result.constrained <=> Permitted(call) # DOMAIN call.table)
=============================================================================
