----------------------------- MODULE FallbackPlan -----------------------------
(***************************************************************************)
(* internal/gateway/fallback_logic_build.go: the ordered model providers   *)
(* one request may use, from the routing table, the gateway's failover     *)
(* order and the app's policy.  A route is a model served by a provider;   *)
(* its endpoint plays no part in the plan.                                 *)
(***************************************************************************)
EXTENDS Naturals, FiniteSets, Subsequences

CONSTANTS Models, Providers

Route == [model : Models, provider : Providers]

\* FailoverPolicy; the allowlist is read under one kind only.
Policy == [kind : {"same-model", "any", "allowlist"}, allowlist : Seq(Models)]

SameModel       == [kind |-> "same-model", allowlist |-> <<>>]
AnyModel        == [kind |-> "any", allowlist |-> <<>>]
AllowlistOf(ms) == [kind |-> "allowlist", allowlist |-> ms]

OfModel(routes, m) == SubseqAt(routes, {i \in DOMAIN routes : routes[i].model = m})

Primary(asked, table) == OfModel(table, asked)
Rest(asked, table)    == SubseqAt(table, {i \in DOMAIN table : table[i].model # asked})

-----------------------------------------------------------------------------
\* The rank map: a provider named twice keeps the last index written.
RankMap(order) ==
  [p \in ToSet(order) |-> SelectLastInSeq(order, LAMBDA q : q = p)]

providerRank(rank, p) ==
  IF p \in DOMAIN rank THEN rank[p] ELSE Cardinality(DOMAIN rank) + 1

\* sort.SliceStable: equal ranks keep their table order.
SortByRank(routes, order) ==
  LET rank == RankMap(order)
      At(k) == SubseqAt(routes, {i \in DOMAIN routes : providerRank(rank, routes[i].provider) = k})
  IN  FlattenSeq([k \in 1..(Len(order) + 1) |-> At(k)])

\* The substitutes an allowlist adds, in the app's preference order: the
\* model asked for and repeated names add nothing.
SubstitutesMutKeepsRepeats(asked, allowlist, rest) ==
  FlattenSeq([i \in DOMAIN allowlist |-> OfModel(rest, allowlist[i])])

Substitutes(asked, allowlist, rest) ==
  FlattenSeq([i \in DOMAIN allowlist |->
    IF allowlist[i] = asked \/ \E j \in 1..(i - 1) : allowlist[j] = allowlist[i]
    THEN <<>>
    ELSE OfModel(rest, allowlist[i])])

ExcludedByMutCountsPlan(asked, allowlist, rest) ==
  Len(Substitutes(asked, allowlist, rest)) = 0

\* Some route exists that the allowlist leaves out.
ExcludedBy(asked, allowlist, rest) ==
  \E i \in DOMAIN rest : rest[i].model \notin (ToSet(allowlist) \ {asked})

buildModelsProvidersFallback(asked, policy, table, order) ==
  LET primary == Primary(asked, table)
      rest    == Rest(asked, table)
  IN  CASE primary = <<>> ->
             [eligible |-> <<>>, constrained |-> Len(table) > 0]
        [] primary # <<>> /\ policy.kind = "any" ->
             [eligible |-> primary \o SortByRank(rest, order), constrained |-> FALSE]
        [] primary # <<>> /\ policy.kind = "allowlist" ->
             [eligible    |-> primary \o Substitutes(asked, policy.allowlist, rest),
              constrained |-> ExcludedBy(asked, policy.allowlist, rest)]
        [] OTHER ->
             [eligible |-> primary, constrained |-> Len(rest) > 0]
=============================================================================
