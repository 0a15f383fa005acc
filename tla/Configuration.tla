---------------------------- MODULE Configuration ----------------------------
(***************************************************************************)
(* internal/config/config.go: the configuration file read, checked and     *)
(* turned into what the layers are built from, then the constructors of    *)
(* the boot that refuse what Load let through.  An interval or deadline    *)
(* that is not set is 0, a subject or a kind is "".                        *)
(***************************************************************************)
EXTENDS FallbackPlan, Integers

\* The order sort.Strings gives the names of providers and applications.
CONSTANTS NameOrder, AppOrder

ASSUME NameOrderAssumption ==
  /\ NameOrder \in Seq(Providers) /\ ToSet(NameOrder) = Providers /\ IsInjective(NameOrder)
  /\ AppOrder \in Seq(ToSet(AppOrder)) /\ IsInjective(AppOrder)

defaultRefreshInterval == 5
defaultVaultAuthPath   == "auth_path"

NoError       == [what |-> "none", of |-> "file"]
Mistake(w, o) == [what |-> w, of |-> o]
IsError(m)    == m.what # "none"

Check(fails, w, o) == IF fails THEN Mistake(w, o) ELSE NoError

\* A chain of early returns: the first check that fails is the one reported.
FirstOf(checks) ==
  LET i == SelectInSeq(checks, IsError)
  IN  IF i = 0 THEN NoError ELSE checks[i]

\* The keys of a map, sorted: its iteration is random.
Sorted(order, names) == SubseqAt(order, {i \in DOMAIN order : order[i] \in names})

Put(map, k, v) == [x \in DOMAIN map \cup {k} |-> IF x = k THEN v ELSE map[x]]

-----------------------------------------------------------------------------
\* failover_policy in the file: absent, a scalar word, a mapping with the one
\* key allowlist, or any other shape.
PolicyDecodes(p) ==
  \/ p.form = "absent"
  \/ p.form = "scalar" /\ p.word \in {"any", "same-model"}
  \/ p.form = "allowlist" /\ p.list # <<>>

policyToDomain(p) ==
  CASE p.form = "allowlist" -> AllowlistOf(p.list)
    [] p.form = "scalar" /\ p.word = "any" -> AnyModel
    [] OTHER -> SameModel

\* Decode is strict: a key no field has, or a value of the wrong shape.
Decodes(file) ==
  /\ file.knownFields
  /\ \A n \in DOMAIN file.apps : PolicyDecodes(file.apps[n].policy)

Interval(declared, otherwise) == IF declared = 0 THEN otherwise ELSE declared

RoutedModels(file)    == {file.routes[i].model : i \in DOMAIN file.routes}
RoutedProviders(file) == {file.routes[i].provider : i \in DOMAIN file.routes}

-----------------------------------------------------------------------------
\* secret_source: a block that nothing would read is refused too.
SourceMistake(src) ==
  FirstOf(<<
    Check(src.kind \notin {"", "file", "vault"}, "kind", "secret_source"),
    Check(src.kind = "" /\ DOMAIN src.providers # {}, "kind required", "secret_source"),
    Check(src.interval < 0, "interval", "secret_source"),
    Check(src.kind = "vault" /\ ~{"address", "role"} \subseteq src.vault, "vault", "secret_source"),
    Check(src.kind # "vault" /\ src.vault # {}, "vault unused", "secret_source")>>)

ProviderMistake(src, routed, p) ==
  FirstOf(<<
    Check(~src.providers[p].path, "path", p),
    Check(p \notin routed, "not routed", p),
    Check(src.providers[p].interval < 0, "interval", p)>>)

secretSource(src, routed) ==
  LET names == Sorted(NameOrder, DOMAIN src.providers)
      block == Interval(src.interval, defaultRefreshInterval)
      each  == [i \in DOMAIN names |-> ProviderMistake(src, routed, names[i])]
  IN  [error  |-> FirstOf(<<SourceMistake(src), FirstOf(each)>>),
       domain |-> [kind      |-> src.kind,
                   vault     |-> IF src.kind = "vault"
                                 THEN src.vault \cup {defaultVaultAuthPath} ELSE src.vault,
                   providers |-> [p \in DOMAIN src.providers |->
                                    Interval(src.providers[p].interval, block)]]]

-----------------------------------------------------------------------------
AppMistake(file, subjects, name) ==
  LET a == file.apps[name]
      policy == policyToDomain(a.policy)
  IN  FirstOf(<<
        Check(a.subject = "", "subject", name),
        Check(a.subject \in DOMAIN subjects, "subject taken", name),
        Check(file.server.globalMaxInFlight > 0
                /\ a.maxInFlight > file.server.globalMaxInFlight, "max_in_flight", name),
        Check(~ToSet(policy.allowlist) \subseteq RoutedModels(file), "allowlist", name)>>)

\* One turn of the loop over the sorted names; the first mistake ends it.
AddAppMutForgetsSubject(file, acc, name) ==
  LET a == file.apps[name]
      m == AppMistake(file, <<>>, name)
  IN  CASE IsError(acc.error) -> acc
        [] ~IsError(acc.error) /\ IsError(m) -> [error |-> m, apps |-> <<>>, limits |-> <<>>]
        [] OTHER ->
             [error  |-> NoError,
              apps   |-> Put(acc.apps, a.subject, [name |-> name, policy |-> policyToDomain(a.policy)]),
              limits |-> Put(acc.limits, name, a.maxInFlight)]

AddApp(file, acc, name) ==
  LET a == file.apps[name]
      m == AppMistake(file, acc.apps, name)
  IN  CASE IsError(acc.error) -> acc
        [] ~IsError(acc.error) /\ IsError(m) -> [error |-> m, apps |-> <<>>, limits |-> <<>>]
        [] OTHER ->
             [error  |-> NoError,
              apps   |-> Put(acc.apps, a.subject, [name |-> name, policy |-> policyToDomain(a.policy)]),
              limits |-> Put(acc.limits, name, a.maxInFlight)]

\* What the loop has built after each of its turns.
AppsAfter(file, names) ==
  LET after[n \in 0..Len(names)] ==
        IF n = 0 THEN [error |-> NoError, apps |-> <<>>, limits |-> <<>>]
        ELSE AddApp(file, after[n - 1], names[n])
  IN  after

Applications(file) ==
  LET names == Sorted(AppOrder, DOMAIN file.apps)
  IN  AppsAfter(file, names)[Len(names)]

\* The first entry of routes that lacks a field, or 0.
Incomplete(file) == SelectInSeq(file.routes, LAMBDA r : ~r.complete)

\* The first mistake in the order of the code, or the configuration.
wireToDomain(file) ==
  LET secrets == secretSource(file.secrets, RoutedProviders(file))
      apps    == Applications(file)
      mistake == FirstOf(<<
        Check(~Decodes(file), "decode", "file"),
        Check(file.auth.interval < 0, "interval", "auth"),
        Check(Incomplete(file) # 0, "routes", Incomplete(file)),
        secrets.error,
        apps.error>>)
  IN  IF IsError(mistake) THEN [ok |-> FALSE, error |-> mistake]
      ELSE [ok       |-> TRUE,
            keys     |-> Interval(file.auth.interval, defaultRefreshInterval),
            identity |-> file.auth.identity,
            routes   |-> [i \in DOMAIN file.routes |->
                            [model |-> file.routes[i].model, provider |-> file.routes[i].provider]],
            apps     |-> apps.apps,
            limits   |-> apps.limits,
            server   |-> file.server,
            secrets  |-> secrets.domain]

\* What auth.NewDirectory, providerkeys.New and gateway.New still refuse.
WiringMistake(config) ==
  FirstOf(<<
    Check(~config.identity, "issuer and audience", "auth"),
    Check(DOMAIN config.apps = {}, "no apps", "auth"),
    Check(config.secrets.kind = "" /\ DOMAIN config.secrets.providers # {}, "fetcher", "providerkeys"),
    Check(config.server.totalDeadline <= 0, "total_deadline", "gateway"),
    Check(config.server.perTryDeadline <= 0
            \/ config.server.perTryDeadline >= config.server.totalDeadline, "per_try_deadline", "gateway")>>)
=============================================================================
