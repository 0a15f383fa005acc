------------------------------ MODULE LoadCall ------------------------------
(***************************************************************************)
(* One load of the configuration file, as main makes it once per boot, and *)
(* what an operator may expect of its answer: a definition that gathers    *)
(* every mistake the file holds, where the code stops at the first.        *)
(***************************************************************************)
EXTENDS Configuration

CONSTANT Files   \* what the file may say

\* What the YAML decoder makes of any file: entries and keys of these types.
IsFile(f) ==
  /\ f.routes \in Seq([model : Models, provider : Providers, complete : BOOLEAN])
  /\ f.auth.interval \in Int
  /\ f.server.globalMaxInFlight \in Int
  /\ DOMAIN f.apps \subseteq ToSet(AppOrder)
  /\ \A n \in DOMAIN f.apps : f.apps[n].maxInFlight \in Int
  /\ DOMAIN f.secrets.providers \subseteq Providers
  /\ f.secrets.interval \in Int
  /\ \A p \in DOMAIN f.secrets.providers : f.secrets.providers[p].interval \in Int

ASSUME LoadAssumption == \A f \in Files : IsFile(f)

VARIABLES file,   \* the file
          answer  \* what Load returned

loadVars == <<file, answer>>

NoAnswer == [done |-> FALSE, result |-> <<>>]

LoadInit ==
  /\ file \in Files
  /\ answer = NoAnswer

LoadFile ==
  /\ ~answer.done
  /\ answer' = [done |-> TRUE, result |-> wireToDomain(file)]
  /\ UNCHANGED file

LoadSpec == LoadInit /\ [][LoadFile]_loadVars

-----------------------------------------------------------------------------
\* Every mistake a file contains, and the place each is read at: the sections
\* in the order of the file's own checks, the names within one in name order.
Flaw(section, position, what, of) ==
  [section |-> section, position |-> position, error |-> Mistake(what, of)]

If(condition, flaws) == IF condition THEN flaws ELSE {}

PlaceIn(order, x) == CHOOSE i \in DOMAIN order : order[i] = x

AppFlaws(f, n) ==
  LET a == f.apps[n]
      one(what) == {Flaw(6, PlaceIn(AppOrder, n), what, n)}
  IN  If(a.subject = "", one("subject"))
      \cup If(\E m \in DOMAIN f.apps :
                PlaceIn(AppOrder, m) < PlaceIn(AppOrder, n) /\ f.apps[m].subject = a.subject,
              one("subject taken"))
      \cup If(f.server.globalMaxInFlight \in 1..(a.maxInFlight - 1), one("max_in_flight"))
      \cup If(a.policy.form = "allowlist" /\ ~ToSet(a.policy.list) \subseteq RoutedModels(f),
              one("allowlist"))

ProviderFlaws(f, p) ==
  LET s == f.secrets.providers[p]
      one(what) == {Flaw(5, PlaceIn(NameOrder, p), what, p)}
  IN  If(~s.path, one("path"))
      \cup If(p \notin RoutedProviders(f), one("not routed"))
      \cup If(s.interval < 0, one("interval"))

SourceFlaws(f) ==
  LET s == f.secrets
      one(what) == {Flaw(4, 0, what, "secret_source")}
  IN  If(s.kind \notin {"", "file", "vault"}, one("kind"))
      \cup If(s.kind = "" /\ DOMAIN s.providers # {}, one("kind required"))
      \cup If(s.interval < 0, one("interval"))
      \cup If(s.kind = "vault" /\ ~{"address", "role"} \subseteq s.vault, one("vault"))
      \cup If(s.kind # "vault" /\ s.vault # {}, one("vault unused"))

RouteFlaws(f) ==
  {Flaw(3, i, "routes", i) : i \in {j \in DOMAIN f.routes : ~f.routes[j].complete}}

Flaws(f) ==
  If(~Decodes(f), {Flaw(1, 0, "decode", "file")})
  \cup If(f.auth.interval < 0, {Flaw(2, 0, "interval", "auth")})
  \cup RouteFlaws(f)
  \cup SourceFlaws(f)
  \cup (UNION {ProviderFlaws(f, p) : p \in DOMAIN f.secrets.providers})
  \cup (UNION {AppFlaws(f, n) : n \in DOMAIN f.apps})

NotAfter(a, b) ==
  \/ a.section < b.section
  \/ a.section = b.section /\ a.position <= b.position

\* Every application is found by its own subject, on its own terms.
AppsAreTheirOwn(f, config) ==
  /\ DOMAIN config.limits = DOMAIN f.apps
  /\ \A n \in DOMAIN f.apps :
       /\ config.limits[n] = f.apps[n].maxInFlight
       /\ config.apps[f.apps[n].subject] = [name |-> n, policy |-> policyToDomain(f.apps[n].policy)]

\* Every refresh loop has a period, and every credential a reader and a user.
LoopsAreFed(config) ==
  /\ config.keys > 0
  /\ \A p \in DOMAIN config.secrets.providers :
       /\ config.secrets.providers[p] > 0
       /\ p \in {config.routes[i].provider : i \in DOMAIN config.routes}
  /\ WiringMistake(config).of # "providerkeys"

\* Load accepts a file exactly when it holds no mistake; refused, the mistake it
\* names is one of the earliest entry at fault, so the same file fails the same
\* way at every boot; accepted, every application answers to its own subject and
\* every loop has something to read (config.go:266-305, 351-410).
LoadMatchesReference ==
  answer.done =>
    \/ /\ Flaws(file) = {} /\ answer.result.ok
       /\ AppsAreTheirOwn(file, answer.result)
       /\ LoopsAreFed(answer.result)
    \/ /\ ~answer.result.ok
       /\ \E f \in Flaws(file) :
            /\ f.error = answer.result.error
            /\ \A g \in Flaws(file) : NotAfter(f, g)
=============================================================================
