----------------------------- MODULE MCPureCalls -----------------------------
(* What keeps no state between calls, for TLC: the plans of the core, the      *)
(* files of the loader and a caller's conversation, one of the three in each   *)
(* behaviour.                                                                  *)
EXTENDS PlanCall, LoadCall, Conversation

VARIABLE part   \* the one that is called

\* sort.Strings, whatever order the names have.
MCNameOrder == SetToSeq(Providers)
MCAppOrder  == <<"chat", "search">>

\* Files around one that is right: its applications, its secrets or its own
\* fields vary, over routes that may be missing or incomplete.
First  == MCNameOrder[1]
Second == MCNameOrder[2]
Chat   == MCAppOrder[1]
Model1 == CHOOSE m \in Models : TRUE
Model2 == CHOOSE m \in Models \ {Model1} : TRUE

FileRoute(m, p, c) == [model |-> m, provider |-> p, complete |-> c]

FileRoutes == {<<>>,
               <<FileRoute(Model1, First, TRUE)>>,
               <<FileRoute(Model1, First, TRUE), FileRoute(Model2, Second, TRUE)>>,
               <<FileRoute(Model1, First, TRUE), FileRoute(Model2, Second, FALSE)>>}

FilePolicy(form, word, list) == [form |-> form, word |-> word, list |-> list]

FilePolicies == {FilePolicy("absent", "", <<>>), FilePolicy("other", "", <<>>),
                 FilePolicy("scalar", "any", <<>>), FilePolicy("scalar", "typo", <<>>),
                 FilePolicy("allowlist", "", <<>>), FilePolicy("allowlist", "", <<Model2>>)}

FileApp == [subject : {"", "s1", "s2"}, maxInFlight : 1..2, policy : FilePolicies]

Over(names, S) == UNION {[D -> S] : D \in SUBSET names}

GoodServer == [globalMaxInFlight |-> 0, totalDeadline |-> 2, perTryDeadline |-> 1]
GoodAuth   == [interval |-> 0, identity |-> TRUE]
NoSecrets  == [kind |-> "", interval |-> 0, vault |-> {}, providers |-> <<>>]
OneApp     == Chat :> [subject |-> "s1", maxInFlight |-> 0, policy |-> FilePolicy("absent", "", <<>>)]

GoodFile(routes) ==
  [knownFields |-> TRUE, auth |-> GoodAuth, routes |-> routes, server |-> GoodServer,
   apps |-> OneApp, secrets |-> NoSecrets]

VaryApps ==
  {[GoodFile(routes) EXCEPT !.apps = a, !.server.globalMaxInFlight = g] :
     routes \in FileRoutes, a \in Over(ToSet(MCAppOrder), FileApp), g \in 0..1}

VarySecrets ==
  {[GoodFile(routes) EXCEPT !.secrets = [kind |-> k, interval |-> i, vault |-> v, providers |-> ps]] :
     routes \in FileRoutes, k \in {"", "file", "vault", "typo"}, i \in {-1, 0, 2},
     v \in {{}, {"address"}, {"address", "role"}, {"address", "role", "auth_path"}},
     ps \in Over({First, Second}, [path : BOOLEAN, interval : {-1, 0, 1}])}

VaryOwn ==
  {[GoodFile(routes) EXCEPT !.knownFields = f, !.auth = [interval |-> i, identity |-> d],
                            !.server.totalDeadline = t, !.server.perTryDeadline = p] :
     routes \in FileRoutes, f \in BOOLEAN, i \in {-1, 0, 1}, d \in BOOLEAN, t \in {-1, 0, 1, 2}, p \in 0..2}

MCFiles == VaryApps \cup VarySecrets \cup VaryOwn

-----------------------------------------------------------------------------
\* The others are given an input that they never answer.  Only the policy "any"
\* reads the failover order, so the other calls are made with an empty one.
IdlePlan ==
  /\ call = [table |-> <<>>, order |-> <<>>, policy |-> SameModel, asked |-> Model1]
  /\ built = NotYet

IdleLoad == file = GoodFile(<<>>) /\ answer = NoAnswer

MCInit ==
  \/ /\ part = "plan"
     /\ PlanInit /\ (call.policy.kind # "any" => call.order = <<>>)
     /\ IdleLoad /\ Init
  \/ part = "load" /\ LoadInit /\ IdlePlan /\ Init
  \/ part = "conversation" /\ Init /\ IdlePlan /\ IdleLoad

MCNext ==
  /\ \/ part = "plan" /\ Build /\ UNCHANGED <<loadVars, vars>>
     \/ part = "load" /\ LoadFile /\ UNCHANGED <<planVars, vars>>
     \/ part = "conversation" /\ Next /\ UNCHANGED <<planVars, loadVars>>
  /\ UNCHANGED part

MCSpec == MCInit /\ [][MCNext]_<<planVars, loadVars, vars, part>>
=============================================================================
