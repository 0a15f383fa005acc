# LLMGateway-Go: a TLA+ verification project

The gateway is one Go process per replica. It authenticates an in-cluster caller,
meters it in three currencies (requests per second, tokens per minute, in-flight
slots), builds an ordered plan of model providers, makes at most two upstream
attempts, and records what happened. Around that request path run a JWKS refresh
loop, one credential refresh loop per provider, and the HTTP server with its drain.

This directory models that system in TLA+, checks small instances with TLC and
proves some of the results for every value of the constants with TLAPS.

## 1. Inventory

| Part | State it keeps | Operations | Talks to | What makes it correct |
|---|---|---|---|---|
| **Slot limiter** `internal/slots` | a counter per app and one per process, under one mutex | `New`, `TryAcquire`, the release closure (`sync.Once`) | called by the core, in-process | counters equal the slots really held; no ceiling exceeded; a released slot is released once |
| **Failover plan** `gateway/fallback_logic_build.go`, `policy.go` | none, a pure function | `buildModelsProvidersFallback` | called by the core once per request | requested model first, then only what the policy permits, in the configured order; `constrained` exact |
| **Gateway core** `gateway/llm_gateway.go` | per request only: attempts, deadline, slot | `Chat`, `tryModelProvider`, `settle` | directory, two Redis limiters, slots, provider, usage recorder | bounded attempts, policy never left, slot returned on every path, every request recorded once, spend priced once |
| **Request-rate limiter** `redis/limiter.go` | counters in Redis, named by app and window | `Allow` | Redis client | one quota per window across replicas while it is open, a bounded excess after; no refusal unearned |
| **Token limiter** `redis/tokenlimiter.go` | counters in Redis | `Check`, `Settle` | Redis client, and the slot ceiling it relies on | a refusal has the budget settled in its window, a pass less; bounded overshoot |
| **Redis client** `redis/client.go` | a pool of connections | `Int`, `take`, `put`, `dial` | Redis | a reply answers the command it is read for; a failed connection is not reused |
| **Credential cache** `providerkeys/cache.go` | per provider: key, load time, `refreshing`, `lastTrigger` | `Refresh`, `RefreshAll`, `TriggerRefresh`, `KeepFresh`, `KeyFor`, `Ready` | secret sources, adapters, router, health | fail static; single-flight of triggers; the newest key in the end |
| **Secret sources** `providerkeys/vault.go`, `file.go` | a Vault token | `Fetch`, login, one retry on 401/403 | Vault | a stale token costs one retry, not a failure |
| **Provider router** `providers` | the table of adapters | `Complete` | adapters, credential cache | one adapter per name; a rejected credential triggers a refresh |
| **Provider adapters** `openai`, `anthropic`, `ollama`, `shared` | none | request and response conversion, fault classification | upstream APIs | a conversation begun with one provider can go on with another; every failure has one fault kind, and exactly what may be billed is priced |
| **Authentication** `auth` | the JWKS key set and its load time | `AppForKey`, `Refresh`, `KeepFresh`, issuer discovery | cluster issuer | fail static; not ready while cold; rotation is picked up |
| **Health checker** `health` | named readiness checks | `AddReadiness`, `Ready` | HTTP edge | ready only when every dependency is |
| **HTTP edge** `api` | none across requests | decode, validate, status mapping, `recoverPanic`, timeouts | core | one answer per request, a status per error kind |
| **Process lifecycle** `cmd/gateway` | the boot order and the drain | `run` | all | serving starts after the load; drain outlives every response |
| **Configuration** `config` | none | `Load` | all | only valid values reach the constructors |
| **Metrics and logs** `metrics`, `logs` | counters | decorators | every port | a counter means what its comment says |

What is hard here, and hard to test:

* many handlers share the slot counters, and every way out of `Chat` past admission (a
  panic included) must give back exactly one slot;
* hang-up and total deadline may strike between any two steps of a request, the
  derived context making the two look alike;
* Redis counters are named by one clock and expired by another, and a command the
  client gave up on may still run;
* a reply on a pooled connection names no request, so one connection kept in a doubtful
  state gives every later call the wrong count;
* token budgets are checked before, and debited after, the completion they meter, and the
  slot that should bound the difference is taken in between;
* periodic and triggered refreshes of one credential overlap, read the store at one
  moment and write the cache at another;
* one Vault token is shared by every fetch: it is granted in one order, stored in
  another, and its lease may end between its check and its use;
* signing keys rotate while their refresh is under way or failing, and readiness must
  neither flap nor lie;
* the drain, the write timeout, the header timeout and the total deadline are four
  clocks started at four moments of one request;
* tool-call ids come from three mints, one of which starts again with every turn, and a
  transcript is read back by whichever dialect serves the next request;
* a configuration is a long chain of early returns over maps that Go iterates at random.

`PROJECT.json` lists these as hazards, each at its line, with the property that
would catch it.

## 2. Modules

| Module | Models | State and actions |
|---|---|---|
| `Slots` | `slots/limiter.go` | `global`, `ceilings`, `inFlight`, `total` are the struct's fields. `Grant` and `Refuse` are `TryAcquire` (one mutex section, so one action), `Release` is the closure with its `sync.Once`. `issued` and `fired` are the callers' side: which closures exist and which have run. |
| `Subsequences` | | the one operator every filtering loop of the code comes to: the elements of a sequence at some of its places, in order. |
| `FallbackPlan` | `fallback_logic_build.go`, `policy.go` | operators only: `buildModelsProvidersFallback` and the steps it takes (rank map, stable sort, allowlist expansion, exclusion flag). |
| `PlanCall` | one call of that function, at `llm_gateway.go:261` | `call` is the arguments, `built` what was returned; `Build`. Holds what the caller may expect: `Preference` and `Before` look at the whole table at once, where the code goes branch by branch. |
| `Gateway` | `llm_gateway.go`, `errors.go`, `recoverPanic` | extends `FallbackPlan`, instantiates `Slots` with a request's identity as its closure. `pc` cuts `Chat` where it can be overtaken: `Arrive`, `Allow`, `Check`, `Acquire`, `StartPlan`, one action per way an attempt ends (`Complete`, `CallerGone`, `DeadlineExhausted`, `SetAside`), the loop's next turn (`FailOver`) or its end (`GiveUp`), `Settle`, and `Panic` at any step past admission. `SetAside` reads the two contexts and prices, `FailOver` reads neither, so that a hang-up or a deadline can fall between the two, as between `llm_gateway.go:313` and `:288`. `HangUp` and `DeadlinePasses` are the environment. `log` is the ordered list of the usage recorder's calls. |
| `FixedWindow` | what both Redis limiters share | Redis's clock, a skew per replica, the keys with their lifetimes, `Bump` (the two Lua scripts), `Tick`. `tally` is history: all that was ever added to a key. |
| `RateLimiter` | `redis/limiter.go` | `Allow` up to the command, then `Replied`, `Fails` (ran and lost the reply, or still under way) and `Straggles` (runs after the client gave up). |
| `TokenLimiter` | `redis/tokenlimiter.go` | `Check`, the slot, `Settle`, each command separated from its effect, with outages and late debits. |
| `RedisClient` | `redis/client.go` | `pool` is the channel of idle connections, `state` the client's end of each; `wire` and `inbox` are what is under way in the two directions, each reply line labelled, as history, with the call it was made for. `TakePooled`, `Dial`, `DialFails`, `AuthAnswered`, `Answered` (with `Put`), `GivesUp`, `Close`; Redis is `Serve` and `PeerCloses`. |
| `Configuration` | `config/config.go`, and the checks the constructors add | operators only, extending `FallbackPlan`: `wireToDomain` (the code's `toDomain`) is the chain of checks in the order of the code, `secretSource` and `Applications` its two loops over sorted names, `WiringMistake` what the constructors still refuse. |
| `LoadCall` | one `config.Load`, as every boot makes it | `file` and `answer`; `LoadFile`. Holds what an operator may expect: `Flaws` gathers every mistake the file contains, each at its place, where the code stops at the first. |
| `ProviderKeys` | `providerkeys/cache.go`, the boot and loops of `main.go`, the trigger in `providers/router.go` | keys are version numbers. A refresh is a job: `Begin`, `FetchReads` or `FetchFails`, `Land`; a trigger's goroutine has one more step, `TriggerOver`. `Send`, `Accepted` and `Rejected` are requests using the key, or none before the first has loaded. `Rotate` and `SourceTurns` are the environment. |
| `SecretSource` | what `cache.go` asks of a `Fetcher` | abstract: `Write`, `Call`, `Answer` with a value the secret held since the call, or with an error, `Return`. |
| `VaultSession` | `providerkeys/vault.go` | `token` is the field under the mutex, `pc` and `hand` a fetch's place and local token. `Fetch`, `LoginGranted`, `LoginFails`, `Store`, `ReadServed`, `ReadFails`, `ReadRejected`, `Return`; the environment writes the secret, ends leases and takes Vault down or makes it deny. |
| `SigningKeys` | `auth/jwks.go`, `auth/refresher.go`, `auth/directory.go` | the key cache, one refresh in progress (`RefreshStarts`, `DocumentRead`, `RefreshFails`, `RefreshLands`), the issuer; of `verifyToken` and `AppForKey`, what depends on the cache and on the boot. |
| `Pod` | `cmd/gateway/main.go`, `health`, `api/server.go`, the issuer check of `auth/discovery.go` | extends `SigningKeys`: `run` step by step (`Load`, `NewAppDirectory`, `NewProviderClient`, `NewLimiters`, `NewCore`, `Start`, `ServeFails`), `Signal`, `DrainStarts`, `DrainEnds`, `Restart`, and each connection's stages against the server's deadlines. |
| `Dialects` | `openai`, `anthropic`, `ollama`, `shared/utils.go`, the messages of `api/openapi.go` | operators only: `decodeChatRequest`, one request and one response conversion per dialect, `Complete` with its faults. |
| `Conversation` | `api/handler.go` and a caller, over many requests | the transcript is the state; `Ask`, `Reply`, and `Attempt`, a whole exchange with any provider. |
| `MC*` | | instances for TLC |
| `SequenceLemmas` | | what `SubseqAt` and `FlattenSeq` return, for the modules below |
| `SlotsProofs`, `GatewayProofs` (with `FallbackPlan`, `PlanCall`), `RedisProofs` (`RateLimiter`, `RedisClient`), `TokenLimiterProofs`, `CredentialProofs` (`ProviderKeys`, `VaultSession`), `PodProofs` (`Pod`, and at its end `LoadCall`), `ConversationProofs` | | theorems and proofs |

`Gateway` composes with `Slots` by `INSTANCE`, and its refinement of it (`SlotsSpec`) is
both a checked property and a theorem; `VaultSession` implements `SecretSource` in the
same way (`ImplementsSource`). `Pod` holds `SigningKeys` as part of its state, and stands
for the credential cache with one Boolean, which `ProviderKeys` justifies: what is loaded
is never lost. `Configuration` judges the values the other modules take as constants.
Operators whose name contains `Mut` are deliberately wrong variants of the definition that follows them, kept to show that a
property depends on it; nothing uses them.

`RedisProofs` and `CredentialProofs` each extend two modules, so one of the two carries a
prefix: `RedisInit`, `RedisNext`, `RedisSpec`, `VaultInit`, `VaultNext`, `VaultSpec` and so on.

Data is abstracted to what the properties tell apart: messages, token counts of the
core, wording and JSON are left out; routes keep model and provider; a credential is a
version with 0 for "none"; the limiters' answers inside `Gateway` are the set `Verdicts`
(the limiters themselves have their own modules).

## 3. What the runs check

Bounds are named constants in the `.cfg` files.

| Run | Instance | Shows |
|---|---|---|
| `borrowed` | slots and connections have no common state, so one of them in each behaviour. Slots: 2 apps, 4 closures, every limit in 0..3 (0: unmetered). Connections: 4 calls, 3 connections, a pool of 1, with and without a password; symmetry on calls and connections | counters are exact under repeated releases; ceilings hold; the part of the global cap other apps' ceilings cannot cover is never taken from an app (`GuaranteedShare`); no call reads another's reply; no connection leaks or is shared; AUTH first. Two apps suffice for one to fill the cap against the other, and four closures exceed every limit. A pool of one with two calls at once already overflows, and the fourth call meets what the first three left behind. |
| `pure_calls` | three calls without a common state, again one in each behaviour. The plan: every table of up to 3 routes over 3 models and 3 providers, every policy the loader lets through, every allowlist and order of up to 3 names. The load: files of up to 2 applications and 2 secrets over 4 routing tables, each with every kind of mistake, and pairs of them. The conversation: transcripts of up to 5 messages, up to 2 calls a turn, 2 function names, every provider at every turn, every way an exchange can end | for orders without repetition, the plan is the permitted routes in strictly ascending preference, ties in table order; `constrained` is exact, whatever the order; a file is accepted exactly when it holds no mistake, and the mistake reported is of the first entry at fault, in the order of the sections and names; what is accepted gives every subject its own application and every loop a period (`LoadMatchesReference`); the gateway accepts back what it answered; results reach their calls in each dialect; nothing is lost; exactly the billable is priced. Three routes hold a primary and two substitutes in either order; two of a kind are what the checks between entries need: a subject taken twice, an order of names. Five messages hold a turn with two calls, both results in either order, and a second turn whose minted ids repeat the first's. |
| `gateway` | 1 request, 3 apps (one per policy), 4 routes, all verdicts and faults, hang-up and deadline anywhere | attempts, policy, records, pricing, the 502/503 distinction, for failovers that start after their caller left too, and, under fairness, that the handler returns and its slot comes back. One request is enough for these: handlers meet only in the slot limiter, whose `TryAcquire` never waits. |
| `gateway_contention` | 3 requests, 2 apps, limits 1 and 2, symmetry on requests | a slot is held exactly from admission to return; handlers, counted as handlers, respect the ceilings; every run is a run of `Slots`. `VIEW Contention` identifies states that differ only in what no guard and no property of this run reads: the log, the faults, and how a finished request ended. |
| `rate_limiter` | 3 requests, 2 replicas with clocks up to one tick apart, 3 windows, a patience of 4 ticks, lost replies and late commands | the quota holds across replicas as long as its window is open by any clock; late commands add to it no more than one quota for each further lifetime of its key; refusals are earned; counters outlive their window |
| `token_limiter` | 3 requests, 2 replicas, the same patience and skew, outages | a check refuses only where the budget was debited in its window, and passes only where less was, or when the window is over by every clock |
| `provider_keys` | 1 provider, 2 refreshes and 2 requests in flight, 2 rotations, blank and failing sources | fail static, flag and trigger agree, an old key returns only by overlap, the newest key in the end |
| `vault` | 2 fetches, 2 values, 3 tokens; leases end, Vault turns down or denying at any step | a fetch fails only for a cause beyond an old lease; seen from the cache the session is a plain source; once Vault stays well logins stop. Two fetches make logins race; each can hold one token besides the stored one, hence three. |
| `pod` | 1 connection after another, 2 signing keys, a rotating and failing issuer, write timeout unset or 2, total deadline 2, restarts | what readiness promises and that it does not flap; withdrawn keys go and new ones come; a drain cuts nothing still owed, and a signalled process ends. Connections do not meet in the server, so one in every stage at every moment is enough. |

In `pod`, ticks stand for the code's deadlines in their order and not to scale:
`HeaderTime = ReadTime = 1`, `TotalDeadline = 2`, the default write timeout 1 and drain 3,
the grace 2. `PodAssumption` asks of them what the defaults, 5, 90, 100 and 10 seconds,
satisfy, and the theorems hold for all values that do. The first is
`server.read_header_timeout`, which an operator may set (`config.go:179`), so that part of
the assumption is a demand on the configuration.

The ticks of the window models are half the shipped window, so `Window = 2` and
`Grace = 2` are the code's one second and its extra second of lifetime.

A call is in time for 4 ticks, the two seconds the client waits for a reply
(`client.go:108`). The key is named before the connection is taken, so a call that has to
dial first can last three times as long: 2 s for the connection (`client.go:153`) and 2 s
for its handshake (`client.go:199`) before those. No property bounds the patience by the
key's lifetime. `QuotaHoldsWhileOpen` and `VerdictsFollowSettledSpend` speak of windows still
open by some clock, and ask only that the clocks are no further apart than the grace
(`Fits(0)`); `LateAdmissionsBounded` is for what comes later, and `WithinLives` says how many
lifetimes of a key a call can be in time for: `Lives = 2` for 4 ticks, 4 for the 12 of a
call that dials. `MCAssumption` states both conditions of the instance.

`provider_keys` runs with one provider because the cache's entries share nothing but the
lock: loops, triggers and cool-downs are per provider. `Jobs` holds as many refreshes as
one provider can have at once, the loop's and the trigger's, so the bound never delays
one.

Deadlock is not checked where the instance ends (each request is handled once, time is
bounded, a closure is issued and a call made once, the plan is computed once and the file
loaded once, a transcript is full); it is checked in `provider_keys`, `vault` and `pod`. Type invariants are not repeated in runs where they
are theorems.

### Disagreements between the code and what is said of it

Three are kept as runs expected to fail, the findings of `PROJECT.json`:

* `gateway_unpriced`: when the total deadline ends an attempt whose caller has stayed, it is
  answered with 504 before `billsDespiteFailure` is asked (`llm_gateway.go:313`), although
  a comment says such attempts "are already priced in unobserved-spend".
* `rate_quota`: "an app's 60 rps is one budget across the deployment" (`client.go:1-3`), but a
  key lives two seconds from its first write (`limiter.go:67`) and the client waits as long
  for a reply, so a command named at the end of a window can find its counter gone, start
  it again at one and be admitted over the quota. One replica and no skew are enough. What
  does hold is `QuotaHoldsWhileOpen` and `LateAdmissionsBounded`.
* `token_overshoot`: "What bounds the overshoot is the app's slot ceiling"
  (`tokenlimiter.go:41`; ADR-003, line 66), but the check comes before the slot is taken
  (`llm_gateway.go:248`), so a request checked early takes a slot freed by one that has spent
  the budget since. One replica and one slot are enough, without an outage.

These are visible in the models' definitions and not kept as runs:

* 503 says the policy refused the providers that remained (`llm_gateway.go:326-329`), but
  `constrained` only says it left out some route; where everything is on the provider
  that failed, nothing remained.
* "a debit lands in the window its own check read" (`tokenlimiter.go:117-118`): `Settle`
  names its key by the time of the settlement, so a completion that crosses the end of a
  window is debited in the next (`Settle` in `TokenLimiter`).
* "never runs more than one refresh per provider at a time" (`cache.go:213-227`) holds for
  triggers only; the periodic loop neither sets nor reads the flag.
  `KeyGoesBackOnlyByOverlap` shows the consequence, an older key back in the cache, is
  confined to that overlap, and `EventuallyFresh` that it is temporary.
* A write timeout above the total deadline does not suffice for an answer to be sent
  (`server.go:43-45`, `deploy/configmap.yaml:18-21`, `deploy/README.md:97-98`): the write
  deadline starts when the headers are in, the total deadline only after the body, which
  may take the read timeout, and two limiter calls. In `Pod`, `Answer` then ends in "lost".
* A pod that could not verify its issuer at boot is meant not to become ready
  (`main.go:92-97`, `discovery.go:58-61`), yet it does when the endpoint recovers:
  `ReadyMeansAble` can only promise the cluster's issuer or a blind boot.
* A server that stops by itself makes `run` return without a drain (`ServeFails`).
* That the header timeout fits in the drain's grace (`main.go:253-261`) is what
  `PodAssumption` states and nothing in the code checks, although the first is configurable
  (`config.go:179`); a per-app
  total deadline is checked neither against the write timeout nor against the per-try
  deadline (`llm_gateway.go:266-275`).
* A 200 whose body breaks off is "unreachable", and so unpriced, although the comments
  reserve that for nothing sent and count truncation among the billable
  (`gateway/errors.go:62-66`, `shared/utils.go:60-62`); a request that cannot be encoded is a
  bad response, priced though nothing was sent. `OnlyBillableIsPriced` leaves both out.
* A route naming a provider without an adapter, and a misspelt failover order, pass every
  check at boot.

Smaller ones: ceilings that sum to more than the global cap let one app fill the pod
(`slots/limiter.go:12-13`; `GuaranteedShare` is what does hold); a failover order naming a provider
twice ranks an absent one before a listed one (`fallback_logic_build.go:86`, see
`providerRank`); the last attempt records a double-spend risk with no failover after it
(`llm_gateway.go:102-103`, see `GiveUp`); a fail-open is counted before admission and per
limiter (`llm_gateway.go:99-100`, see `Meter`); a hang-up between the reads of the two
contexts is recorded as a timeout (`llm_gateway.go:303-316`, see `DeadlineExhausted`); a
key first written after its window began lives past the next one (`limiter.go:67`); Ollama's
wire cannot tell two calls of one function in one turn apart; the unobserved tokens
called an upper bound leave out the prompt; and a KV v1 mount is not accepted, as
`vault.go:141-142` has it, since only the nested form is decoded.

## 4. Fairness

* `Gateway`: weak fairness of each request's own `Step`. A handler is a goroutine and
  is never blocked for good: limiter calls end with the Redis client's deadline, provider
  calls with the per-try deadline, and the settlement with what is left of the total one. Nothing obliges
  callers to arrive, hang up or be late.
* `ProviderKeys`: weak fairness of the boot's refreshes, of each loop's tick and of a
  refresh's next step. `RefreshAll` runs to its end before serving, a `time.Ticker` of
  positive period (the configuration refuses others) keeps ticking, and a fetch ends by
  `fetchTimeout`. Triggers, rotations and outages are under no obligation. `EventuallyFresh`
  additionally assumes that the source eventually stays readable.
* `VaultSession`: weak fairness of each fetch's next step, and of its call and return: every
  request to Vault ends by the cache's `fetchTimeout`, and the loops keep asking. Nothing
  obliges leases to end; `SessionSettles` assumes Vault stays well and none ends.
* `Pod`: weak fairness of the boot's next step, of the key loop (a ticker, and fetches that
  carry a timeout), of main's select and of the drain, of time while a request is in
  flight, and of leaving a stage whose time is up, which the server's and the core's
  deadlines enforce. Clients, the issuer and signals are under no obligation.

## 5. What is proved

TLAPS proves the following for any sets of apps, requests, calls, connections, providers,
jobs and callers, any limits, any routing table, failover order and policies, and
conversations of any length.

* `SlotsProofs`: `TypeOK`, `CountersAreExact`, `CeilingsHold`. The inductive invariant adds
  finiteness of the set of closures to these three, since the counters are compared with
  cardinalities: `CeilingsHold` is not inductive without `CountersAreExact`, because the
  guards read the counters, and `Release` needs it to know that a counter it decrements
  is positive. `GuaranteedShare` follows from the invariant: each app's closures are
  numbered within its ceiling, so what the others hold is mapped one to one into
  `Places`, the pairs of an app and a number up to its ceiling, and a cap that is full
  leaves the app asking with at least the rest.
* `GatewayProofs`: `AttemptsBounded`, `SlotHeldWhileAdmitted`, `TypeOK`, the refinement
  `Spec => SlotsSpec`, and `HandlersWithinCeilings`. The inductive invariant is
  `ReqTypeOK /\ AttemptsBounded /\ SlotInv`, where `SlotInv` adds to
  `SlotHeldWhileAdmitted` that every closure ever issued belongs to a request past
  admission and names that request's app: without it a second grant to one request
  could not be excluded, and `Grant` requires a fresh identity. With the invariant every
  step maps to a `Slots` step or a stutter; `SlotsProofs` is then instantiated, and a
  bijection between running handlers and held closures carries its ceilings over; so
  does `GuaranteedShare`.
  The second half is about one request's log: `RecordedOnce` and `SpendPricedOnce`. Its invariant, `Books`, reads the log against the trail of
  attempts and their faults: there is no final fact before the request is served or over, and
  an attempt that was priced or completed is earlier than the one under way, or is the
  last one of a request that has left the plan. Hence an entry appended for the attempt
  under way is the first of its kind for it, which no property says by itself.
  The third part is about the plan. `BuildIsExact`: for every table, order and policy the
  plan holds the routes the policy permits, and no other, and `constrained` is up exactly
  when it leaves out a route that exists. It goes through each branch of the function: a
  stable sort by rank loses and adds no route because every provider has a rank within the
  sort's range, and an allowlist's substitutes are each taken at the first place their model
  is named. `GiveUpIsExplained` rests on it: `Explanations` states it in one request's own values, which
  nothing touches once a verdict is given, and when `GiveUp` gives one, `BuildIsExact` turns
  what the plan says of the routes it left out into what the policy says of them.
  `BuildIsRanked` adds the order, for failover orders without repetitions. It says that the
  plan lists the permitted places of the table so that each precedes the next, which is a
  property of sequences built piece by piece (`Ascending`, in `SequenceLemmas`): a
  filtered table is ascending because the table is, and a concatenation is when its
  pieces are and every element of one precedes every element of the next. Two entries of
  different rank, or of two places of the allowlist, are told apart by `Preference`, and of
  the same by their place in the table; that a provider's rank is its place in the order needs
  the order to name it once. `PlanIsTheReference` turns a strictly ascending list that
  holds every permitted place once into the enumeration `PlanMatchesReference` asks for, and
  `PlanConstrainedIsExact` is `BuildIsExact` seen from the caller.
* `RedisProofs`, on `RateLimiter`: `TypeOK`, `CountersOutliveTheirWindow`, `QuotaHoldsWhileOpen`,
  `LateAdmissionsBounded`, `RefusalsAreEarned`; `TokenLimiterProofs`: `TypeOK`,
  `VerdictsFollowSettledSpend`. All but `LateAdmissionsBounded`
  rest on `KeysLive`: a key that was ever written lives, by some replica's clock, to the
  end of its window and the grace, and either holds all that was added to it or was begun
  again after that time. It is inductive with `CommandsAreNamed` (a command under way names
  a window its replica has been in) and needs no assumption on the clocks; nor does
  `RefusalsAreEarned`, since a counter that was begun again only says less. Three of the
  others read a counter whose window is open by some clock, and assume `Fits(0)`: no clock is
  ahead of another by more than the grace. None bounds the client's patience. For the
  quota, `TallyCounts` adds that a key's history is the number of requests counted in it,
  so that the admitted, being a subset of the counted, are bounded by what the last reply
  read; and clocks only go on, so a window once over stays over.
  `LateAdmissionsBounded` needs no skew to fit, only `WithinLives`. Its invariant, `Begun`, counts
  lifetimes: in the j-th lifetime of a key the present expiry is at least j lifetimes away
  from the end of the window's first possible moment, and at most j quotas were admitted, the
  j-th as far as the counter says. A key is begun again only after it expired, so each
  lifetime adds a whole one to the expiry and at most a quota to the admissions; and a
  reply in time comes too early for a j beyond `Lives`.
* `RedisProofs`, on `RedisClient`: `RedisTypeOK`, `RepliesAreOwn`, `PooledIsClean`, `ConnectionsAccounted`,
  `AuthComesFirst`, for any pool size. None is inductive alone. The invariant says what can
  be on the connection of a call in progress: its one command, or the lines of its one
  answer, or a server's refusal with the server gone (`InStep`); that such a connection is
  its call's alone (`Owned`); and that there is no other open one outside the pool
  (`NoLeak`). An integer or an accepted AUTH is then the last thing on its connection,
  which is what lets `put` give it to the next call.
* `CredentialProofs`, on `ProviderKeys`: `TypeOK`, `KeyNeverLost`, `KeyGoesBackOnlyByOverlap`,
  `OneTriggerAtATime`. The inductive
  invariant says the cache and every read are at most as new as the store, and that a
  read no other refresh has overlapped is at least as new as the cached key; the second
  part is what makes the action property follow for `Land`. `OneTriggerAtATime` counts; its
  invariant, `FlagFollowsTrigger`, does not: the flag is up exactly while some triggered
  refresh lives, and no two of one provider do.
* `CredentialProofs`, on `VaultSession`: `VaultTypeOK`, `FailureHasACause` and the refinement `ImplementsSource`,
  for any fetches, values and tokens. The invariant says that the token a retry holds is
  live unless the fetch has met trouble, that a fetch in progress has seen the present
  secret, and that an answer given is a value seen: with these every step is a step of
  `SecretSource` or a stutter.
* `PodProofs`: `TypeOK`, `ReadyMeansAble`, `ReadinessNeverFlaps`, `WithdrawnKeysGo`,
  `DrainCutsNothingOwed`, for every set of connections and keys and all deadlines that
  satisfy `PodAssumption`. The invariant links the phase of `run` to the checks registered
  by then, says that a pod past the issuer check has the right issuer or is blind, that a
  refresh read no key gone before it began, and, for the drain, that it has lasted no longer
  than a request has been in its headers, or, past them, than its write deadline has run
  plus `HeaderTime`.
* `PodProofs`, on `LoadCall`: `LoadMatchesReference`, for every file `IsFile` admits. A check, an entry,
  a section and the file are judged by one predicate, `Reports(e, F)`: `e` is the error of an
  earliest flaw of `F`, and there is none exactly when `F` is empty. A chain of early
  returns passes it on: if each check reports its own flaws, and the flaws of one do not
  come after those of the next, the first failing check reports them all (`FirstReports`).
  The loop over applications needs an invariant (`LoopInv`), since what a turn refuses
  depends on the turns before: the tables hold exactly the applications seen so far, each
  under its own subject, and none of them has a flaw, or the loop has stopped at the first
  that has. The subjects taken are then those of the earlier names, which is what the
  reference compares names by.
* `ConversationProofs`: `AnswersCanBeSentBack`, `ResultsReachTheirCalls`, `NothingIsLost`,
  `OnlyBillableIsPriced`, for any function names, any number of calls in a turn and any
  length. The first three are about what one transcript becomes, so the invariant says what
  transcripts there are: `Shape`, every message has a text or calls, and a turn's calls have ids that
  are new (`<<turn, k>>`) or minted (`Minted(k)`), one for each k; `ResultsAnswer`, a result
  answers a call of the last turn that made any. Both are needed for an Ollama result: its
  function is the last one seen under its id, and an id minted again can only be the
  call's own or an earlier turn's. That nothing is lost compares two concatenations of
  pieces of different lengths; the lemmas of `SequenceLemmas` do it message by message.

Assumptions on constants are named `ASSUME`s next to their declarations: limits are
naturals, the apps are finitely many, tables and orders are sequences of routes and
providers, every app has one of the policies the configuration can give it, the bounds
of a conversation and of a call's table are naturals (`PlanCallAssumption`), the names of
providers and applications have an order (`NameOrderAssumption`, what `sort.Strings` sorts
by), and a file has the types its YAML structs declare (`LoadAssumption`).

`FlattenSeq`, on which `SubseqAt` rests, is the library's, by a recursive function. What the
proofs need of the two (typing, elements, and how they cross a concatenation) is proved without an induction
principle over an operator, and so is what the loop over applications has built after each
of its turns: the lengths at which a claim holds are a set of naturals, and
one without a least exception has none (`NatSetInduction`).

Only model-checked: the liveness properties (`HandlersReturn`, `SlotsDrain`,
`EventuallyFresh`, `SessionSettles`, `RotationIsPickedUp`, `ShutdownEnds`), which are out of
the prover's reach. Every safety property a passing run checks is a theorem.

## 6. What is not modelled, and why

* The metrics and log decorators: they count or print, and forward. `Gateway` records the
  recorder's calls in order, which is what the counters are made of.
* Of the HTTP edge, the translation of error codes into statuses, the media type, the body
  limit and the correlation id; of the adapters, tool declarations, `tool_choice` and the
  sampling parameters: copied field by field, without a state of the system's own.
* Cryptography (signatures, TLS) and the parsing of JSON and YAML: a body decodes or does
  not, and a presented token is sound in itself (signature, audience, times, subject), so
  that what remains of its verification is the signing keys and the issuer.
* Redis losing its data on a restart, and clocks that jump backwards: the code has no
  handling for them.
* In `ProviderKeys` a rotation revokes the old credential at once, the strictest case,
  and the trigger's cool-down is a flag that may clear at any moment.

## 7. Plan

Done: the request path (`Slots`, `FallbackPlan`, `Gateway`, the limiters, `RedisClient`), the
credentials (`ProviderKeys`, `VaultSession` over `SecretSource`), the process
(`SigningKeys`, `Pod`), the edges (`Configuration`, `Dialects`, `Conversation`) and the eight
proof modules; every safety property a passing run checks is a theorem. What would add most next:

1. `RedisClient` composed under `RateLimiter`, as the source of its `Fails` and `Straggles`.
2. An abstract specification of admission (an app's requests, its three currencies, one
   final record each) and `Gateway` with the limiters shown to implement it.
3. Tool declarations and `tool_choice` in `Dialects`; the status table of the edge.
