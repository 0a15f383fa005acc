-------------------------------- MODULE Gateway --------------------------------
(***************************************************************************)
(* internal/gateway/llm_gateway.go: Service.Chat, run by any number of     *)
(* requests at once.  A request's handler is cut where it can be           *)
(* overtaken: at each call that leaves the process (the two limiters, the  *)
(* provider, the settlement) and between taking a slot and using it.  The  *)
(* slot limiter is the module Slots; a request's release closure carries   *)
(* the request's own identity.                                             *)
(***************************************************************************)
EXTENDS FallbackPlan

CONSTANTS Requests,   \* the requests, one handler each
          Apps,       \* the apps that own an identity
          Asked,      \* the models callers ask for, routed or not
          Limits,     \* see Slots
          Table,      \* Config.ModelProviders
          Order,      \* Config.FailoverOrder
          PolicyOf,   \* App.Policy, by app
          Verdicts,   \* the answers the two Redis limiters give
          Faults      \* the ways provider calls fail

FaultKinds == {"unreachable", "timeout", "server_error", "throttled",
               "bad_response", "rejected"}

ASSUME GatewayAssumption ==
  /\ IsFiniteSet(Apps)
  /\ Table \in Seq(Route)
  /\ Order \in Seq(Providers)
  /\ PolicyOf \in [Apps -> Policy]
  /\ Asked \subseteq Models
  /\ Limits \subseteq Nat
  /\ Verdicts \subseteq {"allowed", "refused", "error"}
  /\ Faults \subseteq FaultKinds

VARIABLES global, ceilings, inFlight, total, issued, fired, answer

slotVars == <<global, ceilings, inFlight, total, issued, fired, answer>>

S == INSTANCE Slots WITH Ids <- Requests

VARIABLES caller,     \* the app a request's token names
          requested,  \* ChatRequest.Model
          pc,         \* where the handler is
          trail,      \* the routes attempted so far, in order
          faults,     \* how each failed attempt failed, in order
          cancelled,  \* callerCtx is canceled: the caller hung up
          expired,    \* the total deadline has passed
          log,        \* the facts recorded for the request, in order
          outcome     \* what Chat returned

reqVars == <<caller, requested, pc, trail, faults, cancelled, expired, log, outcome>>
vars    == <<slotVars, reqVars>>

maxAttempts == 2

\* Failures the provider may bill for all the same.
billsDespiteFailure(kind) == kind \in {"timeout", "bad_response"}

RejectionCodes == {"invalid_request", "quota_exceeded", "concurrency_ceiling",
                   "model_unavailable", "gateway_timeout", "upstream_failed"}
Outcomes == RejectionCodes \cup {"none", "unauthorized", "served", "disconnected", "panicked"}

\* The UsageRecorder's calls, and the settlement's effect on the token budget.
\* attempt is 0 for a fact about the request as a whole.
Facts == {"fail_open", "rejection", "completion", "double_spend", "disconnect",
          "debit", "debit_lost"}
Entry == [fact : Facts, code : RejectionCodes \cup {"none"}, attempt : 0..maxAttempts]

FactOf(f, n)  == [fact |-> f, code |-> "none", attempt |-> n]
Rejection(c)  == [fact |-> "rejection", code |-> c, attempt |-> 0]

Waiting  == {"idle", "allow", "check", "acquire"}
Admitted == {"plan", "attempt", "next", "settle"}

ReqTypeOK ==
  /\ caller \in [Requests -> Apps]
  /\ requested \in [Requests -> Asked]
  /\ pc \in [Requests -> Waiting \cup Admitted \cup {"done"}]
  /\ trail \in [Requests -> Seq(Route)]
  /\ faults \in [Requests -> Seq(Faults)]
  /\ cancelled \in [Requests -> BOOLEAN]
  /\ expired \in [Requests -> BOOLEAN]
  /\ log \in [Requests -> Seq(Entry)]
  /\ outcome \in [Requests -> Outcomes]

TypeOK == S!TypeOK /\ ReqTypeOK

-----------------------------------------------------------------------------
\* The plan of each model an app may ask for: nothing it reads changes while
\* the gateway runs.
PlanFor == [m \in Asked |-> [a \in Apps |->
  buildModelsProvidersFallback(m, PolicyOf[a], Table, Order)]]

Plan(r) == PlanFor[requested[r]][caller[r]]

Tried(r) == {trail[r][i].provider : i \in DOMAIN trail[r]}

\* The loop over the plan, as seen from one attempt to the next: it skips the
\* providers already tried, so it resumes at the first eligible route on an
\* untried one, and stops after maxAttempts.  0: the loop has ended.
NextTryMutSameProvider(r) ==
  IF Len(trail[r]) = maxAttempts \/ Len(trail[r]) >= Len(Plan(r).eligible) THEN 0
  ELSE Len(trail[r]) + 1

NextTry(r) ==
  IF Len(trail[r]) = maxAttempts THEN 0
  ELSE SelectInSeq(Plan(r).eligible, LAMBDA mp : mp.provider \notin Tried(r))

\* What the code after the loop concludes.
GiveUpCodeMutAlways502(r) == "upstream_failed"

GiveUpCode(r) ==
  IF Len(trail[r]) < maxAttempts /\ Plan(r).constrained
  THEN "model_unavailable" ELSE "upstream_failed"

Record(r, entry) == log' = [log EXCEPT ![r] = Append(@, entry)]
Goto(r, label)   == pc' = [pc EXCEPT ![r] = label]

\* Chat returns.  Before admission there is no slot to give back; after it the
\* deferred release runs on every path out, a panic included.
Return(r, out) ==
  /\ Goto(r, "done")
  /\ outcome' = [outcome EXCEPT ![r] = out]

ReleaseSlotMutLeaks(r) == UNCHANGED slotVars

ReleaseSlot(r) == S!Release([id |-> r, app |-> caller[r]])

-----------------------------------------------------------------------------
Init ==
  /\ S!Init
  /\ caller \in [Requests -> Apps]
  /\ requested \in [Requests -> Asked]
  /\ pc = [r \in Requests |-> "idle"]
  /\ trail = [r \in Requests |-> <<>>]
  /\ faults = [r \in Requests |-> <<>>]
  /\ cancelled = [r \in Requests |-> FALSE]
  /\ expired = [r \in Requests |-> FALSE]
  /\ log = [r \in Requests |-> <<>>]
  /\ outcome = [r \in Requests |-> "none"]

\* AppForKey, then Validate.
Arrive(r) ==
  /\ pc[r] = "idle"
  /\ \/ /\ Return(r, "unauthorized")
        /\ UNCHANGED log
     \/ /\ Record(r, Rejection("invalid_request"))
        /\ Return(r, "invalid_request")
     \/ /\ Goto(r, "allow")
        /\ UNCHANGED <<log, outcome>>
  /\ UNCHANGED <<slotVars, caller, requested, trail, faults, cancelled, expired>>

\* A limiter's answer: allowed, refused, or an error, which admits the request
\* unmetered and says so.
Meter(r, here, next) ==
  /\ pc[r] = here
  /\ \/ /\ "allowed" \in Verdicts
        /\ Goto(r, next)
        /\ UNCHANGED <<log, outcome>>
     \/ /\ "error" \in Verdicts
        /\ Record(r, FactOf("fail_open", 0))
        /\ Goto(r, next)
        /\ UNCHANGED outcome
     \/ /\ "refused" \in Verdicts
        /\ Record(r, Rejection("quota_exceeded"))
        /\ Return(r, "quota_exceeded")
  /\ UNCHANGED <<slotVars, caller, requested, trail, faults, cancelled, expired>>

Allow(r) == Meter(r, "allow", "check")
Check(r) == Meter(r, "check", "acquire")

AcquireMutIgnoresRefusal(r) ==
  /\ pc[r] = "acquire"
  /\ inFlight' = [inFlight EXCEPT ![caller[r]] = @ + 1]
  /\ total' = total + 1
  /\ issued' = issued \cup {[id |-> r, app |-> caller[r]]}
  /\ Goto(r, "plan")
  /\ UNCHANGED <<global, ceilings, fired, answer, log, outcome>>
  /\ UNCHANGED <<caller, requested, trail, faults, cancelled, expired>>

Acquire(r) ==
  /\ pc[r] = "acquire"
  /\ \/ /\ S!Grant(caller[r], r)
        /\ Goto(r, "plan")
        /\ UNCHANGED <<log, outcome>>
     \/ /\ S!Refuse(caller[r])
        /\ Record(r, Rejection("concurrency_ceiling"))
        /\ Return(r, "concurrency_ceiling")
  /\ UNCHANGED <<caller, requested, trail, faults, cancelled, expired>>

\* buildModelsProvidersFallback, the total deadline's context, and the first
\* turn of the loop up to the provider call.
StartPlan(r) ==
  /\ pc[r] = "plan"
  /\ \/ /\ NextTry(r) = 0
        /\ Record(r, Rejection("model_unavailable"))
        /\ Return(r, "model_unavailable")
        /\ ReleaseSlot(r)
        /\ UNCHANGED trail
     \/ /\ NextTry(r) # 0
        /\ trail' = [trail EXCEPT ![r] = Append(@, Plan(r).eligible[NextTry(r)])]
        /\ Goto(r, "attempt")
        /\ UNCHANGED <<slotVars, log, outcome>>
  /\ UNCHANGED <<caller, requested, faults, cancelled, expired>>

\* The provider answered: the completion is recorded, then settled.
Complete(r) ==
  /\ pc[r] = "attempt"
  /\ Record(r, FactOf("completion", Len(trail[r])))
  /\ Goto(r, "settle")
  /\ UNCHANGED <<slotVars, caller, requested, trail, faults, cancelled, expired, outcome>>

SettleMutWaitsForTheDebit(r) ==
  /\ pc[r] = "settle"
  /\ ~expired[r]
  /\ Record(r, FactOf("debit", Len(trail[r])))
  /\ Return(r, "served")
  /\ ReleaseSlot(r)
  /\ UNCHANGED <<caller, requested, trail, faults, cancelled, expired>>

\* The debit goes out under the same total deadline: past it, the client's
\* write deadline has already passed and the debit is lost.
Settle(r) ==
  /\ pc[r] = "settle"
  /\ \/ /\ ~expired[r]
        /\ Record(r, FactOf("debit", Len(trail[r])))
     \/ Record(r, FactOf("debit_lost", Len(trail[r])))
  /\ Return(r, "served")
  /\ ReleaseSlot(r)
  /\ UNCHANGED <<caller, requested, trail, faults, cancelled, expired>>

\* The provider call returned an error.  What happens next depends on who gave
\* up first, judged after the call and in this order: the caller, the total
\* deadline, or only this provider.
AttemptFails(r, kind) ==
  /\ pc[r] = "attempt"
  /\ faults' = [faults EXCEPT ![r] = Append(@, kind)]
  /\ UNCHANGED <<caller, requested, expired>>

CallerGoneMutAlsoRejects(r, kind) ==
  /\ AttemptFails(r, kind)
  /\ cancelled[r]
  /\ log' = [log EXCEPT ![r] = @ \o <<FactOf("disconnect", Len(trail[r])), Rejection(GiveUpCode(r))>>]
  /\ Return(r, "disconnected")
  /\ ReleaseSlot(r)
  /\ UNCHANGED <<trail, cancelled>>

CallerGone(r, kind) ==
  /\ AttemptFails(r, kind)
  /\ cancelled[r]
  /\ Record(r, FactOf("disconnect", Len(trail[r])))
  /\ Return(r, "disconnected")
  /\ ReleaseSlot(r)
  /\ UNCHANGED <<trail, cancelled>>

\* ctx.Err() is read after callerCtx.Err(): it is set because the deadline
\* passed, or because the caller hung up between the two.
DeadlineExhausted(r, kind) ==
  /\ AttemptFails(r, kind)
  /\ ~cancelled[r]
  /\ \/ expired[r] /\ UNCHANGED cancelled
     \/ ~expired[r] /\ cancelled' = [cancelled EXCEPT ![r] = TRUE]
  /\ Record(r, Rejection("gateway_timeout"))
  /\ Return(r, "gateway_timeout")
  /\ ReleaseSlot(r)
  /\ UNCHANGED trail

SetAsideMutRetriesOnly(r, kind) ==
  /\ AttemptFails(r, kind)
  /\ ~cancelled[r]
  /\ ~expired[r]
  /\ Goto(r, "next")
  /\ IF billsDespiteFailure(kind) /\ NextTry(r) # 0
     THEN Record(r, FactOf("double_spend", Len(trail[r])))
     ELSE UNCHANGED log
  /\ UNCHANGED <<slotVars, trail, outcome, cancelled>>

\* Neither context is done: the failure is the provider's alone, it is priced,
\* and the loop goes on.
SetAside(r, kind) ==
  /\ AttemptFails(r, kind)
  /\ ~cancelled[r]
  /\ ~expired[r]
  /\ Goto(r, "next")
  /\ IF billsDespiteFailure(kind)
     THEN Record(r, FactOf("double_spend", Len(trail[r])))
     ELSE UNCHANGED log
  /\ UNCHANGED <<slotVars, trail, outcome, cancelled>>

\* The loop's next turn.  It reads neither context again: a caller who left
\* since, or a deadline that passed, does not keep the attempt from starting.
FailOver(r) ==
  /\ pc[r] = "next"
  /\ NextTry(r) # 0
  /\ trail' = [trail EXCEPT ![r] = Append(@, Plan(r).eligible[NextTry(r)])]
  /\ Goto(r, "attempt")
  /\ UNCHANGED <<slotVars, caller, requested, faults, cancelled, expired, log, outcome>>

\* The loop has ended.
GiveUp(r) ==
  /\ pc[r] = "next"
  /\ NextTry(r) = 0
  /\ Record(r, Rejection(GiveUpCode(r)))
  /\ Return(r, GiveUpCode(r))
  /\ ReleaseSlot(r)
  /\ UNCHANGED <<caller, requested, trail, faults, cancelled, expired>>

\* A panic anywhere past admission unwinds through the deferred release; the
\* edge's recoverPanic answers, and nothing more is recorded.
Panic(r) ==
  /\ pc[r] \in Admitted
  /\ Return(r, "panicked")
  /\ ReleaseSlot(r)
  /\ UNCHANGED <<caller, requested, trail, faults, cancelled, expired, log>>

\* The environment: the caller hangs up, the total deadline passes.
HangUp(r) ==
  /\ pc[r] \notin {"idle", "done"}
  /\ ~cancelled[r]
  /\ cancelled' = [cancelled EXCEPT ![r] = TRUE]
  /\ UNCHANGED <<slotVars, caller, requested, pc, trail, faults, expired, log, outcome>>

DeadlinePasses(r) ==
  /\ pc[r] \in {"attempt", "next", "settle"}
  /\ ~expired[r]
  /\ expired' = [expired EXCEPT ![r] = TRUE]
  /\ UNCHANGED <<slotVars, caller, requested, pc, trail, faults, cancelled, log, outcome>>

AttemptEnds(r) ==
  \/ Complete(r)
  \/ \E kind \in Faults :
       \/ CallerGone(r, kind)
       \/ DeadlineExhausted(r, kind)
       \/ SetAside(r, kind)

\* What the handler of r does next, once it runs.
Step(r) ==
  \/ Allow(r) \/ Check(r) \/ Acquire(r) \/ StartPlan(r)
  \/ AttemptEnds(r) \/ FailOver(r) \/ GiveUp(r) \/ Settle(r)

Next == \E r \in Requests : Arrive(r) \/ Step(r) \/ Panic(r) \/ HangUp(r) \/ DeadlinePasses(r)

Spec == Init /\ [][Next]_vars

\* A handler that runs keeps running: it is a goroutine, the limiters answer
\* within the client's deadline, and every provider call ends by the per-try
\* deadline.  Nobody is obliged to call, to hang up or to be late.
Fairness == \A r \in Requests : WF_vars(Step(r))
FairSpec == Spec /\ Fairness
-----------------------------------------------------------------------------
\* A request holds a slot exactly from admission to return: every one of the
\* returns below TryAcquire gives it back (llm_gateway.go:259), none of those
\* above it does, whatever interrupts the request in between.
SlotHeldWhileAdmitted ==
  S!Held = {[id |-> r, app |-> caller[r]] : r \in {q \in Requests : pc[q] \in Admitted}}

\* Chat uses the slot limiter only through its port: seen from the limiter,
\* any run of the gateway is a run of Slots.
SlotsSpec == S!Spec

\* Counting handlers and not counters: no interleaving of requests has more of
\* an app's handlers past admission than its ceiling, or more handlers in all
\* than the global cap.
HandlersWithinCeilings ==
  LET Running(A) == {r \in Requests : pc[r] \in Admitted /\ caller[r] \in A}
  IN  /\ global > 0 => Cardinality(Running(Apps)) <= global
      /\ \A a \in Apps : ceilings[a] > 0 => Cardinality(Running({a})) <= ceilings[a]

\* At most one failover, and never a second attempt at the same provider,
\* however the plan repeats it (llm_gateway.go:193-196, 277-285).
AttemptsBounded ==
  \A r \in Requests :
    /\ Len(trail[r]) <= maxAttempts
    /\ \A i, j \in DOMAIN trail[r] :
         trail[r][i].provider = trail[r][j].provider => i = j

PolicyPermits(r, model) ==
  LET policy == PolicyOf[caller[r]]
  IN  \/ model = requested[r]
      \/ policy.kind = "any"
      \/ policy.kind = "allowlist" /\ model \in ToSet(policy.allowlist)

\* Every request of a known app leaves exactly one final fact behind, the one
\* its outcome calls for; an unknown caller leaves none, and a panic none but
\* the completion it came after (llm_gateway.go:287-337).
FinalEntries(r) ==
  {i \in DOMAIN log[r] : log[r][i].fact \in {"rejection", "completion", "disconnect"}}

FinalFactOf(out) ==
  CASE out \in {"served", "panicked"} -> "completion"
    [] out = "disconnected" -> "disconnect"
    [] OTHER -> "rejection"

RecordedOnce ==
  \A r \in Requests :
    /\ pc[r] \in Waiting \cup {"plan", "attempt", "next"} => FinalEntries(r) = {}
    /\ pc[r] = "done" =>
         IF outcome[r] = "unauthorized" THEN FinalEntries(r) = {}
         ELSE /\ Cardinality(FinalEntries(r)) <= 1
              /\ outcome[r] # "panicked" => FinalEntries(r) # {}
              /\ \A i \in FinalEntries(r) :
                   /\ log[r][i].fact = FinalFactOf(outcome[r])
                   /\ log[r][i].fact = "rejection" => log[r][i].code = outcome[r]

\* The attempts of r that failed in a way the provider may bill.
MayBeBilled(r) == {n \in DOMAIN faults[r] : billsDespiteFailure(faults[r][n])}
Pricings(r, n) ==
  {i \in DOMAIN log[r] : log[r][i].fact \in {"double_spend", "disconnect"} /\ log[r][i].attempt = n}

\* Unobserved spend is priced once per attempt: never twice, never for an
\* attempt that also completed, and never missed, except for the attempt a
\* 504 ended (llm_gateway.go:303-321).
SpendPricedOnce ==
  \A r \in Requests :
    /\ \A n \in 1..maxAttempts : Cardinality(Pricings(r, n)) <= 1
    /\ \A i \in DOMAIN log[r] :
         log[r][i].fact = "completion" => Pricings(r, log[r][i].attempt) = {}
    /\ \A n \in MayBeBilled(r) :
         (outcome[r] = "gateway_timeout" => n < Len(faults[r])) => Pricings(r, n) # {}

\* A 502 is never given while the gateway still had a provider it could have
\* tried, under any policy; a 503 is never given when two attempts were made or
\* when the policy excluded nothing (llm_gateway.go:326-337).
GiveUpIsExplained ==
  \A r \in Requests :
    /\ outcome[r] = "upstream_failed" =>
         Len(trail[r]) = maxAttempts \/ \A i \in DOMAIN Table : Table[i].provider \in Tried(r)
    /\ outcome[r] = "model_unavailable" =>
         /\ Len(trail[r]) < maxAttempts
         /\ \/ \A i \in DOMAIN Table : Table[i].model # requested[r]
            \/ \E i \in DOMAIN Table : ~PolicyPermits(r, Table[i].model)

\* Every request that got past authentication is answered, whatever the
\* limiters and the providers do.
HandlersReturn ==
  \A r \in Requests : pc[r] = "allow" ~> pc[r] = "done"

\* Once the callers stop, every slot comes back.
SlotsDrain == <>[](total = 0 /\ \A a \in Apps : inFlight[a] = 0)

-----------------------------------------------------------------------------
\* llm_gateway.go:343-346, of attempts that timed out, returned garbage or were
\* abandoned: "Those attempts are already priced in unobserved-spend".  Stated
\* for callers who stay, so that only the total deadline can break it.
BillableAttemptsPriced ==
  \A r \in Requests :
    ~cancelled[r] => \A n \in MayBeBilled(r) : Pricings(r, n) # {}
=============================================================================
