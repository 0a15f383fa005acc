----------------------------- MODULE TokenLimiter -----------------------------
(***************************************************************************)
(* internal/redis/tokenlimiter.go: Check before a request is admitted and  *)
(* Settle after it was served, with the slot it holds in between, since    *)
(* the slot ceiling is what the code relies on to bound the overshoot.     *)
(* Slots are counted per replica.  A call names its key when it is made    *)
(* and Redis runs its script later.                                        *)
(***************************************************************************)
EXTENDS FixedWindow

CONSTANTS Requests,
          Budget,     \* TokenLimiter.budgets; 0 and absent read the same
          Ceiling,    \* slots.Limiter.ceilings
          Costs,      \* the tokens a completion may cost
          Patience,   \* ticks the client waits for a reply
          Outages     \* whether calls to Redis may fail

ASSUME TokenAssumption ==
  /\ Budget \in [Apps -> Nat]
  /\ Ceiling \in [Apps -> Nat]
  /\ Costs \subseteq Nat
  /\ Patience \in Nat
  /\ Outages \in BOOLEAN

VARIABLES app, at,    \* the app and the replica of a request
          pc,
          checkKey,   \* the key Check named
          debitKey,   \* the key Settle named
          sentAt,     \* when the call in progress was made, by Redis's clock; else 0
          verdict,    \* Check's answer, "open" standing for an error
          cost        \* what the completion cost

callVars == <<app, at, pc, checkKey, debitKey, sentAt, verdict, cost>>
vars     == <<windowVars, callVars>>

NoKey == <<>>

TypeOK ==
  /\ WindowTypeOK
  /\ app \in [Requests -> Apps]
  /\ at \in [Requests -> Replicas]
  /\ pc \in [Requests -> {"idle", "checking", "checked", "running", "settling",
                          "straggling", "done"}]
  /\ checkKey \in [Requests -> Keys \cup {NoKey}]
  /\ debitKey \in [Requests -> Keys \cup {NoKey}]
  /\ sentAt \in [Requests -> 0..MaxTime]
  /\ verdict \in [Requests -> {"none", "allowed", "refused", "open"}]
  /\ cost \in [Requests -> Costs \cup {0}]

Init ==
  /\ WindowInit
  /\ app \in [Requests -> Apps]
  /\ at \in [Requests -> Replicas]
  /\ pc = [r \in Requests |-> "idle"]
  /\ checkKey = [r \in Requests |-> NoKey]
  /\ debitKey = [r \in Requests |-> NoKey]
  /\ sentAt = [r \in Requests |-> 0]
  /\ verdict = [r \in Requests |-> "none"]
  /\ cost = [r \in Requests |-> 0]

Metered(a) == Budget[a] > 0

\* The counter for the window the replica's clock is in now.
keyAt(r) == <<app[r], WindowOf(clock(at[r]))>>

Goto(r, label) == pc' = [pc EXCEPT ![r] = label]

\* Check, up to the command.
Check(r) ==
  /\ pc[r] = "idle"
  /\ \/ /\ ~Metered(app[r])
        /\ Goto(r, "checked")
        /\ verdict' = [verdict EXCEPT ![r] = "allowed"]
        /\ UNCHANGED <<checkKey, sentAt>>
     \/ /\ Metered(app[r])
        /\ Goto(r, "checking")
        /\ checkKey' = [checkKey EXCEPT ![r] = keyAt(r)]
        /\ sentAt' = [sentAt EXCEPT ![r] = now]
        /\ UNCHANGED verdict
  /\ UNCHANGED <<windowVars, app, at, debitKey, cost>>

\* "At or above" refuses: the question is whether the window is already spent.
VerdictMutAbove(a, spent) == IF spent <= Budget[a] THEN "allowed" ELSE "refused"

Verdict(a, spent) == IF spent < Budget[a] THEN "allowed" ELSE "refused"

CheckReplied(r) ==
  /\ pc[r] = "checking"
  /\ now <= sentAt[r] + Patience
  /\ LET v == Verdict(app[r], Value(checkKey[r]))
     IN  /\ verdict' = [verdict EXCEPT ![r] = v]
         /\ Goto(r, IF v = "allowed" THEN "checked" ELSE "done")
  /\ sentAt' = [sentAt EXCEPT ![r] = 0]
  /\ UNCHANGED <<windowVars, app, at, checkKey, debitKey, cost>>

\* The core admits the request unmetered.
CheckFails(r) ==
  /\ Outages
  /\ pc[r] = "checking"
  /\ verdict' = [verdict EXCEPT ![r] = "open"]
  /\ Goto(r, "checked")
  /\ sentAt' = [sentAt EXCEPT ![r] = 0]
  /\ UNCHANGED <<windowVars, app, at, checkKey, debitKey, cost>>

\* The slot, on the request's own replica: 0 means no ceiling.
HoldsSlot == {q \in Requests : pc[q] \in {"running", "settling"}}

TryAcquire(r) ==
  /\ pc[r] = "checked"
  /\ LET held == {q \in HoldsSlot : at[q] = at[r] /\ app[q] = app[r]}
         full == Ceiling[app[r]] > 0 /\ Cardinality(held) >= Ceiling[app[r]]
     IN  Goto(r, IF full THEN "done" ELSE "running")
  /\ UNCHANGED <<windowVars, app, at, checkKey, debitKey, sentAt, verdict, cost>>

\* Settle, up to the command: nothing to debit costs no round trip.
Settle(r, tokens) ==
  /\ pc[r] = "running"
  /\ cost' = [cost EXCEPT ![r] = tokens]
  /\ \/ /\ ~Metered(app[r]) \/ tokens = 0
        /\ Goto(r, "done")
        /\ UNCHANGED <<debitKey, sentAt>>
     \/ /\ Metered(app[r]) /\ tokens > 0
        /\ Goto(r, "settling")
        /\ debitKey' = [debitKey EXCEPT ![r] = keyAt(r)]
        /\ sentAt' = [sentAt EXCEPT ![r] = now]
  /\ UNCHANGED <<windowVars, app, at, checkKey, verdict>>

\* The request that failed to learn of its debit gives its slot back all the
\* same; the debit may still land.
SettleReplied(r) ==
  /\ pc[r] = "settling"
  /\ now <= sentAt[r] + Patience
  /\ Bump(debitKey[r], cost[r])
  /\ Goto(r, "done")
  /\ sentAt' = [sentAt EXCEPT ![r] = 0]
  /\ UNCHANGED <<app, at, checkKey, debitKey, verdict, cost>>

SettleFails(r) ==
  /\ Outages
  /\ pc[r] = "settling"
  /\ Goto(r, "straggling")
  /\ sentAt' = [sentAt EXCEPT ![r] = 0]
  /\ UNCHANGED <<windowVars, app, at, checkKey, debitKey, verdict, cost>>

SettleStraggles(r) ==
  /\ pc[r] = "straggling"
  /\ Bump(debitKey[r], cost[r])
  /\ Goto(r, "done")
  /\ UNCHANGED <<app, at, checkKey, debitKey, sentAt, verdict, cost>>

Next ==
  \/ Tick /\ UNCHANGED callVars
  \/ \E r \in Requests :
       \/ Check(r) \/ CheckReplied(r) \/ CheckFails(r)
       \/ TryAcquire(r)
       \/ \E tokens \in Costs : Settle(r, tokens)
       \/ SettleReplied(r) \/ SettleFails(r) \/ SettleStraggles(r)

Spec == Init /\ [][Next]_vars
-----------------------------------------------------------------------------
\* A verdict is about the window's whole settled spend, on every replica: a
\* check refuses only once the budget has been debited in its window, and passes
\* only while less has been, unless the reply is so late that the window is over
\* by every clock and its key may be gone (tokenlimiter.go:66-73).
VerdictsFollowSettledSpend ==
  [][\A r \in Requests :
       (verdict[r] = "none" /\ Metered(app[r])) =>
         /\ verdict'[r] = "refused" => tally[checkKey[r]] >= Budget[app[r]]
         /\ verdict'[r] = "allowed" =>
              \/ tally[checkKey[r]] < Budget[app[r]]
              \/ \A p \in Replicas : WindowOf(clock(p)) > checkKey[r][2]]_vars

-----------------------------------------------------------------------------
Dearest == CHOOSE c \in Costs : \A d \in Costs : d <= c

=============================================================================
