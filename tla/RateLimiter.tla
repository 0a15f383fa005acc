----------------------------- MODULE RateLimiter -----------------------------
(***************************************************************************)
(* internal/redis/limiter.go: Allow, called by the requests of several     *)
(* replicas.  The key is named when the call is made and the script runs   *)
(* when Redis gets to it: the client waits two seconds for the reply, and  *)
(* before that perhaps as long for a connection and for its handshake.  A  *)
(* command it gave up on may have run, may run later or may never run.     *)
(***************************************************************************)
EXTENDS FixedWindow

CONSTANTS Requests,
          Limit,      \* Limiter.limits; 0 and absent read the same
          Patience,   \* ticks a call lasts at most, from naming its key
          Lives       \* lifetimes of a key that a call in time can fall into

ASSUME RateAssumption ==
  /\ Limit \in [Apps -> Nat]
  /\ Patience \in Nat
  /\ Lives \in Nat

VARIABLES app, at,    \* the app and the replica of a request
          pc,
          key,        \* the key named by the call
          sentAt,     \* by Redis's clock
          verdict,    \* RateDecision, "open" standing for an error
          used,       \* QuotaDetail.Used, 0 where the client read no reply
          counted     \* history: the script ran for this request

callVars == <<app, at, pc, key, sentAt, verdict, used, counted>>
vars     == <<windowVars, callVars>>

NoKey == <<>>

TypeOK ==
  /\ WindowTypeOK
  /\ app \in [Requests -> Apps]
  /\ at \in [Requests -> Replicas]
  /\ pc \in [Requests -> {"idle", "sent", "abandoned", "done"}]
  /\ key \in [Requests -> Keys \cup {NoKey}]
  /\ sentAt \in [Requests -> 0..MaxTime]
  /\ verdict \in [Requests -> {"none", "allowed", "refused", "open"}]
  /\ used \in [Requests -> Nat]
  /\ counted \in [Requests -> BOOLEAN]

Init ==
  /\ WindowInit
  /\ app \in [Requests -> Apps]
  /\ at \in [Requests -> Replicas]
  /\ pc = [r \in Requests |-> "idle"]
  /\ key = [r \in Requests |-> NoKey]
  /\ sentAt = [r \in Requests |-> 0]
  /\ verdict = [r \in Requests |-> "none"]
  /\ used = [r \in Requests |-> 0]
  /\ counted = [r \in Requests |-> FALSE]

Metered(a) == Limit[a] > 0

\* A key begun again after every lifetime is in its Lives-th at most when the
\* last reply that is in time comes.
WithinLives == \A s, t \in Skews : Patience + s <= (Lives - 1) * (Window + Grace) + Grace + t

VerdictMutOneMore(a, n) == IF n <= Limit[a] + 1 THEN "allowed" ELSE "refused"
VerdictMutOneLess(a, n) == IF n < Limit[a] THEN "allowed" ELSE "refused"

Verdict(a, n) == IF n <= Limit[a] THEN "allowed" ELSE "refused"

\* Allow, up to the command: an unmetered app is answered without one.
Allow(r) ==
  /\ pc[r] = "idle"
  /\ \/ /\ ~Metered(app[r])
        /\ pc' = [pc EXCEPT ![r] = "done"]
        /\ verdict' = [verdict EXCEPT ![r] = "allowed"]
        /\ UNCHANGED <<key, sentAt>>
     \/ /\ Metered(app[r])
        /\ pc' = [pc EXCEPT ![r] = "sent"]
        /\ key' = [key EXCEPT ![r] = <<app[r], WindowOf(clock(at[r]))>>]
        /\ sentAt' = [sentAt EXCEPT ![r] = now]
        /\ UNCHANGED verdict
  /\ UNCHANGED <<windowVars, app, at, used, counted>>

RunScript(r) ==
  /\ Bump(key[r], 1)
  /\ counted' = [counted EXCEPT ![r] = TRUE]

\* The reply arrives in time, and Allow judges it.
Replied(r) ==
  /\ pc[r] = "sent"
  /\ now <= sentAt[r] + Patience
  /\ RunScript(r)
  /\ pc' = [pc EXCEPT ![r] = "done"]
  /\ used' = [used EXCEPT ![r] = Value(key[r]) + 1]
  /\ verdict' = [verdict EXCEPT ![r] = Verdict(app[r], Value(key[r]) + 1)]
  /\ UNCHANGED <<app, at, key, sentAt>>

\* The call fails: the core admits the request unmetered.  The script ran and
\* the reply was lost, or the command is still on its way, or it is lost too.
Fails(r) ==
  /\ pc[r] = "sent"
  /\ verdict' = [verdict EXCEPT ![r] = "open"]
  /\ \/ /\ RunScript(r)
        /\ pc' = [pc EXCEPT ![r] = "done"]
     \/ /\ pc' = [pc EXCEPT ![r] = "abandoned"]
        /\ UNCHANGED <<windowVars, counted>>
  /\ UNCHANGED <<app, at, key, sentAt, used>>

\* Redis reaches a command nobody waits for any more.
Straggles(r) ==
  /\ pc[r] = "abandoned"
  /\ RunScript(r)
  /\ pc' = [pc EXCEPT ![r] = "done"]
  /\ UNCHANGED <<app, at, key, sentAt, verdict, used>>

Next ==
  \/ Tick /\ UNCHANGED callVars
  \/ \E r \in Requests : Allow(r) \/ Replied(r) \/ Fails(r) \/ Straggles(r)

Spec == Init /\ [][Next]_vars
-----------------------------------------------------------------------------
Judged(a, w, v) == {r \in Requests : verdict[r] = v /\ key[r] = <<a, w>>}

\* One budget across the deployment: however the replicas' calls interleave,
\* whatever replies are lost and however late commands run, the requests
\* metered and admitted in a window of an app do not exceed its quota while the
\* window is still open by any replica's clock (limiter.go:26-37).
QuotaHoldsWhileOpen ==
  \A a \in Apps, w \in Windows :
    (Metered(a) /\ \E p \in Replicas : WindowOf(clock(p)) <= w)
      => Cardinality(Judged(a, w, "allowed")) <= Limit[a]

\* Once it is over, a command the client still waits for can begin the key
\* again and be admitted on it; what that can add to the window's admissions is
\* bounded by the lifetimes such a command can fall into (client.go:105-109).
LateAdmissionsBounded ==
  \A a \in Apps, w \in Windows :
    Metered(a) => Cardinality(Judged(a, w, "allowed")) <= Lives * Limit[a]

\* No refusal is unearned: a request is refused only after a full quota of
\* other requests of its app was counted in its window, and is told so.
RefusalsAreEarned ==
  \A r \in Requests :
    verdict[r] = "refused" =>
      LET others == {q \in Requests \ {r} : counted[q] /\ key[q] = key[r]}
      IN  /\ Cardinality(others) >= Limit[app[r]]
          /\ used[r] <= Cardinality(others) + 1

-----------------------------------------------------------------------------
\* client.go:1-3: "fixed-window counters shared by every replica, so an app's 60
\* rps is one budget across the deployment", for the window a request was
\* counted in, late commands included.
RateQuotaHolds ==
  \A a \in Apps, w \in Windows :
    Metered(a) => Cardinality(Judged(a, w, "allowed")) <= Limit[a]
=============================================================================
