----------------------------- MODULE SecretSource -----------------------------
(***************************************************************************)
(* What the credential cache may rely on when it calls Fetcher.Fetch       *)
(* (internal/providerkeys/cache.go): a fetch that has been asked for gives *)
(* a value the secret had at some moment between the call and the answer,  *)
(* or an error.  It never gives a value from before the call, whatever     *)
(* session, token or retry it takes to read it.                            *)
(***************************************************************************)
CONSTANTS Fetchers,   \* calls that can be in progress at once
          Values      \* what the secret may hold

VARIABLES secret,     \* what it holds now
          phase,      \* where each call is
          seen,       \* what the secret has held since the call began
          result      \* what the call gave

vars == <<secret, phase, seen, result>>

Failed   == [ok |-> FALSE]
Got(v)   == [ok |-> TRUE, value |-> v]
Result   == {Got(v) : v \in Values} \cup {Failed}

Init ==
  /\ secret \in Values
  /\ phase = [f \in Fetchers |-> "idle"]
  /\ seen = [f \in Fetchers |-> {}]
  /\ result = [f \in Fetchers |-> Failed]

\* An operator writes the secret.
Write(v) ==
  /\ secret' = v
  /\ seen' = [f \in Fetchers |-> IF phase[f] = "running" THEN seen[f] \cup {v} ELSE seen[f]]
  /\ UNCHANGED <<phase, result>>

Call(f) ==
  /\ phase[f] = "idle"
  /\ phase' = [phase EXCEPT ![f] = "running"]
  /\ seen' = [seen EXCEPT ![f] = {secret}]
  /\ UNCHANGED <<secret, result>>

Answer(f) ==
  /\ phase[f] = "running"
  /\ phase' = [phase EXCEPT ![f] = "done"]
  /\ \E r \in {Got(v) : v \in seen[f]} \cup {Failed} : result' = [result EXCEPT ![f] = r]
  /\ UNCHANGED <<secret, seen>>

\* The caller takes the answer.
Return(f) ==
  /\ phase[f] = "done"
  /\ phase' = [phase EXCEPT ![f] = "idle"]
  /\ seen' = [seen EXCEPT ![f] = {}]
  /\ result' = [result EXCEPT ![f] = Failed]
  /\ UNCHANGED secret

Next ==
  \/ \E v \in Values : Write(v)
  \/ \E f \in Fetchers : Call(f) \/ Answer(f) \/ Return(f)

Spec == Init /\ [][Next]_vars
=============================================================================
