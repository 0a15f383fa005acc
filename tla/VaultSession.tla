----------------------------- MODULE VaultSession -----------------------------
(***************************************************************************)
(* internal/providerkeys/vault.go: one Vault session, a leased token       *)
(* behind a mutex, shared by every fetch in progress (the boot's, each     *)
(* provider's loop, each trigger).  A fetch is cut at every call that      *)
(* leaves the process and at every section under the mutex: tokens are     *)
(* granted by Vault in one order and stored in another, and a lease may    *)
(* end between any two steps.                                              *)
(***************************************************************************)
EXTENDS Naturals

CONSTANTS Fetchers,   \* fetches that can be in progress at once
          Values,     \* what the secret may hold
          Tokens,     \* Vault tokens; one nobody holds may be granted again
          none        \* v.token == ""

ASSUME SessionAssumption == none \notin Tokens

VARIABLES content,    \* what the path holds
          vault,      \* "ok"; "denying": our role or policy is refused;
                      \* "down": no answer, or none that can be used
          live,       \* the tokens whose lease runs
          token,      \* Vault.token
          pc,         \* where each Fetch is
          hand,       \* its local token, while it has a use for it
          result,     \* what it returns
          seen,       \* history: what the secret has held since the call
          trouble     \* history: the fetch met more than the end of an old lease

sessionVars == <<content, vault, live, token>>
fetchVars   == <<pc, hand, result>>
history     == <<seen, trouble>>
vaultVars   == <<sessionVars, fetchVars, history>>

Failed == [ok |-> FALSE]
Got(v) == [ok |-> TRUE, value |-> v]
Result == {Got(v) : v \in Values} \cup {Failed}

\* login, granted and read are the first round; the others the one retry.
Running == {"login", "granted", "read", "relogin", "regranted", "reread"}

VaultTypeOK ==
  /\ content \in Values
  /\ vault \in {"ok", "denying", "down"}
  /\ live \subseteq Tokens
  /\ token \in Tokens \cup {none}
  /\ pc \in [Fetchers -> Running \cup {"idle", "done"}]
  /\ hand \in [Fetchers -> Tokens \cup {none}]
  /\ result \in [Fetchers -> Result]
  /\ seen \in [Fetchers -> SUBSET Values]
  /\ trouble \in [Fetchers -> BOOLEAN]

\* NewVault: the session starts without a token; the first read obtains one.
VaultInit ==
  /\ content \in Values
  /\ vault \in {"ok", "denying", "down"}
  /\ live = {}
  /\ token = none
  /\ pc = [f \in Fetchers |-> "idle"]
  /\ hand = [f \in Fetchers |-> none]
  /\ result = [f \in Fetchers |-> Failed]
  /\ seen = [f \in Fetchers |-> {}]
  /\ trouble = [f \in Fetchers |-> FALSE]

InProgress(f) == pc[f] \in Running

-----------------------------------------------------------------------------
\* The environment: rotations of the secret, Vault's health, leases that end.
Write(v) ==
  /\ content' = v
  /\ seen' = [f \in Fetchers |-> IF InProgress(f) THEN seen[f] \cup {v} ELSE seen[f]]
  /\ UNCHANGED <<vault, live, token, fetchVars, trouble>>

VaultTurns(s) ==
  /\ vault' = s
  /\ trouble' = [f \in Fetchers |-> trouble[f] \/ (InProgress(f) /\ s # "ok")]
  /\ UNCHANGED <<content, live, token, fetchVars, seen>>

\* The end of a lease is trouble only to the fetch whose retry rests on it.
LeaseEnds(t) ==
  /\ t \in live
  /\ live' = live \ {t}
  /\ trouble' = [f \in Fetchers |->
                   trouble[f] \/ (pc[f] \in {"regranted", "reread"} /\ hand[f] = t)]
  /\ UNCHANGED <<content, vault, token, fetchVars, seen>>

-----------------------------------------------------------------------------
\* Fetch up to its first call: currentToken reads v.token under the mutex.
Fetch(f) ==
  /\ pc[f] = "idle"
  /\ hand' = [hand EXCEPT ![f] = token]
  /\ pc' = [pc EXCEPT ![f] = IF token = none THEN "login" ELSE "read"]
  /\ seen' = [seen EXCEPT ![f] = {content}]
  /\ trouble' = [trouble EXCEPT ![f] = vault # "ok"]
  /\ UNCHANGED <<sessionVars, result>>

Returns(f, r) ==
  /\ pc' = [pc EXCEPT ![f] = "done"]
  /\ result' = [result EXCEPT ![f] = r]
  /\ hand' = [hand EXCEPT ![f] = none]
  /\ UNCHANGED <<history, sessionVars>>

\* reauthenticate: Vault grants a token nobody holds.
LoginGranted(f, t) ==
  /\ pc[f] \in {"login", "relogin"}
  /\ vault # "down"
  /\ t \notin {token} \cup {hand[g] : g \in Fetchers}
  /\ live' = live \cup {t}
  /\ hand' = [hand EXCEPT ![f] = t]
  /\ pc' = [pc EXCEPT ![f] = IF pc[f] = "login" THEN "granted" ELSE "regranted"]
  /\ UNCHANGED <<content, vault, token, result, seen, trouble>>

\* No answer, any status but 200, a body that cannot be read or holds no
\* client token, or no ServiceAccount token to log in with.
LoginFails(f) ==
  /\ pc[f] \in {"login", "relogin", "granted", "regranted"}
  /\ vault # "ok"
  /\ Returns(f, Failed)

StoreMutForgets(f) ==
  /\ pc[f] \in {"granted", "regranted"}
  /\ pc' = [pc EXCEPT ![f] = IF pc[f] = "granted" THEN "read" ELSE "reread"]
  /\ UNCHANGED <<sessionVars, hand, result, history>>

\* The answer arrived: the token replaces whichever is there, an older or a
\* newer one.
Store(f) ==
  /\ pc[f] \in {"granted", "regranted"}
  /\ token' = hand[f]
  /\ pc' = [pc EXCEPT ![f] = IF pc[f] = "granted" THEN "read" ELSE "reread"]
  /\ UNCHANGED <<content, vault, live, hand, result, history>>

ReadServedMutCachedValue(f) ==
  /\ pc[f] \in {"read", "reread"}
  /\ vault = "ok" /\ hand[f] \in live
  /\ \E v \in Values : Returns(f, Got(v))

\* The secret is read at this moment, with a token Vault accepts.
ReadServed(f) ==
  /\ pc[f] \in {"read", "reread"}
  /\ vault = "ok" /\ hand[f] \in live
  /\ Returns(f, Got(content))

\* A status other than 401 and 403, no answer at all, a body that cannot be
\* decoded or has no key field: not retried.
ReadFails(f) ==
  /\ pc[f] \in {"read", "reread"}
  /\ vault = "down"
  /\ Returns(f, Failed)

Rejects(f) == vault = "denying" \/ (vault = "ok" /\ hand[f] \notin live)

ReadRejectedMutNoRetry(f) ==
  /\ pc[f] \in {"read", "reread"}
  /\ Rejects(f)
  /\ Returns(f, Failed)

\* 401 or 403, whatever became of its body: the first one means log in again,
\* the second one travels.
ReadRejected(f) ==
  /\ pc[f] \in {"read", "reread"}
  /\ Rejects(f)
  /\ \/ /\ pc[f] = "read"
        /\ pc' = [pc EXCEPT ![f] = "relogin"]
        /\ hand' = [hand EXCEPT ![f] = none]
        /\ UNCHANGED <<sessionVars, result, history>>
     \/ /\ pc[f] = "reread"
        /\ Returns(f, Failed)

\* Fetch has returned to Cache.Refresh.
Return(f) ==
  /\ pc[f] = "done"
  /\ pc' = [pc EXCEPT ![f] = "idle"]
  /\ result' = [result EXCEPT ![f] = Failed]
  /\ seen' = [seen EXCEPT ![f] = {}]
  /\ trouble' = [trouble EXCEPT ![f] = FALSE]
  /\ UNCHANGED <<sessionVars, hand>>

FetchMoves(f) ==
  \/ \E t \in Tokens : LoginGranted(f, t)
  \/ LoginFails(f) \/ Store(f) \/ ReadServed(f) \/ ReadFails(f) \/ ReadRejected(f)

VaultNext ==
  \/ \E v \in Values : Write(v)
  \/ \E s \in {"ok", "denying", "down"} : VaultTurns(s)
  \/ \E t \in Tokens : LeaseEnds(t)
  \/ \E f \in Fetchers : Fetch(f) \/ FetchMoves(f) \/ Return(f)

VaultSpec == VaultInit /\ [][VaultNext]_vaultVars

\* A fetch in progress goes on: every call it makes ends by the caller's
\* fetchTimeout.  The loops keep asking; nothing obliges leases to end.
VaultFairness ==
  \A f \in Fetchers : WF_vaultVars(FetchMoves(f)) /\ WF_vaultVars(Fetch(f) \/ Return(f))
VaultFairSpec == VaultSpec /\ VaultFairness
-----------------------------------------------------------------------------
Phase(f) == CASE pc[f] = "idle" -> "idle" [] pc[f] = "done" -> "done" [] OTHER -> "running"

Source == INSTANCE SecretSource
            WITH secret <- content, phase <- [f \in Fetchers |-> Phase(f)]

\* Seen from the cache, a Vault session is a plain secret source: whatever
\* tokens were shared, replaced or retried, a fetch gives a value the secret
\* held while the fetch was in progress (vault.go:94-115).
ImplementsSource == Source!Spec

\* "the expected end of a lease, not a failure worth propagating"
\* (vault.go:90-93): a fetch fails only if Vault was down or denying while it
\* ran, or ended the very lease its one retry had obtained.
FailureHasACause ==
  \A f \in Fetchers : pc[f] = "done" /\ ~result[f].ok => trouble[f]

\* Once Vault stays well and no lease ends, logins stop: a dead token left in
\* the session by a late login costs each fetch at most its one retry, and
\* never again (vault.go:224-226).
SessionSettles ==
  (<>[](vault = "ok") /\ <>[][\A t \in Tokens : ~LeaseEnds(t)]_vaultVars)
    => <>[](\A f \in Fetchers : pc[f] \notin {"login", "relogin"})
=============================================================================
