----------------------------- MODULE SigningKeys -----------------------------
(***************************************************************************)
(* internal/auth: the cache of the cluster's ServiceAccount signing keys,  *)
(* its single refresh loop and the verification that reads it.  The issuer *)
(* publishes and withdraws keys at any time; a refresh reads its document  *)
(* at one moment and replaces the cache at a later one.                    *)
(***************************************************************************)
CONSTANT Kids         \* key ids

VARIABLES published,  \* the usable RSA keys of the issuer's document
          endpoint,   \* "ok", or "bad": no answer, a status but 200, a body
                      \* that does not decode or holds one malformed RSA key
          keys,       \* JWKSCache.keys, by kid; loadedAt is zero while it is {}
          fetch,      \* the refresh in progress
          gone        \* history: keys not published at any moment since it began

keyVars == <<published, endpoint, keys, fetch, gone>>

NoFetch == [phase |-> "none", got |-> {}]

KeysTypeOK ==
  /\ published \subseteq Kids
  /\ endpoint \in {"ok", "bad"}
  /\ keys \subseteq Kids
  /\ fetch \in [phase : {"none", "asked", "read"}, got : SUBSET Kids]
  /\ gone \subseteq Kids

\* NewJWKSCache: empty, so not ready.
KeysInit ==
  /\ published \in SUBSET Kids
  /\ endpoint \in {"ok", "bad"}
  /\ keys = {}
  /\ fetch = NoFetch
  /\ gone = {}

-----------------------------------------------------------------------------
\* The issuer rotates, and its endpoint comes and goes.
Publish(ks) ==
  /\ published' = ks
  /\ gone' = gone \ ks
  /\ UNCHANGED <<endpoint, keys, fetch>>

EndpointTurns(s) ==
  /\ endpoint' = s
  /\ UNCHANGED <<published, keys, fetch, gone>>

\* KeepFresh: at once, then at each tick, one refresh after the other.
RefreshStarts ==
  /\ fetch = NoFetch
  /\ fetch' = [phase |-> "asked", got |-> {}]
  /\ gone' = Kids \ published
  /\ UNCHANGED <<published, endpoint, keys>>

\* The document is read.  Keys of another kind or without a kid are skipped:
\* they are not among the published ones here.
DocumentRead ==
  /\ fetch.phase = "asked"
  /\ endpoint = "ok"
  /\ fetch' = [phase |-> "read", got |-> published]
  /\ UNCHANGED <<published, endpoint, keys, gone>>

\* Any error leaves the keys alone, and the loop goes on.
RefreshFails ==
  /\ fetch.phase = "asked"
  /\ fetch' = NoFetch
  /\ gone' = {}
  /\ UNCHANGED <<published, endpoint, keys>>

RefreshLandsMutMerges ==
  /\ fetch.phase = "read"
  /\ keys' = keys \cup fetch.got
  /\ fetch' = NoFetch
  /\ gone' = {}
  /\ UNCHANGED <<published, endpoint>>

RefreshLandsMutLoadsOnce ==
  /\ fetch.phase = "read"
  /\ keys' = IF keys = {} THEN fetch.got ELSE keys
  /\ fetch' = NoFetch
  /\ gone' = {}
  /\ UNCHANGED <<published, endpoint>>

RefreshLandsMutEmpties ==
  /\ fetch.phase = "read"
  /\ keys' = fetch.got
  /\ fetch' = NoFetch
  /\ gone' = {}
  /\ UNCHANGED <<published, endpoint>>

\* A document without a usable key is an error; any other replaces the cache.
RefreshLands ==
  /\ fetch.phase = "read"
  /\ keys' = IF fetch.got = {} THEN keys ELSE fetch.got
  /\ fetch' = NoFetch
  /\ gone' = {}
  /\ UNCHANGED <<published, endpoint>>

\* JWKSCache.Ready.
KeysReady == keys # {}

-----------------------------------------------------------------------------
\* A presented token that is sound in itself: RS256, with a genuine signature of
\* its key's, for our audience, current and of a subject that the configuration
\* names.  What is left to verifyToken depends on the cache and on the boot.
verifyToken(kid, issuer) == kid \in keys /\ issuer = "configured"

AppForKey(kid, issuer) == verifyToken(kid, issuer)
=============================================================================
