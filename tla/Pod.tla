--------------------------------- MODULE Pod ---------------------------------
(***************************************************************************)
(* One life after another of the gateway process: cmd/gateway/main.go run, *)
(* with the readiness of internal/health, the server of internal/api and   *)
(* the requests it carries, from the configuration to the end of the       *)
(* drain.  The signing keys are the module SigningKeys; the credential     *)
(* cache, which never loses what it loaded (ProviderKeys), is one Boolean. *)
(* Time passes in ticks; a stage of a request lasts at most its deadline.  *)
(***************************************************************************)
EXTENDS SigningKeys, Naturals

CONSTANTS Requests,             \* connections a client may open at once
          WriteTimeouts,        \* values of server.write_timeout; 0: unset
          HeaderTime,           \* http.Server.ReadHeaderTimeout, configurable
          ReadTime,             \* http.Server.ReadTimeout
          LimiterTime,          \* what the two limiter calls may take
          TotalDeadline,        \* the largest total deadline of an app
          defaultWriteTimeout, defaultDrainTimeout, drainGrace

\* The defaults are 5 s of headers, 90 s, 100 s and 10 s.  HeaderTime is
\* server.read_header_timeout (config.go:179): the two conditions on it are asked
\* of the operator, for nothing in the code compares it with the drain constants.
ASSUME PodAssumption ==
  /\ WriteTimeouts \subseteq Nat
  /\ HeaderTime \in Nat /\ ReadTime \in Nat /\ LimiterTime \in Nat
  /\ TotalDeadline \in Nat /\ drainGrace \in Nat
  /\ defaultWriteTimeout \in Nat /\ defaultDrainTimeout \in Nat
  /\ HeaderTime <= drainGrace
  /\ defaultWriteTimeout > 0
  /\ defaultWriteTimeout + HeaderTime <= defaultDrainTimeout

VARIABLES cfg,        \* what the configuration file says
          phase,      \* where run is
          signalled,  \* SIGTERM was received: ctx is done
          blind,      \* the issuer could not be verified at boot
          checks,     \* the readiness conditions registered
          loaded,     \* some provider key has loaded
          draining,   \* ticks since Shutdown was called
          req         \* the requests

procVars == <<cfg, phase, signalled, blind, checks, loaded, draining>>
vars     == <<keyVars, procVars, req>>

\* rightIssuer: auth.issuer is the cluster's; sourced: some provider has a
\* secret source.
Cfg == [write : WriteTimeouts, rightIssuer : BOOLEAN, sourced : BOOLEAN]

\* api.New's default, and the drain budget main derives from the same value.
WriteTimeout == IF cfg.write > 0 THEN cfg.write ELSE defaultWriteTimeout

DrainBudgetMutNoGrace == IF cfg.write > 0 THEN cfg.write ELSE defaultDrainTimeout

DrainBudget == IF cfg.write > 0 THEN cfg.write + drainGrace ELSE defaultDrainTimeout

\* headers and body are read, the limiters asked, the completion bought and
\* settled.  age counts from the end of the headers, spent within a stage.
Stages  == {"headers", "body", "limits", "budget"}
NoReq   == [at |-> "none", age |-> 0, spent |-> 0]
Request == [at : Stages \cup {"none", "answered", "lost"}, age : Nat, spent : Nat]

Booting == {"load", "directory", "provider", "limiters", "core", "listen"}
Exited  == {"failed", "stopped", "cut"}
Alive   == phase \notin Exited

TypeOK ==
  /\ KeysTypeOK
  /\ cfg \in Cfg
  /\ phase \in Booting \cup {"serving", "draining"} \cup Exited
  /\ signalled \in BOOLEAN /\ blind \in BOOLEAN /\ loaded \in BOOLEAN
  /\ checks \subseteq {"jwks", "provider-keys"}
  /\ draining \in Nat
  /\ req \in [Requests -> Request]

Boot ==
  /\ cfg' \in Cfg
  /\ phase' = "load"
  /\ signalled' = FALSE
  /\ blind' = FALSE
  /\ checks' = {}
  /\ loaded' = FALSE
  /\ draining' = 0
  /\ req' = [r \in Requests |-> NoReq]

Init ==
  /\ KeysInit
  /\ cfg \in Cfg
  /\ phase = "load"
  /\ signalled = FALSE
  /\ blind = FALSE
  /\ checks = {}
  /\ loaded = FALSE
  /\ draining = 0
  /\ req = [r \in Requests |-> NoReq]

-----------------------------------------------------------------------------
\* The boot, one step per constructor; any of them may refuse and end run.
Fails ==
  /\ phase' = "failed"
  /\ UNCHANGED <<cfg, signalled, blind, checks, loaded, draining>>

\* config.Load; the signal handler is installed right after.
Load ==
  /\ phase = "load"
  /\ \/ Fails
     \/ /\ phase' = "directory"
        /\ UNCHANGED <<cfg, signalled, blind, checks, loaded, draining>>
  /\ UNCHANGED <<keyVars, req>>

NewAppDirectoryMutWaits ==
  /\ phase = "directory"
  /\ endpoint = "ok"
  /\ \/ Fails
     \/ /\ cfg.rightIssuer
        /\ checks' = checks \cup {"jwks"}
        /\ phase' = "provider"
        /\ UNCHANGED <<cfg, signalled, blind, loaded, draining>>
  /\ UNCHANGED <<keyVars, req>>

NewAppDirectoryMutServesMismatch ==
  /\ phase = "directory"
  /\ phase' = "provider"
  /\ checks' = checks \cup {"jwks"}
  /\ UNCHANGED <<blind, keyVars, req, cfg, signalled, loaded, draining>>

\* newAppDirectory: VerifyIssuer reads the cluster's discovery document once.
\* A definite mismatch ends the boot, as does a cluster CA that cannot be read
\* or an empty setting; a document that cannot be read is only a warning.
NewAppDirectory ==
  /\ phase = "directory"
  /\ \/ Fails
     \/ /\ \/ cfg.rightIssuer /\ endpoint = "ok" /\ ~signalled /\ UNCHANGED blind
           \/ (endpoint = "bad" \/ signalled) /\ blind' = TRUE
        /\ checks' = checks \cup {"jwks"}
        /\ phase' = "provider"
        /\ UNCHANGED <<cfg, signalled, loaded, draining>>
  /\ UNCHANGED <<keyVars, req>>

NewProviderClientMutNoCheck ==
  /\ phase = "provider"
  /\ loaded' \in {FALSE, cfg.sourced}
  /\ phase' = "limiters"
  /\ UNCHANGED <<cfg, signalled, blind, checks, draining, keyVars, req>>

\* newProviderClient: readiness is registered, then RefreshAll tries every
\* source once, and a failed load is not fatal.
NewProviderClient ==
  /\ phase = "provider"
  /\ \/ Fails
     \/ /\ checks' = checks \cup {"provider-keys"}
        /\ loaded' \in {FALSE, cfg.sourced}
        /\ phase' = "limiters"
        /\ UNCHANGED <<cfg, signalled, blind, draining>>
  /\ UNCHANGED <<keyVars, req>>

\* newLimiters (a Redis password or CA that cannot be read is fatal), then the
\* core, the metrics exporter and the server.
Assemble(from, to) ==
  /\ phase = from
  /\ \/ Fails
     \/ /\ phase' = to
        /\ UNCHANGED <<cfg, signalled, blind, checks, loaded, draining>>
  /\ UNCHANGED <<keyVars, req>>

NewLimiters == Assemble("limiters", "core")
NewCore     == Assemble("core", "listen")

\* Server.Start in its goroutine: bind, or report on serveErr.
Start == Assemble("listen", "serving")

\* Serve gives up by itself: run returns at once, without a drain.
ServeFails ==
  /\ phase = "serving"
  /\ Fails
  /\ UNCHANGED <<keyVars, req>>

\* The supervisor restarts the container, perhaps with another configuration.
Restart ==
  /\ phase \in Exited
  /\ Boot
  /\ keys' = {} /\ fetch' = NoFetch /\ gone' = {}
  /\ UNCHANGED <<published, endpoint>>

-----------------------------------------------------------------------------
\* The signing keys' loop runs from newAppDirectory until ctx is done; a
\* refresh in progress then fails, unless its answer had already come.
Looping == Alive /\ phase \notin {"load", "directory"}

RefreshKeys ==
  /\ Looping
  /\ \/ ~signalled /\ (RefreshStarts \/ DocumentRead)
     \/ (endpoint = "bad" \/ signalled) /\ RefreshFails
     \/ RefreshLands
  /\ UNCHANGED <<procVars, req>>

Issuer ==
  /\ \/ \E ks \in SUBSET Kids : Publish(ks)
     \/ \E s \in {"ok", "bad"} : EndpointTurns(s)
  /\ UNCHANGED <<procVars, req>>

\* A loop or a trigger of the credential cache loads the first key.
ProviderKeyLoads ==
  /\ Alive /\ phase \in {"limiters", "core", "listen", "serving", "draining"}
  /\ ~loaded /\ cfg.sourced
  /\ loaded' = TRUE
  /\ UNCHANGED <<keyVars, cfg, phase, signalled, blind, checks, draining, req>>

Holds(c) == CASE c = "jwks" -> KeysReady
              [] c = "provider-keys" -> cfg.sourced => loaded

\* health.Checker.Ready, as GET /readyz answers it.
Ready == phase = "serving" /\ \A c \in checks : Holds(c)

-----------------------------------------------------------------------------
\* A signal cancels ctx; before the handler is installed it kills.
Signal ==
  /\ Alive /\ phase # "load"
  /\ ~signalled
  /\ signalled' = TRUE
  /\ UNCHANGED <<keyVars, cfg, phase, blind, checks, loaded, draining, req>>

\* run's select: ctx is done, and Shutdown is called.
DrainStarts ==
  /\ phase \in {"listen", "serving"}
  /\ signalled
  /\ phase' = "draining"
  /\ UNCHANGED <<keyVars, cfg, signalled, blind, checks, loaded, draining, req>>

InFlight == {r \in Requests : req[r].at \in Stages}

\* Shutdown has waited for every connection, or for the drain budget.
DrainEnds ==
  /\ phase = "draining"
  /\ \/ InFlight = {} /\ phase' = "stopped"
     \/ InFlight # {} /\ draining >= DrainBudget /\ phase' = "cut"
  /\ UNCHANGED <<keyVars, cfg, signalled, blind, checks, loaded, draining, req>>

-----------------------------------------------------------------------------
\* Requests.  A connection is accepted while serving; one accepted before the
\* shutdown is still served after it.
Goes(r, stage) == req' = [req EXCEPT ![r].at = stage, ![r].spent = 0]

Connect(r) ==
  /\ phase = "serving"
  /\ req[r].at = "none"
  /\ Goes(r, "headers")
  /\ UNCHANGED <<keyVars, procVars>>

Serving == phase \in {"serving", "draining"}

\* The write deadline is set here, when the headers are in.
HeadersRead(r) ==
  /\ Serving
  /\ req[r].at = "headers"
  /\ req' = [req EXCEPT ![r].at = "body", ![r].age = 0, ![r].spent = 0]
  /\ UNCHANGED <<keyVars, procVars>>

\* The response is written, if its connection can still be written to.
Answer(r) ==
  /\ Serving
  /\ req[r].at \in {"body", "limits", "budget"}
  /\ Goes(r, IF req[r].age <= WriteTimeout THEN "answered" ELSE "lost")
  /\ UNCHANGED <<keyVars, procVars>>

\* The body is in and its caller known: the core's limiters are asked.
\* Otherwise, and on every refusal, Answer.
Authenticated(r) ==
  /\ Serving
  /\ req[r].at = "body"
  /\ \E k \in Kids, issuer \in {"configured", "another"} :
       /\ issuer = "configured" <=> cfg.rightIssuer
       /\ AppForKey(k, issuer)
  /\ Goes(r, "limits")
  /\ UNCHANGED <<keyVars, procVars>>

\* The total deadline starts here.
Admitted(r) ==
  /\ Serving
  /\ req[r].at = "limits"
  /\ Goes(r, "budget")
  /\ UNCHANGED <<keyVars, procVars>>

\* The client hangs up or, in its headers, runs out of time.
Gone(r) ==
  /\ Serving
  /\ req[r].at \in {"headers", "answered", "lost"}
  /\ req' = [req EXCEPT ![r] = NoReq]
  /\ UNCHANGED <<keyVars, procVars>>

\* What a stage may last.
Allowed(stage) ==
  CASE stage = "headers" -> HeaderTime
    [] stage = "body"    -> ReadTime
    [] stage = "limits"  -> LimiterTime
    [] stage = "budget"  -> TotalDeadline

\* Time passes for everyone, and no stage outlasts its deadline; without a
\* request nothing here depends on it.
Tick ==
  /\ Serving
  /\ phase = "draining" => draining < DrainBudget
  /\ \A r \in InFlight : req[r].spent < Allowed(req[r].at)
  /\ InFlight # {}
  /\ draining' = IF phase = "draining" THEN draining + 1 ELSE draining
  /\ req' = [r \in Requests |->
               IF r \in InFlight
               THEN [req[r] EXCEPT !.age = @ + 1, !.spent = @ + 1]
               ELSE req[r]]
  /\ UNCHANGED <<keyVars, cfg, phase, signalled, blind, checks, loaded>>

BootStep == Load \/ NewAppDirectory \/ NewProviderClient \/ NewLimiters \/ NewCore \/ Start

RequestStep(r) ==
  Connect(r) \/ HeadersRead(r) \/ Authenticated(r) \/ Admitted(r) \/ Answer(r) \/ Gone(r)

Next ==
  \/ BootStep \/ ServeFails \/ Restart
  \/ RefreshKeys \/ Issuer \/ ProviderKeyLoads
  \/ Signal \/ DrainStarts \/ DrainEnds \/ Tick
  \/ \E r \in Requests : RequestStep(r)

Spec == Init /\ [][Next]_vars

\* A stage that has used up its time ends.
RunsOut(r) ==
  /\ r \in InFlight
  /\ req[r].spent >= Allowed(req[r].at)
  /\ HeadersRead(r) \/ Answer(r) \/ Gone(r)

\* The boot goes on, the loop's ticker ticks and its fetches end (they carry a
\* timeout), main waits in its select, time passes, and a request whose stage
\* has run out of time leaves it.
Fairness ==
  /\ WF_vars(BootStep) /\ WF_vars(RefreshKeys)
  /\ WF_vars(DrainStarts) /\ WF_vars(DrainEnds) /\ WF_vars(Tick)
  /\ \A r \in Requests : WF_vars(RunsOut(r))

FairSpec == Spec /\ Fairness

-----------------------------------------------------------------------------
\* While the server serves, readiness once given is never taken back: a failed
\* refresh, a withdrawn key or a dead secret store leaves it (jwks.go:103,
\* cache.go:279), since the fleet would otherwise leave the Service at once.
ReadinessNeverFlaps == [][Ready /\ phase' = "serving" => Ready']_vars

\* A successful refresh leaves no key that was unpublished all the time it
\* took: withdrawing a key takes effect at the next refresh (jwks.go:103-107).
WithdrawnKeysGo ==
  [][fetch.phase = "read" /\ fetch.got # {} /\ fetch' = NoFetch /\ Alive'
       => keys' \cap gone = {}]_vars

\* Once the issuer settles on a set of keys and answers, a serving pod comes to
\* verify with that set and stays with it (refresher.go:24-41).
Settled(ks) ==
  phase = "serving" /\ ~signalled /\ endpoint = "ok" /\ published = ks

RotationIsPickedUp ==
  \A ks \in SUBSET Kids \ {{}} : <>[]Settled(ks) => <>[](keys = ks)

\* A pod that takes traffic can verify its callers, has a provider key if one
\* must load, and has the cluster's issuer or could never check it
\* (main.go:92-97, 122 and 352).
ReadyMeansAble ==
  Ready => /\ keys # {}
           /\ cfg.sourced => loaded
           /\ cfg.rightIssuer \/ blind

\* A drain that gives up cuts only responses whose own write deadline is over:
\* the budget covers every response the server would still have sent
\* (main.go:253-261).
DrainCutsNothingOwed ==
  [][phase = "draining" /\ phase' = "cut"
       => \A r \in InFlight : req[r].at # "headers" /\ req[r].age >= WriteTimeout]_vars

\* A signalled process ends, whatever its clients and its providers do.
ShutdownEnds == signalled ~> ~Alive
=============================================================================
