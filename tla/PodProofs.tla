------------------------------ MODULE PodProofs ------------------------------
(***************************************************************************)
(* What a pod promises for any number of requests, any keys and any        *)
(* timeouts that keep PodAssumption; then, at the end, what the load of    *)
(* its configuration at the start of every boot promises for any file.     *)
(***************************************************************************)
EXTENDS Pod, LoadCall, SequenceLemmas, TLAPS

\* Boot order: a phase is reached with the readiness conditions of the
\* constructors before it registered.
BootOrder ==
  /\ phase \in {"provider", "limiters", "core", "listen", "serving", "draining"} =>
       "jwks" \in checks /\ (cfg.rightIssuer \/ blind)
  /\ phase \in {"limiters", "core", "listen", "serving", "draining"} =>
       "provider-keys" \in checks

\* A document that was read holds no key that was out of every document since.
FetchIsRecent ==
  /\ fetch.phase # "none" => gone \cap published = {}
  /\ fetch.phase = "read" => gone \cap fetch.got = {}

\* A request in its headers has been in them for the whole drain; one past
\* them has had its write deadline since at most HeaderTime into it.
DrainLag ==
  /\ phase # "draining" /\ phase \notin Exited => draining = 0
  /\ \A r \in Requests :
       /\ req[r].at = "headers" => draining <= req[r].spent /\ req[r].spent <= HeaderTime
       /\ req[r].at \in {"body", "limits", "budget"} => draining <= req[r].age + HeaderTime

IInv == TypeOK /\ BootOrder /\ FetchIsRecent /\ DrainLag

-----------------------------------------------------------------------------
LEMMA PodInit == Init => IInv
<1> SUFFICES ASSUME Init PROVE IInv
  OBVIOUS
<1> USE DEF Init, KeysInit, NoFetch, NoReq
<1>1. TypeOK
  BY DEF TypeOK, KeysTypeOK, Booting, Request
<1>2. BootOrder /\ FetchIsRecent /\ DrainLag
  BY DEF BootOrder, FetchIsRecent, DrainLag, Exited
<1>3. QED
  BY <1>1, <1>2 DEF IInv

\* The signing keys keep their type and stay recent under each of their steps.
KeyStep ==
  \/ \E ks \in SUBSET Kids : Publish(ks)
  \/ \E s \in {"ok", "bad"} : EndpointTurns(s)
  \/ RefreshStarts \/ DocumentRead \/ RefreshFails \/ RefreshLands

LEMMA KeyStepKeeps ==
  ASSUME KeysTypeOK, FetchIsRecent, KeyStep
  PROVE  KeysTypeOK' /\ FetchIsRecent'
<1> USE DEF KeysTypeOK, FetchIsRecent, NoFetch
<1>1. ASSUME NEW ks \in SUBSET Kids, Publish(ks)
      PROVE  KeysTypeOK' /\ FetchIsRecent'
  BY <1>1 DEF Publish
<1>2. ASSUME NEW s \in {"ok", "bad"}, EndpointTurns(s)
      PROVE  KeysTypeOK' /\ FetchIsRecent'
  BY <1>2 DEF EndpointTurns
<1>3. CASE RefreshStarts
  BY <1>3 DEF RefreshStarts
<1>4. CASE DocumentRead
  BY <1>4 DEF DocumentRead
<1>5. CASE RefreshFails
  BY <1>5 DEF RefreshFails
<1>6. CASE RefreshLands
  BY <1>6 DEF RefreshLands
<1>7. QED
  BY <1>1, <1>2, <1>3, <1>4, <1>5, <1>6 DEF KeyStep

\* The invariant's parts depend on these variables only.
LEMMA KeysUntouched ==
  ASSUME KeysTypeOK, FetchIsRecent, UNCHANGED keyVars
  PROVE  KeysTypeOK' /\ FetchIsRecent'
BY DEF KeysTypeOK, FetchIsRecent, keyVars

LEMMA LagUntouched ==
  ASSUME DrainLag, UNCHANGED <<draining, req>>,
         phase' = phase \/ (phase # "draining" /\ phase \notin Exited) \/ phase' \in Exited
  PROVE  DrainLag'
BY DEF DrainLag, Exited

-----------------------------------------------------------------------------
\* A step of the boot, or a failure, moves the phase and may register a
\* condition, and leaves keys and requests alone.
LEMMA BootKeeps ==
  ASSUME IInv, BootStep \/ ServeFails
  PROVE  IInv'
<1> USE DEF IInv
<1>1. KeysTypeOK' /\ FetchIsRecent'
  <2>1. UNCHANGED keyVars
    BY DEF BootStep, ServeFails, Load, NewAppDirectory, NewProviderClient, NewLimiters,
           NewCore, Start, Assemble
  <2>2. QED
    BY <2>1, KeysUntouched DEF TypeOK
<1>2. DrainLag'
  <2>1. UNCHANGED <<draining, req>> /\ phase # "draining" /\ phase \notin Exited
    BY DEF BootStep, ServeFails, Load, NewAppDirectory, NewProviderClient, NewLimiters,
           NewCore, Start, Assemble, Fails, Exited
  <2>2. QED
    BY <2>1, LagUntouched
<1>3. TypeOK'
  BY <1>1 DEF TypeOK, Booting, Exited, Cfg, BootStep, ServeFails, Load, NewAppDirectory,
           NewProviderClient, NewLimiters, NewCore, Start, Assemble, Fails
<1>4. BootOrder'
  BY DEF TypeOK, Cfg, BootOrder, BootStep, ServeFails, Load, NewAppDirectory,
         NewProviderClient, NewLimiters, NewCore, Start, Assemble, Fails
<1>5. QED
  BY <1>1, <1>2, <1>3, <1>4

LEMMA RestartKeeps ==
  ASSUME IInv, Restart
  PROVE  IInv'
<1> USE DEF IInv, Restart, Boot
<1>1. TypeOK'
  BY DEF TypeOK, KeysTypeOK, NoFetch, NoReq, Booting, Request
<1>2. BootOrder' /\ FetchIsRecent'
  BY DEF BootOrder, FetchIsRecent, NoFetch, TypeOK, KeysTypeOK
<1>3. DrainLag'
  BY DEF DrainLag, NoReq
<1>4. QED
  BY <1>1, <1>2, <1>3

LEMMA KeysLoopKeeps ==
  ASSUME IInv, RefreshKeys \/ Issuer
  PROVE  IInv'
<1> USE DEF IInv
<1>1. KeyStep /\ UNCHANGED <<procVars, req>>
  BY DEF RefreshKeys, Issuer, KeyStep
<1>2. KeysTypeOK' /\ FetchIsRecent'
  BY <1>1, KeyStepKeeps DEF TypeOK
<1>3. TypeOK' /\ BootOrder'
  BY <1>1, <1>2 DEF TypeOK, BootOrder, procVars
<1>4. DrainLag'
  BY <1>1, LagUntouched DEF procVars
<1>5. QED
  BY <1>2, <1>3, <1>4

LEMMA ProcessKeeps ==
  ASSUME IInv, ProviderKeyLoads \/ Signal \/ DrainStarts \/ DrainEnds
  PROVE  IInv'
<1> USE DEF IInv
<1>1. KeysTypeOK' /\ FetchIsRecent'
  <2>1. UNCHANGED keyVars
    BY DEF ProviderKeyLoads, Signal, DrainStarts, DrainEnds
  <2>2. QED
    BY <2>1, KeysUntouched DEF TypeOK
<1>2. DrainLag'
  <2>1. /\ UNCHANGED <<draining, req>>
        /\ phase' = phase \/ (phase # "draining" /\ phase \notin Exited) \/ phase' \in Exited
    BY DEF ProviderKeyLoads, Signal, DrainStarts, DrainEnds, Exited
  <2>2. QED
    BY <2>1, LagUntouched
<1>3. TypeOK'
  BY <1>1 DEF TypeOK, Booting, Exited, ProviderKeyLoads, Signal, DrainStarts, DrainEnds
<1>4. BootOrder'
  BY DEF BootOrder, ProviderKeyLoads, Signal, DrainStarts, DrainEnds
<1>5. QED
  BY <1>1, <1>2, <1>3, <1>4

\* Only the requests move.
LEMMA RequestKeeps ==
  ASSUME IInv, NEW r \in Requests, RequestStep(r)
  PROVE  IInv'
<1> USE DEF IInv
<1>1. UNCHANGED <<keyVars, procVars>>
  BY DEF RequestStep, Connect, HeadersRead, Authenticated, Admitted, Answer, Gone
<1>2. KeysTypeOK' /\ FetchIsRecent' /\ BootOrder'
  BY <1>1, KeysUntouched DEF TypeOK, BootOrder, procVars, keyVars
<1>3. req' \in [Requests -> Request]
  BY DEF TypeOK, Request, NoReq, Stages, Goes, RequestStep, Connect, HeadersRead,
         Authenticated, Admitted, Answer, Gone
<1>4. TypeOK'
  BY <1>1, <1>2, <1>3 DEF TypeOK, procVars
<1>5. DrainLag'
  <2>1. \A q \in Requests \ {r} : req'[q] = req[q]
    BY DEF TypeOK, Goes, RequestStep, Connect, HeadersRead, Authenticated, Admitted,
           Answer, Gone
  <2>2. /\ req'[r].at = "headers" => draining <= req'[r].spent /\ req'[r].spent <= HeaderTime
        /\ req'[r].at \in {"body", "limits", "budget"} => draining <= req'[r].age + HeaderTime
    <3> USE PodAssumption DEF PodAssumption, TypeOK, Request, DrainLag
    <3>1. CASE Connect(r)
      BY <3>1 DEF Connect, Goes, Exited
    <3>2. CASE HeadersRead(r)
      BY <3>2 DEF HeadersRead
    <3>3. CASE Authenticated(r) \/ Admitted(r)
      BY <3>3 DEF Authenticated, Admitted, Goes
    <3>4. CASE Answer(r) \/ Gone(r)
      BY <3>4 DEF Answer, Gone, Goes, NoReq
    <3>5. QED
      BY <3>1, <3>2, <3>3, <3>4 DEF RequestStep
  <2>3. QED
    BY <1>1, <2>1, <2>2 DEF DrainLag, procVars
<1>6. QED
  BY <1>2, <1>4, <1>5

LEMMA TickKeeps ==
  ASSUME IInv, Tick
  PROVE  IInv'
<1> USE DEF IInv
<1>1. KeysTypeOK' /\ FetchIsRecent' /\ BootOrder'
  BY KeysUntouched DEF Tick, TypeOK, BootOrder
<1>2. TypeOK'
  <2>1. ASSUME NEW q \in Requests PROVE req'[q] \in Request
    <3>1. req[q] \in Request
      BY DEF TypeOK
    <3>2. req'[q] = req[q] \/ req'[q] = [req[q] EXCEPT !.age = @ + 1, !.spent = @ + 1]
      BY DEF Tick
    <3>3. req[q].age \in Nat /\ req[q].spent \in Nat
      BY <3>1 DEF Request
    <3>4. req[q].age + 1 \in Nat /\ req[q].spent + 1 \in Nat
      BY <3>3
    <3>5. QED
      BY <3>1, <3>2, <3>4 DEF Request
  <2>2. req' = [q \in Requests |-> req'[q]]
    BY DEF Tick
  <2>3. req' \in [Requests -> Request]
    BY <2>1, <2>2
  <2>4. draining' \in Nat
    <3>1. draining' = draining \/ draining' = draining + 1
      BY DEF Tick
    <3>2. draining \in Nat
      BY DEF TypeOK
    <3>3. QED
      BY <3>1, <3>2
  <2>5. QED
    BY <1>1, <2>3, <2>4 DEF Tick, TypeOK
<1>3. DrainLag'
  <2>1. phase # "draining" => draining' = 0
    BY DEF Tick, DrainLag, Serving, Exited
  <2>2. ASSUME NEW q \in Requests
        PROVE  /\ req'[q].at = "headers" =>
                    draining' <= req'[q].spent /\ req'[q].spent <= HeaderTime
               /\ req'[q].at \in {"body", "limits", "budget"} =>
                    draining' <= req'[q].age + HeaderTime
    <3> USE PodAssumption DEF PodAssumption, TypeOK, Request, DrainLag, Stages
    <3>1. CASE q \in InFlight
      <4>1. /\ req'[q].at = req[q].at
            /\ req'[q].age = req[q].age + 1 /\ req'[q].spent = req[q].spent + 1
        BY <3>1 DEF Tick
      <4>2. req[q].at = "headers" => req[q].spent < HeaderTime
        BY <3>1 DEF Tick, Allowed
      <4>3. draining' = draining \/ draining' = draining + 1
        BY DEF Tick
      <4>4. QED
        BY <4>1, <4>2, <4>3
    <3>2. CASE q \notin InFlight
      <4>1. req'[q] = req[q]
        BY <3>2 DEF Tick
      <4>2. req[q].at \notin Stages
        BY <3>2 DEF InFlight
      <4>3. QED
        BY <4>1, <4>2
    <3>3. QED
      BY <3>1, <3>2
  <2>3. QED
    BY <2>1, <2>2 DEF DrainLag, Tick
<1>4. QED
  BY <1>1, <1>2, <1>3

LEMMA StutterKeeps ==
  ASSUME IInv, UNCHANGED vars
  PROVE  IInv'
BY KeysUntouched DEF IInv, TypeOK, BootOrder, DrainLag, vars, procVars, keyVars

LEMMA PodStep == IInv /\ [Next]_vars => IInv'
<1> SUFFICES ASSUME IInv, [Next]_vars PROVE IInv'
  OBVIOUS
<1> QED
  BY BootKeeps, RestartKeeps, KeysLoopKeeps, ProcessKeeps, RequestKeeps, TickKeeps,
     StutterKeeps DEF Next

\* run and its server keep their invariant (main.go, server.go).
THEOREM PodInvariant == Spec => []IInv
BY PodInit, PodStep, PTL DEF Spec

-----------------------------------------------------------------------------
\* Every reachable state of the process is a state of the code: main.go's
\* run, server.go's requests, jwks.go's cache.
THEOREM PodTypeCorrect == Spec => []TypeOK
<1>1. IInv => TypeOK
  BY DEF IInv
<1>2. QED
  BY PodInvariant, <1>1, PTL

\* A pod that /readyz lets into the Service can serve (main.go:92-97, 122,
\* 352; checker.go:48-59).
THEOREM PodReadyMeansAble == Spec => []ReadyMeansAble
<1>1. IInv => ReadyMeansAble
  BY DEF IInv, BootOrder, ReadyMeansAble, Ready, Holds, KeysReady
<1>2. QED
  BY PodInvariant, <1>1, PTL

\* No step takes readiness back while the server serves (jwks.go:103).
THEOREM PodReadinessNeverFlaps == Spec => ReadinessNeverFlaps
<1>1. IInv /\ [Next]_vars => [Ready /\ phase' = "serving" => Ready']_vars
  <2> SUFFICES ASSUME IInv, Next, Ready, phase' = "serving" PROVE Ready'
    BY DEF vars
  <2>1. /\ checks' = checks /\ cfg' = cfg
        /\ keys # {} => keys' # {}
        /\ loaded => loaded'
    <3>1. CASE BootStep \/ ServeFails \/ Restart
      BY <3>1 DEF Ready, BootStep, ServeFails, Restart, Load, NewAppDirectory,
                  NewProviderClient, NewLimiters, NewCore, Start, Assemble, Fails, Boot,
                  Exited
    <3>2. CASE RefreshKeys \/ Issuer
      BY <3>2 DEF RefreshKeys, Issuer, Publish, EndpointTurns, RefreshStarts, DocumentRead,
                  RefreshFails, RefreshLands, procVars
    <3>3. CASE ProviderKeyLoads \/ Signal \/ DrainStarts \/ DrainEnds
      BY <3>3 DEF ProviderKeyLoads, Signal, DrainStarts, DrainEnds, keyVars
    <3>4. CASE Tick
      BY <3>4 DEF Tick, keyVars
    <3>5. CASE \E r \in Requests : RequestStep(r)
      BY <3>5 DEF RequestStep, Connect, HeadersRead, Authenticated, Admitted, Answer, Gone,
                  keyVars, procVars
    <3>6. QED
      BY <3>1, <3>2, <3>3, <3>4, <3>5 DEF Next
  <2>2. ASSUME NEW c \in checks PROVE Holds(c)'
    <3>1. Holds(c) /\ c \in {"jwks", "provider-keys"}
      BY DEF Ready, IInv, TypeOK
    <3>2. CASE c = "jwks"
      BY <2>1, <3>1, <3>2 DEF Holds, KeysReady
    <3>3. CASE c = "provider-keys"
      BY <2>1, <3>1, <3>3 DEF Holds
    <3>4. QED
      BY <3>1, <3>2, <3>3
  <2>3. QED
    BY <2>1, <2>2 DEF Ready
<1>2. QED
  BY PodInvariant, <1>1, PTL DEF Spec, ReadinessNeverFlaps

\* A refresh that lands drops every key withdrawn before it began
\* (jwks.go:67-109).
THEOREM PodWithdrawnKeysGo == Spec => WithdrawnKeysGo
<1> DEFINE A == fetch.phase = "read" /\ fetch.got # {} /\ fetch' = NoFetch /\ Alive'
                  => keys' \cap gone = {}
<1>1. IInv /\ [Next]_vars => [A]_vars
  <2> SUFFICES ASSUME IInv, Next, fetch.phase = "read", fetch.got # {},
                      fetch' = NoFetch, Alive'
               PROVE  keys' \cap gone = {}
    OBVIOUS
  <2>1. gone \cap fetch.got = {}
    BY DEF IInv, FetchIsRecent
  <2>2. fetch # NoFetch
    BY DEF NoFetch
  <2>3. CASE Restart
    BY <2>3 DEF Restart
  <2>4. CASE RefreshKeys
    BY <2>1, <2>2, <2>4 DEF RefreshKeys, RefreshStarts, DocumentRead, RefreshFails,
                            RefreshLands
  <2>5. CASE ~Restart /\ ~RefreshKeys
    <3>1. fetch' = fetch
      BY <2>5 DEF Next, BootStep, ServeFails, Load, NewAppDirectory, NewProviderClient,
                  NewLimiters, NewCore, Start, Assemble, Issuer, Publish, EndpointTurns,
                  ProviderKeyLoads, Signal, DrainStarts, DrainEnds, Tick, RequestStep,
                  Connect, HeadersRead, Authenticated, Admitted, Answer, Gone, keyVars
    <3>2. QED
      BY <2>2, <3>1
  <2>6. QED
    BY <2>3, <2>4, <2>5
<1>2. QED
  BY PodInvariant, <1>1, PTL DEF Spec, WithdrawnKeysGo

\* The drain budget is long enough for every response the server would still
\* have sent, whatever the write timeout (main.go:253-261).
THEOREM PodDrainCutsNothingOwed == Spec => DrainCutsNothingOwed
<1> DEFINE A == phase = "draining" /\ phase' = "cut"
                  => \A r \in InFlight : req[r].at # "headers" /\ req[r].age >= WriteTimeout
<1>1. IInv /\ [Next]_vars => [A]_vars
  <2> SUFFICES ASSUME IInv, Next, phase = "draining", phase' = "cut",
                      NEW r \in InFlight
               PROVE  req[r].at # "headers" /\ req[r].age >= WriteTimeout
    OBVIOUS
  <2>1. draining >= DrainBudget
    <3>1. CASE DrainEnds
      BY <3>1 DEF DrainEnds
    <3>2. CASE BootStep \/ ServeFails \/ Restart
      BY <3>2 DEF BootStep, ServeFails, Restart, Load, NewAppDirectory, NewProviderClient,
                  NewLimiters, NewCore, Start, Assemble, Exited
    <3>3. CASE RefreshKeys \/ Issuer
      BY <3>3 DEF RefreshKeys, Issuer, procVars
    <3>4. CASE ProviderKeyLoads \/ Signal \/ DrainStarts \/ Tick
      BY <3>4 DEF ProviderKeyLoads, Signal, DrainStarts, Tick
    <3>5. CASE \E q \in Requests : RequestStep(q)
      BY <3>5 DEF RequestStep, Connect, HeadersRead, Authenticated, Admitted, Answer, Gone,
                  procVars
    <3>6. QED
      BY <3>1, <3>2, <3>3, <3>4, <3>5 DEF Next
  <2>2. /\ DrainBudget \in Nat /\ WriteTimeout \in Nat
        /\ DrainBudget > HeaderTime /\ DrainBudget >= WriteTimeout + HeaderTime
    <3>1. cfg.write \in Nat
      BY PodAssumption DEF PodAssumption, Cfg, IInv, TypeOK
    <3>2. CASE cfg.write > 0
      BY <3>1, <3>2, PodAssumption DEF PodAssumption, DrainBudget, WriteTimeout
    <3>3. CASE ~(cfg.write > 0)
      BY <3>1, <3>3, PodAssumption DEF PodAssumption, DrainBudget, WriteTimeout
    <3>4. QED
      BY <3>2, <3>3
  <2>3. /\ r \in Requests /\ req[r].at \in Stages
        /\ req[r].age \in Nat /\ req[r].spent \in Nat /\ draining \in Nat
        /\ HeaderTime \in Nat
    BY PodAssumption DEF PodAssumption, InFlight, IInv, TypeOK, Request
  <2>4. /\ req[r].at = "headers" => draining <= HeaderTime
        /\ req[r].at \in {"body", "limits", "budget"} => draining <= req[r].age + HeaderTime
    BY <2>3 DEF IInv, DrainLag
  <2>5. QED
    BY <2>1, <2>2, <2>3, <2>4 DEF Stages
<1>2. QED
  BY PodInvariant, <1>1, PTL DEF Spec, DrainCutsNothingOwed

-----------------------------------------------------------------------------
(* The configuration file.  An error reported is judged against the flaws    *)
(* of what was checked: entry by entry, section by section, then the file.   *)

\* e is the error of an earliest flaw of F, and none if F is empty.
Reports(e, F) ==
  \/ F = {} /\ e = NoError
  \/ IsError(e) /\ \E f \in F : f.error = e /\ \A g \in F : NotAfter(f, g)

\* The flaws of the first n checks.
FlawsUpTo(FF, n) == UNION {FF[i] : i \in 1..n}

Precede(F, G) == \A f \in F, g \in G : NotAfter(f, g)

LEMMA FirstOfIs ==
  ASSUME NEW chain, NEW n \in Nat, Len(chain) = n
  PROVE  \/ FirstOf(chain) = NoError /\ \A i \in 1..n : ~IsError(chain[i])
         \/ \E i \in 1..n : /\ FirstOf(chain) = chain[i] /\ IsError(chain[i])
                            /\ \A j \in 1..(i - 1) : ~IsError(chain[j])
<1> DEFINE T == {j \in 1..n : IsError(chain[j])}
<1>1. T \in SUBSET Nat
  OBVIOUS
<1>2. FirstOf(chain) = LET i == IF T # {} THEN Min(T) ELSE 0 IN IF i = 0 THEN NoError ELSE chain[i]
  BY DEF FirstOf, SelectInSeq
<1>3. CASE T = {}
  <2>1. FirstOf(chain) = NoError
    BY <1>2, <1>3
  <2> QED
    BY <1>3, <2>1
<1>4. CASE T # {}
  <2>1. Min(T) \in T /\ \A m \in T : Min(T) <= m
    <3> HIDE DEF T
    <3> QED
      BY <1>1, <1>4, MinIsLeast
  <2> DEFINE i == Min(T)
  <2>2. i \in 1..n /\ IsError(chain[i]) /\ \A m \in T : i <= m
    BY <2>1
  <2>3. FirstOf(chain) = chain[i]
    <3>1. i # 0
      BY <2>2
    <3> QED
      BY <1>2, <1>4, <3>1
  <2> HIDE DEF i
  <2>4. \A j \in 1..(i - 1) : ~IsError(chain[j])
    <3> SUFFICES ASSUME NEW j \in 1..(i - 1), IsError(chain[j]) PROVE FALSE
      OBVIOUS
    <3>1. j \in T /\ ~(i <= j)
      BY <2>2
    <3> QED
      BY <2>2, <3>1
  <2> QED
    BY <2>2, <2>3, <2>4
<1> QED
  BY <1>3, <1>4

\* Checks that report their flaws, made in the order of the flaws, report them all.
LEMMA FirstReports ==
  ASSUME NEW chain, NEW n \in Nat, Len(chain) = n, NEW FF,
         \A i \in 1..n : Reports(chain[i], FF[i]),
         \A i, j \in 1..n : i < j => Precede(FF[i], FF[j])
  PROVE  Reports(FirstOf(chain), FlawsUpTo(FF, n))
<1>1. CASE FirstOf(chain) = NoError /\ \A i \in 1..n : ~IsError(chain[i])
  <2>1. \A i \in 1..n : FF[i] = {}
    BY <1>1 DEF Reports
  <2> QED
    BY <1>1, <2>1 DEF Reports, FlawsUpTo
<1>2. ASSUME NEW i \in 1..n, FirstOf(chain) = chain[i], IsError(chain[i]),
             \A j \in 1..(i - 1) : ~IsError(chain[j])
      PROVE  Reports(FirstOf(chain), FlawsUpTo(FF, n))
  <2>1. ~(FF[i] = {} /\ chain[i] = NoError)
    BY <1>2 DEF IsError, NoError
  <2>2. PICK f \in FF[i] : f.error = chain[i] /\ \A g \in FF[i] : NotAfter(f, g)
    BY <2>1 DEF Reports
  <2>3. ASSUME NEW j \in 1..n, NEW g \in FF[j] PROVE NotAfter(f, g)
    <3>1. CASE j < i
      <4>1. j \in 1..(i - 1)
        BY <3>1
      <4>2. ~IsError(chain[j])
        BY <1>2, <4>1
      <4>3. FF[j] = {}
        BY <4>2 DEF Reports
      <4> QED
        BY <2>3, <4>3
    <3>2. CASE j = i
      BY <2>2, <2>3, <3>2
    <3>3. CASE i < j
      BY <2>2, <2>3, <3>3 DEF Precede
    <3> QED
      BY <3>1, <3>2, <3>3
  <2>4. \A g \in FlawsUpTo(FF, n) : NotAfter(f, g)
    BY <2>3 DEF FlawsUpTo
  <2>5. f \in FlawsUpTo(FF, n)
    BY <2>2 DEF FlawsUpTo
  <2> QED
    BY <1>2, <2>2, <2>4, <2>5 DEF Reports
<1> QED
  BY <1>1, <1>2, FirstOfIs

-----------------------------------------------------------------------------
\* One check, and the one flaw it looks for at its place in the file.
Matches(m, F, section, position) ==
  \/ m = NoError /\ F = {}
  \/ \E w, o : w # "none" /\ m = Mistake(w, o) /\ F = {Flaw(section, position, w, o)}

OfPlace(F, section, position) == \A f \in F : f.section = section /\ f.position = position

LEMMA MatchReports ==
  ASSUME NEW m, NEW F, NEW s, NEW p \in Int, Matches(m, F, s, p)
  PROVE  Reports(m, F) /\ OfPlace(F, s, p)
<1>1. CASE m = NoError /\ F = {}
  BY <1>1 DEF Reports, OfPlace
<1>2. ASSUME NEW w, NEW o, w # "none", m = Mistake(w, o), F = {Flaw(s, p, w, o)}
      PROVE  Reports(m, F) /\ OfPlace(F, s, p)
  <2>1. IsError(m)
    BY <1>2 DEF IsError, Mistake
  <2>2. /\ Flaw(s, p, w, o).error = m /\ Flaw(s, p, w, o).section = s
        /\ Flaw(s, p, w, o).position = p
    BY <1>2 DEF Flaw
  <2>3. NotAfter(Flaw(s, p, w, o), Flaw(s, p, w, o))
    BY <2>2 DEF NotAfter
  <2> QED
    BY <1>2, <2>1, <2>2, <2>3 DEF Reports, OfPlace
<1> QED
  BY <1>1, <1>2 DEF Matches

\* The checks of one entry.
LEMMA EntryReports ==
  ASSUME NEW chain, NEW n \in Nat, Len(chain) = n, NEW FF, NEW s, NEW p \in Int,
         \A i \in 1..n : Matches(chain[i], FF[i], s, p)
  PROVE  Reports(FirstOf(chain), FlawsUpTo(FF, n)) /\ OfPlace(FlawsUpTo(FF, n), s, p)
<1>1. \A i \in 1..n : Reports(chain[i], FF[i]) /\ OfPlace(FF[i], s, p)
  BY MatchReports
<1>2. \A i, j \in 1..n : Precede(FF[i], FF[j])
  BY <1>1 DEF OfPlace, Precede, NotAfter
<1>3. OfPlace(FlawsUpTo(FF, n), s, p)
  BY <1>1 DEF OfPlace, FlawsUpTo
<1> QED
  BY <1>1, <1>2, <1>3, FirstReports

\* Unions, as long as the chains of checks are.
LEMMA FlawsOf2 ==
  ASSUME NEW A, NEW B
  PROVE  FlawsUpTo(<<A, B>>, 2) = A \cup B
<1>1. 1..2 = {1, 2}
  OBVIOUS
<1> QED
  BY <1>1 DEF FlawsUpTo

LEMMA FlawsOf3 ==
  ASSUME NEW A, NEW B, NEW C
  PROVE  FlawsUpTo(<<A, B, C>>, 3) = A \cup B \cup C
<1>1. 1..3 = {1, 2, 3}
  OBVIOUS
<1> QED
  BY <1>1 DEF FlawsUpTo

LEMMA FlawsOf4 ==
  ASSUME NEW A, NEW B, NEW C, NEW D
  PROVE  FlawsUpTo(<<A, B, C, D>>, 4) = A \cup B \cup C \cup D
<1>1. 1..4 = {1, 2, 3, 4}
  OBVIOUS
<1> QED
  BY <1>1 DEF FlawsUpTo

LEMMA FlawsOf5 ==
  ASSUME NEW A, NEW B, NEW C, NEW D, NEW E
  PROVE  FlawsUpTo(<<A, B, C, D, E>>, 5) = A \cup B \cup C \cup D \cup E
<1>1. 1..5 = {1, 2, 3, 4, 5}
  OBVIOUS
<1> QED
  BY <1>1 DEF FlawsUpTo

LEMMA SourceReports ==
  ASSUME NEW f
  PROVE  Reports(SourceMistake(f.secrets), SourceFlaws(f)) /\ OfPlace(SourceFlaws(f), 4, 0)
<1> DEFINE src == f.secrets
           at == 0
           c1 == Check(src.kind \notin {"", "file", "vault"}, "kind", "secret_source")
           c2 == Check(src.kind = "" /\ DOMAIN src.providers # {}, "kind required", "secret_source")
           c3 == Check(src.interval < 0, "interval", "secret_source")
           c4 == Check(src.kind = "vault" /\ ~{"address", "role"} \subseteq src.vault, "vault", "secret_source")
           c5 == Check(src.kind # "vault" /\ src.vault # {}, "vault unused", "secret_source")
           one(what) == {Flaw(4, 0, what, "secret_source")}
           F1 == If(src.kind \notin {"", "file", "vault"}, one("kind"))
           F2 == If(src.kind = "" /\ DOMAIN src.providers # {}, one("kind required"))
           F3 == If(src.interval < 0, one("interval"))
           F4 == If(src.kind = "vault" /\ ~{"address", "role"} \subseteq src.vault, one("vault"))
           F5 == If(src.kind # "vault" /\ src.vault # {}, one("vault unused"))
<1>1. Matches(c1, F1, 4, 0) /\ Matches(c2, F2, 4, 0)
  BY DEF Matches, Check, If
<1>2. Matches(c3, F3, 4, 0) /\ Matches(c4, F4, 4, 0) /\ Matches(c5, F5, 4, 0)
  BY DEF Matches, Check, If
<1>3. SourceMistake(src) = FirstOf(<<c1, c2, c3, c4, c5>>)
  BY DEF SourceMistake
<1>4. SourceFlaws(f) = F1 \cup F2 \cup F3 \cup F4 \cup F5
  BY DEF SourceFlaws
<1>5. at \in Int
  OBVIOUS
<1> HIDE DEF at, c1, c2, c3, c4, c5, F1, F2, F3, F4, F5
<1> DEFINE chain == <<c1, c2, c3, c4, c5>>
           FF == <<F1, F2, F3, F4, F5>>
<1>6. \A i \in 1..5 : Matches(chain[i], FF[i], 4, at)
  BY <1>1, <1>2 DEF at
<1>7. Len(chain) = 5
  OBVIOUS
<1>8. FlawsUpTo(FF, 5) = SourceFlaws(f)
  BY <1>4, FlawsOf5
<1> HIDE DEF chain, FF
<1>9. Reports(FirstOf(chain), FlawsUpTo(FF, 5)) /\ OfPlace(FlawsUpTo(FF, 5), 4, at)
  BY <1>5, <1>6, <1>7, EntryReports
<1> QED
  BY <1>3, <1>8, <1>9 DEF chain, at

LEMMA ProviderReports ==
  ASSUME NEW f, NEW p, PlaceIn(NameOrder, p) \in Int
  PROVE  LET e == ProviderMistake(f.secrets, RoutedProviders(f), p)
         IN  Reports(e, ProviderFlaws(f, p)) /\ OfPlace(ProviderFlaws(f, p), 5, PlaceIn(NameOrder, p))
<1> DEFINE s == f.secrets.providers[p]
           at == PlaceIn(NameOrder, p)
           c1 == Check(~s.path, "path", p)
           c2 == Check(p \notin RoutedProviders(f), "not routed", p)
           c3 == Check(s.interval < 0, "interval", p)
           one(what) == {Flaw(5, at, what, p)}
           F1 == If(~s.path, one("path"))
           F2 == If(p \notin RoutedProviders(f), one("not routed"))
           F3 == If(s.interval < 0, one("interval"))
<1>1. Matches(c1, F1, 5, at) /\ Matches(c2, F2, 5, at) /\ Matches(c3, F3, 5, at)
  <2> HIDE DEF at
  <2> QED
    BY DEF Matches, Check, If
<1>2. ProviderMistake(f.secrets, RoutedProviders(f), p) = FirstOf(<<c1, c2, c3>>)
  BY DEF ProviderMistake
<1>3. ProviderFlaws(f, p) = F1 \cup F2 \cup F3
  BY DEF ProviderFlaws
<1>4. at \in Int
  OBVIOUS
<1> HIDE DEF c1, c2, c3, F1, F2, F3, at
<1> DEFINE chain == <<c1, c2, c3>>
           FF == <<F1, F2, F3>>
<1>5. \A i \in 1..3 : Matches(chain[i], FF[i], 5, at)
  BY <1>1
<1>6. Len(chain) = 3
  OBVIOUS
<1>7. FlawsUpTo(FF, 3) = ProviderFlaws(f, p)
  BY <1>3, FlawsOf3
<1> HIDE DEF chain, FF
<1>8. Reports(FirstOf(chain), FlawsUpTo(FF, 3)) /\ OfPlace(FlawsUpTo(FF, 3), 5, at)
  BY <1>4, <1>5, <1>6, EntryReports
<1> QED
  BY <1>2, <1>7, <1>8 DEF chain, at
-----------------------------------------------------------------------------
\* A sorted map: each key once, in the order of their places.
LEMMA SortedIs ==
  ASSUME NEW E, NEW order \in Seq(E), IsInjective(order), NEW S \in SUBSET ToSet(order)
  PROVE  /\ Sorted(order, S) \in Seq(E) /\ ToSet(Sorted(order, S)) = S
         /\ \A x \in ToSet(order) : PlaceIn(order, x) \in Nat
         /\ \A i, j \in DOMAIN Sorted(order, S) : i < j =>
              PlaceIn(order, Sorted(order, S)[i]) < PlaceIn(order, Sorted(order, S)[j])
<1> DEFINE I == {i \in DOMAIN order : order[i] \in S}
           names == Sorted(order, S)
           B == {p \in E \X E : PlaceIn(order, p[1]) < PlaceIn(order, p[2])}
<1>1. names = SubseqAt(order, I)
  BY DEF Sorted
<1>2. \A i \in DOMAIN order : PlaceIn(order, order[i]) = i /\ order[i] \in E /\ i \in Nat
  <2> TAKE i \in DOMAIN order
  <2>1. \A j \in DOMAIN order : order[j] = order[i] => j = i
    BY DEF IsInjective
  <2>2. PlaceIn(order, order[i]) = i
    BY <2>1 DEF PlaceIn
  <2> QED
    BY <2>2
<1>3. \A x \in ToSet(order) : PlaceIn(order, x) \in Nat
  BY <1>2 DEF ToSet
<1>4. \A i, j \in DOMAIN order : i \in I /\ j \in I /\ i < j => <<order[i], order[j]>> \in B
  BY <1>2
<1>5. {order[i] : i \in DOMAIN order \cap I} = S
  BY DEF ToSet
<1> HIDE DEF I
<1>6. names \in Seq(E) /\ ToSet(names) = S
  BY <1>1, <1>5, SubseqAtTyped
<1>7. Ascending(names, B)
  <2> HIDE DEF B
  <2>1. Ascending(SubseqAt(order, I), B)
    BY <1>4, SubseqAtAscending
  <2> QED
    BY <1>1, <2>1
<1> HIDE DEF names
<1>8. \A i, j \in DOMAIN names : i < j => PlaceIn(order, names[i]) < PlaceIn(order, names[j])
  BY <1>7 DEF Ascending
<1> QED
  BY <1>3, <1>6, <1>8 DEF names

-----------------------------------------------------------------------------
\* The flaws of the secrets of every provider.
SecretFlaws(f) == UNION {ProviderFlaws(f, p) : p \in DOMAIN f.secrets.providers}

LEMMA SecretsReport ==
  ASSUME NEW f, IsFile(f)
  PROVE  /\ Reports(secretSource(f.secrets, RoutedProviders(f)).error, SourceFlaws(f) \cup SecretFlaws(f))
         /\ \A g \in SourceFlaws(f) : g.section = 4
         /\ \A g \in SecretFlaws(f) : g.section = 5
<1> DEFINE src == f.secrets
           routed == RoutedProviders(f)
           P == DOMAIN src.providers
           names == Sorted(NameOrder, P)
           at(p) == PlaceIn(NameOrder, p)
           n == Len(names)
           each == [i \in DOMAIN names |-> ProviderMistake(src, routed, names[i])]
           FF == [i \in 1..n |-> ProviderFlaws(f, names[i])]
           S == SourceMistake(src)
           E == FirstOf(each)
<1>1. /\ names \in Seq(Providers) /\ ToSet(names) = P
      /\ \A p \in Providers : at(p) \in Int
      /\ \A i, j \in DOMAIN names : i < j => at(names[i]) < at(names[j])
  <2>1. P \in SUBSET ToSet(NameOrder) /\ NameOrder \in Seq(Providers) /\ IsInjective(NameOrder)
        /\ ToSet(NameOrder) = Providers
    BY NameOrderAssumption DEF IsFile
  <2> HIDE DEF P
  <2>2. /\ Sorted(NameOrder, P) \in Seq(Providers) /\ ToSet(Sorted(NameOrder, P)) = P
        /\ \A x \in ToSet(NameOrder) : PlaceIn(NameOrder, x) \in Nat
        /\ \A i, j \in DOMAIN Sorted(NameOrder, P) : i < j =>
             PlaceIn(NameOrder, Sorted(NameOrder, P)[i]) < PlaceIn(NameOrder, Sorted(NameOrder, P)[j])
    BY <2>1, SortedIs
  <2> QED
    BY <2>1, <2>2
<1>2. n \in Nat /\ DOMAIN names = 1..n /\ \A i \in 1..n : names[i] \in Providers /\ names[i] \in P
  <2> HIDE DEF names, P
  <2> QED
    BY <1>1 DEF ToSet
<1>3. Len(each) = n /\ \A i \in 1..n : each[i] = ProviderMistake(src, routed, names[i])
  <2> HIDE DEF names, routed, src
  <2> QED
    BY <1>2
<1>4. \A i \in 1..n : FF[i] = ProviderFlaws(f, names[i])
  <2> HIDE DEF names
  <2> QED
    OBVIOUS
<1>5. secretSource(f.secrets, RoutedProviders(f)).error = FirstOf(<<S, E>>)
  BY DEF secretSource
<1>6. Reports(S, SourceFlaws(f)) /\ OfPlace(SourceFlaws(f), 4, 0)
  BY SourceReports
<1> HIDE DEF names, n, each, FF, P
<1>7. ASSUME NEW i \in 1..n PROVE Reports(each[i], FF[i]) /\ OfPlace(FF[i], 5, at(names[i]))
  <2> DEFINE p == names[i]
  <2>1. PlaceIn(NameOrder, p) \in Int
    BY <1>1, <1>2
  <2>2. each[i] = ProviderMistake(f.secrets, RoutedProviders(f), p) /\ FF[i] = ProviderFlaws(f, p)
    BY <1>3, <1>4
  <2> HIDE DEF p, src, routed
  <2>3. /\ Reports(ProviderMistake(f.secrets, RoutedProviders(f), p), ProviderFlaws(f, p))
        /\ OfPlace(ProviderFlaws(f, p), 5, PlaceIn(NameOrder, p))
    BY <2>1, ProviderReports
  <2> QED
    BY <2>2, <2>3 DEF p
<1>8. \A i, j \in 1..n : i < j => Precede(FF[i], FF[j])
  <2> SUFFICES ASSUME NEW i \in 1..n, NEW j \in 1..n, i < j PROVE Precede(FF[i], FF[j])
    OBVIOUS
  <2>1. at(names[i]) < at(names[j]) /\ at(names[i]) \in Int /\ at(names[j]) \in Int
    BY <1>1, <1>2
  <2>2. OfPlace(FF[i], 5, at(names[i])) /\ OfPlace(FF[j], 5, at(names[j]))
    BY <1>7
  <2> HIDE DEF at
  <2> QED
    BY <2>1, <2>2 DEF Precede, OfPlace, NotAfter
<1>9. Reports(E, FlawsUpTo(FF, n))
  <2>1. \A i \in 1..n : Reports(each[i], FF[i])
    BY <1>7
  <2> QED
    BY <1>2, <1>3, <1>8, <2>1, FirstReports
<1>10. FlawsUpTo(FF, n) = SecretFlaws(f)
  <2>1. P = {names[i] : i \in 1..n}
    BY <1>1, <1>2 DEF ToSet
  <2>2. SecretFlaws(f) = UNION {ProviderFlaws(f, p) : p \in P}
    BY DEF SecretFlaws, P
  <2> QED
    BY <1>4, <2>1, <2>2 DEF FlawsUpTo
<1>11. \A g \in SecretFlaws(f) : g.section = 5
  BY <1>7, <1>10 DEF FlawsUpTo, OfPlace
<1>12. \A g \in SourceFlaws(f) : g.section = 4
  BY <1>6 DEF OfPlace
<1> DEFINE F1 == SourceFlaws(f)
           F2 == SecretFlaws(f)
           chain == <<S, E>>
           GG == <<F1, F2>>
<1>13. Precede(F1, F2)
  BY <1>11, <1>12 DEF Precede, NotAfter
<1> HIDE DEF S, E, F1, F2
<1>14. Reports(S, F1) /\ Reports(E, F2)
  BY <1>6, <1>9, <1>10 DEF F1, F2
<1>15. (\A i \in 1..2 : Reports(chain[i], GG[i])) /\ Len(chain) = 2
  BY <1>14
<1>16. \A i, j \in 1..2 : i < j => Precede(GG[i], GG[j])
  BY <1>13
<1>17. FlawsUpTo(GG, 2) = F1 \cup F2
  BY FlawsOf2
<1> HIDE DEF chain, GG
<1>18. Reports(FirstOf(chain), FlawsUpTo(GG, 2))
  BY <1>15, <1>16, FirstReports
<1> QED
  BY <1>5, <1>11, <1>12, <1>17, <1>18 DEF chain, F1, F2

-----------------------------------------------------------------------------
\* The routes: the first incomplete one is the earliest flaw.
LEMMA RoutesReport ==
  ASSUME NEW f, IsFile(f)
  PROVE  /\ Reports(Check(Incomplete(f) # 0, "routes", Incomplete(f)), RouteFlaws(f))
         /\ \A g \in RouteFlaws(f) : g.section = 3
<1> DEFINE n == Len(f.routes)
           T == {i \in 1..n : ~f.routes[i].complete}
           k == Incomplete(f)
<1>1. n \in Nat /\ DOMAIN f.routes = 1..n
  BY DEF IsFile
<1>2. k = IF T # {} THEN Min(T) ELSE 0
  BY DEF Incomplete, SelectInSeq
<1>3. T # {} => Min(T) \in T /\ \A m \in T : Min(T) <= m
  <2>1. T \in SUBSET Nat
    BY <1>1
  <2> HIDE DEF T
  <2> QED
    BY <2>1, MinIsLeast
<1>4. RouteFlaws(f) = {Flaw(3, i, "routes", i) : i \in T}
  BY <1>1 DEF RouteFlaws
<1>5. T \subseteq Nat /\ 0 \notin T
  BY <1>1
<1> HIDE DEF T, k, n
<1>6. \A i : /\ Flaw(3, i, "routes", i).section = 3 /\ Flaw(3, i, "routes", i).position = i
             /\ Flaw(3, i, "routes", i).error = Mistake("routes", i)
  BY DEF Flaw
<1>7. CASE T = {}
  <2>1. k = 0
    BY <1>2, <1>7
  <2>2. Check(k # 0, "routes", k) = NoError
    BY <2>1 DEF Check
  <2> QED
    BY <1>4, <1>7, <2>2 DEF Reports, k
<1>8. CASE T # {}
  <2>1. k \in T /\ \A m \in T : k <= m
    BY <1>2, <1>3, <1>8
  <2>2. Check(k # 0, "routes", k) = Mistake("routes", k)
    BY <1>5, <2>1 DEF Check
  <2>3. IsError(Mistake("routes", k))
    BY DEF IsError, Mistake
  <2> DEFINE e == Flaw(3, k, "routes", k)
  <2>4. e \in RouteFlaws(f) /\ e.error = Mistake("routes", k)
    BY <1>4, <1>6, <2>1
  <2>5. \A g \in RouteFlaws(f) : NotAfter(e, g)
    BY <1>4, <1>6, <2>1 DEF NotAfter
  <2> HIDE DEF e
  <2>6. Reports(Mistake("routes", k), RouteFlaws(f))
    BY <2>3, <2>4, <2>5 DEF Reports
  <2> QED
    BY <1>4, <1>6, <2>2, <2>6 DEF k
<1> QED
  BY <1>7, <1>8

-----------------------------------------------------------------------------
\* The loop over the applications.  After each turn, either no application so
\* far has a flaw and the tables hold them all, or the error is of the first
\* that has one.
NoApps == [error |-> NoError, apps |-> <<>>, limits |-> <<>>]

Turns(g, f, names, n) ==
  g = [k \in 0..n |-> IF k = 0 THEN NoApps ELSE AddApp(f, g[k - 1], names[k])]

LEMMA TurnsAt ==
  ASSUME NEW g, NEW f, NEW names, NEW n \in Nat, Turns(g, f, names, n)
  PROVE  /\ g[0] = NoApps
         /\ \A k \in 1..n : g[k] = AddApp(f, g[k - 1], names[k])
<1> DEFINE e(k) == IF k = 0 THEN NoApps ELSE AddApp(f, g[k - 1], names[k])
           G == [k \in 0..n |-> e(k)]
<1>1. g = G
  BY DEF Turns
<1>2. \A k \in 0..n : G[k] = e(k)
  <2> HIDE DEF e
  <2> QED
    OBVIOUS
<1> HIDE DEF G
<1>3. \A k \in 0..n : g[k] = e(k)
  BY <1>1, <1>2, Zenon
<1> QED
  BY <1>3

LEMMA TurnsExist ==
  ASSUME NEW f, NEW names, NEW n \in Nat
  PROVE  \E g : Turns(g, f, names, n)
<1> DEFINE T == {k \in Nat : \E g : Turns(g, f, names, k)}
<1>1. 0 \in T
  <2> DEFINE g == [k \in 0..0 |-> NoApps]
  <2>1. g = [k \in 0..0 |-> IF k = 0 THEN NoApps ELSE AddApp(f, g[k - 1], names[k])]
    OBVIOUS
  <2>2. Turns(g, f, names, 0)
    BY <2>1 DEF Turns
  <2> QED
    BY <2>2
<1>2. ASSUME NEW k \in Nat, k \in T PROVE k + 1 \in T
  <2>1. PICK g : Turns(g, f, names, k)
    BY <1>2
  <2> DEFINE h == [i \in 0..(k + 1) |-> IF i <= k THEN g[i] ELSE AddApp(f, g[i - 1], names[i])]
  <2>2. ASSUME NEW i \in 0..(k + 1)
        PROVE  h[i] = IF i = 0 THEN NoApps ELSE AddApp(f, h[i - 1], names[i])
    <3>1. i # 0 => i - 1 \in 0..k /\ h[i - 1] = g[i - 1]
      OBVIOUS
    <3>2. i <= k => g[i] = IF i = 0 THEN NoApps ELSE AddApp(f, g[i - 1], names[i])
      BY <2>1, TurnsAt
    <3>3. h[i] = IF i <= k THEN g[i] ELSE AddApp(f, g[i - 1], names[i])
      OBVIOUS
    <3> HIDE DEF h
    <3> QED
      BY <3>1, <3>2, <3>3
  <2>3. h = [i \in 0..(k + 1) |-> IF i = 0 THEN NoApps ELSE AddApp(f, h[i - 1], names[i])]
    BY <2>2
  <2>4. Turns(h, f, names, k + 1)
    BY <2>3 DEF Turns
  <2> QED
    BY <2>4
<1> QED
  <2> HIDE DEF T
  <2>1. Nat \subseteq T
    BY <1>1, <1>2, NatSetInduction
  <2> QED
    BY <2>1 DEF T

LEMMA AppsAfterIs ==
  ASSUME NEW f, NEW names, NEW n \in Nat, Len(names) = n
  PROVE  Turns(AppsAfter(f, names), f, names, n)
<1> DEFINE g == CHOOSE h : h = [k \in 0..Len(names) |->
                                  IF k = 0 THEN [error |-> NoError, apps |-> <<>>, limits |-> <<>>]
                                  ELSE AddApp(f, h[k - 1], names[k])]
<1>1. Turns(g, f, names, n)
  BY TurnsExist DEF Turns, NoApps
<1>2. AppsAfter(f, names) = g
  BY DEF AppsAfter
<1> QED
  BY <1>1, <1>2

-----------------------------------------------------------------------------
\* names lists the applications of the file, each once and in order.
ListsApps(names, f) ==
  /\ Len(names) \in Nat
  /\ DOMAIN f.apps = {names[i] : i \in 1..Len(names)}
  /\ \A i \in 1..Len(names) : PlaceIn(AppOrder, names[i]) \in Int
  /\ \A i, j \in 1..Len(names) : i < j => PlaceIn(AppOrder, names[i]) < PlaceIn(AppOrder, names[j])

SubjectOf(f, name) == f.apps[name].subject
AppOf(f, name)     == [name |-> name, policy |-> policyToDomain(f.apps[name].policy)]

\* The tables hold the first k applications, each under its own subject.
HoldsApps(f, names, k, acc) ==
  /\ DOMAIN acc.limits = {names[i] : i \in 1..k}
  /\ DOMAIN acc.apps = {SubjectOf(f, names[i]) : i \in 1..k}
  /\ \A i \in 1..k : /\ acc.limits[names[i]] = f.apps[names[i]].maxInFlight
                     /\ acc.apps[SubjectOf(f, names[i])] = AppOf(f, names[i])

NoFlawsTo(f, names, k) == \A i \in 1..k : AppFlaws(f, names[i]) = {}

LoopInv(f, names, k, acc) ==
  \/ NoFlawsTo(f, names, k) /\ acc.error = NoError /\ HoldsApps(f, names, k, acc)
  \/ /\ IsError(acc.error)
     /\ \E i \in 1..k : /\ NoFlawsTo(f, names, i - 1)
                        /\ Reports(acc.error, AppFlaws(f, names[i]))

\* One application: its checks see the subjects of those before it.
LEMMA AppReports ==
  ASSUME NEW f, IsFile(f), NEW names, ListsApps(names, f), NEW k \in 1..Len(names), NEW taken,
         DOMAIN taken = {SubjectOf(f, names[i]) : i \in 1..(k - 1)}
  PROVE  /\ Reports(AppMistake(f, taken, names[k]), AppFlaws(f, names[k]))
         /\ OfPlace(AppFlaws(f, names[k]), 6, PlaceIn(AppOrder, names[k]))
         /\ AppFlaws(f, names[k]) = {} => SubjectOf(f, names[k]) \notin DOMAIN taken
<1> DEFINE name == names[k]
           a == f.apps[name]
           at == PlaceIn(AppOrder, name)
           cap == f.server.globalMaxInFlight
           list == policyToDomain(a.policy).allowlist
           dup == \E m \in DOMAIN f.apps : PlaceIn(AppOrder, m) < at /\ f.apps[m].subject = a.subject
           c1 == Check(a.subject = "", "subject", name)
           c2 == Check(a.subject \in DOMAIN taken, "subject taken", name)
           c3 == Check(cap > 0 /\ a.maxInFlight > cap, "max_in_flight", name)
           c4 == Check(~ToSet(list) \subseteq RoutedModels(f), "allowlist", name)
           one(what) == {Flaw(6, at, what, name)}
           F1 == If(a.subject = "", one("subject"))
           F2 == If(dup, one("subject taken"))
           F3 == If(cap \in 1..(a.maxInFlight - 1), one("max_in_flight"))
           F4 == If(a.policy.form = "allowlist" /\ ~ToSet(a.policy.list) \subseteq RoutedModels(f), one("allowlist"))
<1>1. name \in DOMAIN f.apps /\ at \in Int /\ cap \in Int /\ a.maxInFlight \in Int /\ k \in Nat
  BY DEF ListsApps, IsFile
<1>2. (a.subject \in DOMAIN taken) <=> dup
  <2>1. ASSUME NEW i \in 1..Len(names)
        PROVE  PlaceIn(AppOrder, names[i]) < at <=> i < k
    <3>1. PlaceIn(AppOrder, names[i]) \in Int /\ Len(names) \in Nat /\ i \in Nat
      BY DEF ListsApps
    <3>2. /\ i < k => PlaceIn(AppOrder, names[i]) < at
          /\ k < i => at < PlaceIn(AppOrder, names[i])
          /\ k = i => at = PlaceIn(AppOrder, names[i])
      BY DEF ListsApps
    <3> HIDE DEF at
    <3> QED
      BY <1>1, <3>1, <3>2
  <2>2. Len(names) \in Nat /\ DOMAIN f.apps = {names[i] : i \in 1..Len(names)}
    BY DEF ListsApps
  <2>3. \A i : i \in 1..(k - 1) <=> i \in 1..Len(names) /\ i < k
    BY <1>1, <2>2
  <2> HIDE DEF at, a
  <2>4. dup <=> \E i \in 1..Len(names) : i < k /\ f.apps[names[i]].subject = a.subject
    BY <2>1, <2>2
  <2>5. a.subject \in DOMAIN taken <=> \E i \in 1..(k - 1) : f.apps[names[i]].subject = a.subject
    BY DEF SubjectOf
  <2> QED
    BY <2>3, <2>4, <2>5
<1>3. (cap > 0 /\ a.maxInFlight > cap) <=> cap \in 1..(a.maxInFlight - 1)
  <2> HIDE DEF cap, a
  <2> QED
    BY <1>1
<1>4. (~ToSet(list) \subseteq RoutedModels(f)) <=>
        (a.policy.form = "allowlist" /\ ~ToSet(a.policy.list) \subseteq RoutedModels(f))
  <2>1. CASE a.policy.form = "allowlist"
    <3>1. list = a.policy.list
      BY <2>1 DEF policyToDomain, AllowlistOf
    <3> QED
      BY <2>1, <3>1
  <2>2. CASE a.policy.form # "allowlist"
    <3>1. list = <<>>
      BY <2>2 DEF policyToDomain, AnyModel, SameModel
    <3>2. ToSet(<<>>) = {}
      BY DEF ToSet
    <3> QED
      BY <2>2, <3>1, <3>2
  <2> QED
    BY <2>1, <2>2
<1>5. AppMistake(f, taken, name) = FirstOf(<<c1, c2, c3, c4>>)
  BY DEF AppMistake
<1>6. AppFlaws(f, name) = F1 \cup F2 \cup F3 \cup F4
  BY DEF AppFlaws
<1>7. AppFlaws(f, name) = {} => a.subject \notin DOMAIN taken
  <2>1. F2 = {} => ~dup
    BY DEF If
  <2> HIDE DEF F1, F2, F3, F4, dup
  <2> QED
    BY <1>2, <1>6, <2>1
<1>8. Matches(c1, F1, 6, at)
  <2> HIDE DEF at, a, name
  <2> QED
    BY DEF Matches, Check, If
<1>9. Matches(c2, F2, 6, at)
  <2> HIDE DEF at, a, name, dup
  <2> QED
    BY <1>2 DEF Matches, Check, If
<1>10. Matches(c3, F3, 6, at)
  <2> HIDE DEF at, a, name, cap
  <2> QED
    BY <1>3 DEF Matches, Check, If
<1>11. Matches(c4, F4, 6, at)
  <2> HIDE DEF at, a, name, list
  <2> QED
    BY <1>4 DEF Matches, Check, If
<1> HIDE DEF c1, c2, c3, c4, F1, F2, F3, F4, at, a, name
<1> DEFINE chain == <<c1, c2, c3, c4>>
           FF == <<F1, F2, F3, F4>>
<1>12. \A i \in 1..4 : Matches(chain[i], FF[i], 6, at)
  BY <1>8, <1>9, <1>10, <1>11
<1>13. Len(chain) = 4
  OBVIOUS
<1>14. FlawsUpTo(FF, 4) = AppFlaws(f, name)
  BY <1>6, FlawsOf4
<1> HIDE DEF chain, FF
<1>15. Reports(FirstOf(chain), FlawsUpTo(FF, 4)) /\ OfPlace(FlawsUpTo(FF, 4), 6, at)
  BY <1>1, <1>12, <1>13, EntryReports
<1> QED
  BY <1>5, <1>7, <1>14, <1>15 DEF chain, at, name, a, SubjectOf

LEMMA LoopStep ==
  ASSUME NEW f, IsFile(f), NEW names, ListsApps(names, f), NEW k \in 1..Len(names), NEW acc,
         LoopInv(f, names, k - 1, acc)
  PROVE  LoopInv(f, names, k, AddApp(f, acc, names[k]))
<1> DEFINE name == names[k]
           F == AppFlaws(f, name)
           m == AppMistake(f, acc.apps, name)
           new == AddApp(f, acc, name)
<1>1. k \in Nat /\ k - 1 \in Nat /\ Len(names) \in Nat /\ k \in 1..k
  BY DEF ListsApps
<1>2. 1..k = 1..(k - 1) \cup {k}
  BY <1>1
<1>3. CASE /\ IsError(acc.error)
           /\ \E i \in 1..(k - 1) : /\ NoFlawsTo(f, names, i - 1)
                                    /\ Reports(acc.error, AppFlaws(f, names[i]))
  <2>1. new = acc
    BY <1>3 DEF AddApp
  <2> HIDE DEF new
  <2> QED
    BY <1>2, <1>3, <2>1 DEF LoopInv, new
<1>4. CASE NoFlawsTo(f, names, k - 1) /\ acc.error = NoError /\ HoldsApps(f, names, k - 1, acc)
  <2>1. ~IsError(acc.error)
    BY <1>4 DEF IsError, NoError
  <2>2. /\ Reports(m, F)
        /\ F = {} => SubjectOf(f, name) \notin DOMAIN acc.apps
    <3> DEFINE taken == acc.apps
    <3>1. DOMAIN taken = {SubjectOf(f, names[i]) : i \in 1..(k - 1)}
      BY <1>4 DEF HoldsApps
    <3> HIDE DEF taken
    <3>2. /\ Reports(AppMistake(f, taken, names[k]), AppFlaws(f, names[k]))
          /\ AppFlaws(f, names[k]) = {} => SubjectOf(f, names[k]) \notin DOMAIN taken
      BY <3>1, AppReports
    <3> QED
      BY <3>2 DEF taken
  <2>3. CASE IsError(m)
    <3>1. new = [error |-> m, apps |-> <<>>, limits |-> <<>>]
      BY <2>1, <2>3 DEF AddApp
    <3>2. new.error = m
      BY <3>1
    <3> HIDE DEF new, m
    <3> QED
      BY <1>1, <1>4, <2>2, <2>3, <3>2 DEF LoopInv, new
  <2>4. CASE ~IsError(m)
    <3>1. F = {}
      <4> HIDE DEF F, m
      <4> QED
        BY <2>2, <2>4 DEF Reports
    <3> DEFINE s == SubjectOf(f, name)
               apps == Put(acc.apps, s, AppOf(f, name))
               limits == Put(acc.limits, name, f.apps[name].maxInFlight)
    <3>2. new = [error |-> NoError, apps |-> apps, limits |-> limits]
      BY <2>1, <2>4 DEF AddApp, SubjectOf, AppOf
    <3>3. new.error = NoError /\ new.apps = apps /\ new.limits = limits
      <4> HIDE DEF apps, limits, new
      <4> QED
        BY <3>2
    <3>4. /\ DOMAIN apps = DOMAIN acc.apps \cup {s} /\ apps[s] = AppOf(f, name)
          /\ \A y \in DOMAIN acc.apps : y # s => apps[y] = acc.apps[y]
      <4> DEFINE map == acc.apps
                 v == AppOf(f, name)
      <4> HIDE DEF s, map, v
      <4>1. /\ DOMAIN Put(map, s, v) = DOMAIN map \cup {s} /\ Put(map, s, v)[s] = v
            /\ \A y \in DOMAIN map : y # s => Put(map, s, v)[y] = map[y]
        BY DEF Put
      <4> QED
        BY <4>1 DEF map, v
    <3>5. /\ DOMAIN limits = DOMAIN acc.limits \cup {name} /\ limits[name] = f.apps[name].maxInFlight
          /\ \A y \in DOMAIN acc.limits : y # name => limits[y] = acc.limits[y]
      <4> DEFINE map == acc.limits
                 v == f.apps[name].maxInFlight
      <4> HIDE DEF name, map, v
      <4>1. /\ DOMAIN Put(map, name, v) = DOMAIN map \cup {name} /\ Put(map, name, v)[name] = v
            /\ \A y \in DOMAIN map : y # name => Put(map, name, v)[y] = map[y]
        BY DEF Put
      <4> QED
        BY <4>1 DEF map, v
    <3>6. s \notin DOMAIN acc.apps
      BY <2>2, <3>1
    <3>7. name \notin DOMAIN acc.limits
      <4> SUFFICES ASSUME name \in DOMAIN acc.limits PROVE FALSE
        OBVIOUS
      <4>1. PICK i \in 1..(k - 1) : names[i] = names[k]
        BY <1>4 DEF HoldsApps
      <4>2. i \in 1..Len(names) /\ i < k
        BY <1>1
      <4>3. PlaceIn(AppOrder, names[i]) < PlaceIn(AppOrder, names[k]) /\ PlaceIn(AppOrder, names[k]) \in Int
        BY <4>2 DEF ListsApps
      <4> QED
        BY <4>1, <4>3
    <3> HIDE DEF apps, limits, new
    <3>8. HoldsApps(f, names, k, new)
      <4>1. DOMAIN limits = {names[i] : i \in 1..k}
        BY <1>2, <1>4, <3>5 DEF HoldsApps
      <4>2. DOMAIN apps = {SubjectOf(f, names[i]) : i \in 1..k}
        BY <1>2, <1>4, <3>4 DEF HoldsApps
      <4>3. ASSUME NEW i \in 1..k
            PROVE  /\ limits[names[i]] = f.apps[names[i]].maxInFlight
                   /\ apps[SubjectOf(f, names[i])] = AppOf(f, names[i])
        <5>1. CASE i = k
          BY <3>4, <3>5, <5>1
        <5>2. CASE i # k
          <6>1. i \in 1..(k - 1)
            BY <1>2, <5>2
          <6>2. names[i] \in DOMAIN acc.limits /\ SubjectOf(f, names[i]) \in DOMAIN acc.apps
            BY <1>4, <6>1 DEF HoldsApps
          <6>3. /\ acc.limits[names[i]] = f.apps[names[i]].maxInFlight
                /\ acc.apps[SubjectOf(f, names[i])] = AppOf(f, names[i])
            BY <1>4, <6>1 DEF HoldsApps
          <6> HIDE DEF s, name
          <6> QED
            BY <3>4, <3>5, <3>6, <3>7, <6>2, <6>3
        <5> QED
          BY <5>1, <5>2
      <4> QED
        BY <3>3, <4>1, <4>2, <4>3 DEF HoldsApps
    <3>9. NoFlawsTo(f, names, k)
      BY <1>2, <1>4, <3>1 DEF NoFlawsTo
    <3> QED
      BY <3>3, <3>8, <3>9 DEF LoopInv, new
  <2> QED
    BY <2>3, <2>4
<1> QED
  BY <1>3, <1>4 DEF LoopInv

LEMMA LoopDone ==
  ASSUME NEW f, IsFile(f), NEW names, ListsApps(names, f)
  PROVE  LoopInv(f, names, Len(names), AppsAfter(f, names)[Len(names)])
<1> DEFINE n == Len(names)
           g == AppsAfter(f, names)
           T == {k \in Nat : k <= n => LoopInv(f, names, k, g[k])}
<1>1. n \in Nat
  BY DEF ListsApps
<1>2. Turns(g, f, names, n)
  BY <1>1, AppsAfterIs
<1> HIDE DEF n, g
<1>3. g[0] = NoApps /\ \A k \in 1..n : g[k] = AddApp(f, g[k - 1], names[k])
  BY <1>1, <1>2, TurnsAt
<1>4. 0 \in T
  <2>1. NoFlawsTo(f, names, 0)
    BY DEF NoFlawsTo
  <2>2. DOMAIN NoApps.limits = {} /\ DOMAIN NoApps.apps = {} /\ NoApps.error = NoError
    BY DEF NoApps
  <2>3. HoldsApps(f, names, 0, NoApps)
    BY <2>2 DEF HoldsApps
  <2> QED
    BY <1>3, <2>1, <2>2, <2>3 DEF LoopInv
<1>5. ASSUME NEW k \in Nat, k \in T PROVE k + 1 \in T
  <2> SUFFICES ASSUME k + 1 <= n PROVE LoopInv(f, names, k + 1, g[k + 1])
    OBVIOUS
  <2> DEFINE l == k + 1
  <2>1. l \in 1..n /\ l - 1 = k /\ k <= n
    BY <1>1
  <2>2. LoopInv(f, names, l - 1, g[l - 1])
    BY <1>5, <2>1
  <2>3. g[l] = AddApp(f, g[l - 1], names[l])
    BY <1>3, <2>1
  <2> HIDE DEF l
  <2>4. LoopInv(f, names, l, AddApp(f, g[l - 1], names[l]))
    BY <2>1, <2>2, LoopStep DEF n
  <2> QED
    BY <2>3, <2>4 DEF l
<1>6. n \in T
  <2> HIDE DEF T
  <2> QED
    BY <1>1, <1>4, <1>5, NatSetInduction
<1> QED
  BY <1>1, <1>6 DEF n, g

-----------------------------------------------------------------------------
\* The flaws of every application.
AppsFlaws(f) == UNION {AppFlaws(f, n) : n \in DOMAIN f.apps}

LEMMA AppsListed ==
  ASSUME NEW f, IsFile(f)
  PROVE  ListsApps(Sorted(AppOrder, DOMAIN f.apps), f)
<1> DEFINE A == DOMAIN f.apps
           E == ToSet(AppOrder)
           names == Sorted(AppOrder, A)
<1>1. A \in SUBSET ToSet(AppOrder) /\ AppOrder \in Seq(E) /\ IsInjective(AppOrder)
  BY NameOrderAssumption DEF IsFile
<1> HIDE DEF A, E
<1>2. /\ Sorted(AppOrder, A) \in Seq(E) /\ ToSet(Sorted(AppOrder, A)) = A
      /\ \A x \in ToSet(AppOrder) : PlaceIn(AppOrder, x) \in Nat
      /\ \A i, j \in DOMAIN Sorted(AppOrder, A) : i < j =>
           PlaceIn(AppOrder, Sorted(AppOrder, A)[i]) < PlaceIn(AppOrder, Sorted(AppOrder, A)[j])
  BY <1>1, SortedIs
<1> HIDE DEF names
<1>3. Len(names) \in Nat /\ DOMAIN names = 1..Len(names)
  BY <1>2 DEF names
<1>4. A = {names[i] : i \in 1..Len(names)}
  BY <1>2, <1>3 DEF ToSet, names
<1>5. \A i \in 1..Len(names) : PlaceIn(AppOrder, names[i]) \in Nat
  BY <1>1, <1>2, <1>4
<1>6. \A i, j \in 1..Len(names) : i < j => PlaceIn(AppOrder, names[i]) < PlaceIn(AppOrder, names[j])
  BY <1>2, <1>3 DEF names
<1> QED
  BY <1>3, <1>4, <1>5, <1>6 DEF ListsApps, names, A

LEMMA AppsPlaced ==
  ASSUME NEW f, IsFile(f), NEW names, ListsApps(names, f), NEW k \in 1..Len(names)
  PROVE  OfPlace(AppFlaws(f, names[k]), 6, PlaceIn(AppOrder, names[k]))
<1> DEFINE taken == [x \in {SubjectOf(f, names[i]) : i \in 1..(k - 1)} |-> x]
<1>1. DOMAIN taken = {SubjectOf(f, names[i]) : i \in 1..(k - 1)}
  OBVIOUS
<1> HIDE DEF taken
<1> QED
  BY <1>1, AppReports

LEMMA AppsReport ==
  ASSUME NEW f, IsFile(f)
  PROVE  /\ Reports(Applications(f).error, AppsFlaws(f))
         /\ \A g \in AppsFlaws(f) : g.section = 6
         /\ AppsFlaws(f) = {} =>
              \E names : /\ DOMAIN f.apps = {names[i] : i \in 1..Len(names)}
                         /\ HoldsApps(f, names, Len(names), Applications(f))
<1> DEFINE names == Sorted(AppOrder, DOMAIN f.apps)
           n == Len(names)
           acc == AppsAfter(f, names)[n]
           at(k) == PlaceIn(AppOrder, names[k])
           F(k) == AppFlaws(f, names[k])
<1>1. Applications(f) = acc
  BY DEF Applications
<1>2. ListsApps(names, f)
  BY AppsListed
<1> HIDE DEF names
<1>3. LoopInv(f, names, n, acc)
  BY <1>2, LoopDone
<1> HIDE DEF acc
<1>4. /\ n \in Nat /\ DOMAIN f.apps = {names[i] : i \in 1..n}
      /\ \A i \in 1..n : at(i) \in Int
      /\ \A i, j \in 1..n : i < j => at(i) < at(j)
  BY <1>2 DEF ListsApps
<1>5. \A k \in 1..n : OfPlace(F(k), 6, at(k))
  BY <1>2, AppsPlaced
<1> HIDE DEF n, at, F
<1>6. AppsFlaws(f) = UNION {F(k) : k \in 1..n}
  BY <1>4 DEF AppsFlaws, F
<1>7. \A g \in AppsFlaws(f) : g.section = 6
  BY <1>5, <1>6 DEF OfPlace
<1>8. CASE NoFlawsTo(f, names, n) /\ acc.error = NoError /\ HoldsApps(f, names, n, acc)
  <2>1. \A k \in 1..n : F(k) = {}
    BY <1>8 DEF NoFlawsTo, F
  <2>2. AppsFlaws(f) = {}
    BY <1>6, <2>1
  <2> QED
    BY <1>1, <1>4, <1>7, <1>8, <2>2 DEF Reports, n
<1>9. ASSUME IsError(acc.error), NEW i \in 1..n, NoFlawsTo(f, names, i - 1),
             Reports(acc.error, AppFlaws(f, names[i]))
      PROVE  Reports(acc.error, AppsFlaws(f)) /\ AppsFlaws(f) # {}
  <2>1. \A k \in 1..n : k < i => F(k) = {}
    <3> SUFFICES ASSUME NEW k \in 1..n, k < i PROVE F(k) = {}
      OBVIOUS
    <3>1. k \in 1..(i - 1)
      BY <1>4
    <3> QED
      BY <1>9, <3>1 DEF NoFlawsTo, F
  <2>2. acc.error # NoError
    BY <1>9 DEF IsError, NoError
  <2>3. PICK e \in F(i) : e.error = acc.error /\ \A g \in F(i) : NotAfter(e, g)
    BY <1>9, <2>2 DEF Reports, F
  <2>4. ASSUME NEW k \in 1..n, NEW g \in F(k) PROVE NotAfter(e, g)
    <3>1. CASE k = i
      BY <2>3, <2>4, <3>1
    <3>2. CASE k < i
      BY <2>1, <2>4, <3>2
    <3>3. CASE i < k
      <4>1. e.section = 6 /\ e.position = at(i) /\ g.section = 6 /\ g.position = at(k)
        BY <1>5, <2>4 DEF OfPlace
      <4>2. at(i) < at(k) /\ at(i) \in Int /\ at(k) \in Int
        BY <1>4, <3>3
      <4> QED
        BY <4>1, <4>2 DEF NotAfter
    <3> QED
      BY <1>4, <3>1, <3>2, <3>3
  <2>5. \A g \in AppsFlaws(f) : NotAfter(e, g)
    BY <1>6, <2>4
  <2>6. e \in AppsFlaws(f)
    BY <1>6
  <2> QED
    BY <1>9, <2>3, <2>5, <2>6 DEF Reports
<1> QED
  BY <1>1, <1>3, <1>7, <1>8, <1>9 DEF LoopInv

-----------------------------------------------------------------------------
\* The file: every section, in the order it is checked.
Mistakes(f) ==
  FirstOf(<<
    Check(~Decodes(f), "decode", "file"),
    Check(f.auth.interval < 0, "interval", "auth"),
    Check(Incomplete(f) # 0, "routes", Incomplete(f)),
    secretSource(f.secrets, RoutedProviders(f)).error,
    Applications(f).error>>)

LEMMA FileReports ==
  ASSUME NEW f, IsFile(f)
  PROVE  Reports(Mistakes(f), Flaws(f))
<1> DEFINE at == 0
           d1 == ~Decodes(f)
           d2 == f.auth.interval < 0
           c1 == Check(d1, "decode", "file")
           c2 == Check(d2, "interval", "auth")
           c3 == Check(Incomplete(f) # 0, "routes", Incomplete(f))
           c4 == secretSource(f.secrets, RoutedProviders(f)).error
           c5 == Applications(f).error
           F1 == If(d1, {Flaw(1, 0, "decode", "file")})
           F2 == If(d2, {Flaw(2, 0, "interval", "auth")})
           F3 == RouteFlaws(f)
           F4 == SourceFlaws(f) \cup SecretFlaws(f)
           F5 == AppsFlaws(f)
<1>1. at \in Int
  OBVIOUS
<1>2. Matches(c1, F1, 1, at) /\ Matches(c2, F2, 2, at)
  <2> HIDE DEF d1, d2
  <2> QED
    BY DEF Matches, Check, If
<1>3. Reports(c3, F3) /\ \A g \in F3 : g.section = 3
  BY RoutesReport
<1>4. Reports(c4, F4) /\ \A g \in F4 : g.section = 4 \/ g.section = 5
  BY SecretsReport
<1>5. Reports(c5, F5) /\ \A g \in F5 : g.section = 6
  BY AppsReport
<1>6. Flaws(f) = F1 \cup F2 \cup F3 \cup F4 \cup F5
  BY DEF Flaws, SecretFlaws, AppsFlaws
<1>7. Mistakes(f) = FirstOf(<<c1, c2, c3, c4, c5>>)
  BY DEF Mistakes
<1> HIDE DEF at, c1, c2, c3, c4, c5, F1, F2, F3, F4, F5
<1>8. /\ Reports(c1, F1) /\ \A g \in F1 : g.section = 1
      /\ Reports(c2, F2) /\ \A g \in F2 : g.section = 2
  BY <1>1, <1>2, MatchReports DEF OfPlace
<1> DEFINE chain == <<c1, c2, c3, c4, c5>>
           FF == <<F1, F2, F3, F4, F5>>
<1>9. (\A i \in 1..5 : Reports(chain[i], FF[i])) /\ Len(chain) = 5
  BY <1>3, <1>4, <1>5, <1>8
<1>10. \A i, j \in 1..5 : i < j => Precede(FF[i], FF[j])
  <2>1. Precede(F1, F2) /\ Precede(F1, F3) /\ Precede(F1, F4) /\ Precede(F1, F5)
    BY <1>3, <1>4, <1>5, <1>8 DEF Precede, NotAfter
  <2>2. Precede(F2, F3) /\ Precede(F2, F4) /\ Precede(F2, F5)
    BY <1>3, <1>4, <1>5, <1>8 DEF Precede, NotAfter
  <2>3. Precede(F3, F4) /\ Precede(F3, F5) /\ Precede(F4, F5)
    BY <1>3, <1>4, <1>5 DEF Precede, NotAfter
  <2> QED
    BY <2>1, <2>2, <2>3
<1>11. FlawsUpTo(FF, 5) = F1 \cup F2 \cup F3 \cup F4 \cup F5
  BY FlawsOf5
<1> HIDE DEF chain, FF
<1>12. Reports(FirstOf(chain), FlawsUpTo(FF, 5))
  BY <1>9, <1>10, FirstReports
<1> QED
  BY <1>6, <1>7, <1>11, <1>12 DEF chain

LEMMA wireToDomainIs ==
  ASSUME NEW f
  PROVE  /\ IsError(Mistakes(f)) => ~wireToDomain(f).ok /\ wireToDomain(f).error = Mistakes(f)
         /\ ~IsError(Mistakes(f)) =>
              /\ wireToDomain(f).ok
              /\ wireToDomain(f).keys = Interval(f.auth.interval, defaultRefreshInterval)
              /\ wireToDomain(f).routes = [i \in DOMAIN f.routes |->
                   [model |-> f.routes[i].model, provider |-> f.routes[i].provider]]
              /\ wireToDomain(f).apps = Applications(f).apps
              /\ wireToDomain(f).limits = Applications(f).limits
              /\ wireToDomain(f).secrets = secretSource(f.secrets, RoutedProviders(f)).domain
<1> DEFINE routes == [i \in DOMAIN f.routes |->
                        [model |-> f.routes[i].model, provider |-> f.routes[i].provider]]
           period == Interval(f.auth.interval, defaultRefreshInterval)
           domain == secretSource(f.secrets, RoutedProviders(f)).domain
           config == [ok       |-> TRUE,
                      keys     |-> period,
                      identity |-> f.auth.identity,
                      routes   |-> routes,
                      apps     |-> Applications(f).apps,
                      limits   |-> Applications(f).limits,
                      server   |-> f.server,
                      secrets  |-> domain]
           refusal == [ok |-> FALSE, error |-> Mistakes(f)]
<1>1. wireToDomain(f) = IF IsError(Mistakes(f)) THEN refusal ELSE config
  BY DEF wireToDomain, Mistakes
<1> HIDE DEF routes, period, domain
<1>2. CASE IsError(Mistakes(f))
  <2>1. wireToDomain(f) = refusal
    BY <1>1, <1>2
  <2>2. ~refusal.ok /\ refusal.error = Mistakes(f)
    OBVIOUS
  <2> QED
    BY <1>2, <2>1, <2>2
<1>3. CASE ~IsError(Mistakes(f))
  <2>1. wireToDomain(f) = config
    BY <1>1, <1>3
  <2>2. /\ config.ok /\ config.keys = period /\ config.routes = routes
        /\ config.apps = Applications(f).apps /\ config.limits = Applications(f).limits
        /\ config.secrets = domain
    OBVIOUS
  <2> HIDE DEF config
  <2> QED
    BY <1>3, <2>1, <2>2 DEF routes, period, domain
<1> QED
  BY <1>2, <1>3

\* The secrets of a file without a flaw.
LEMMA LoopsFed ==
  ASSUME NEW f, IsFile(f), Flaws(f) = {}, ~IsError(Mistakes(f))
  PROVE  LoopsAreFed(wireToDomain(f))
<1> DEFINE config == wireToDomain(f)
           src == f.secrets
           domain == secretSource(src, RoutedProviders(f)).domain
           block == Interval(src.interval, defaultRefreshInterval)
           P == DOMAIN src.providers
           routed == {config.routes[i].provider : i \in DOMAIN config.routes}
<1>1. /\ If(f.auth.interval < 0, {Flaw(2, 0, "interval", "auth")}) = {}
      /\ SourceFlaws(f) = {}
      /\ \A p \in P : ProviderFlaws(f, p) = {}
  BY DEF Flaws
<1>2. /\ config.keys = Interval(f.auth.interval, defaultRefreshInterval)
      /\ config.routes = [i \in DOMAIN f.routes |->
                            [model |-> f.routes[i].model, provider |-> f.routes[i].provider]]
      /\ config.secrets = domain
  BY wireToDomainIs
<1> HIDE DEF config
<1>3. /\ f.auth.interval \in Int /\ src.interval \in Int
      /\ \A p \in P : src.providers[p].interval \in Int
  BY DEF IsFile
<1>4. \A i \in Int : i >= 0 => Interval(i, defaultRefreshInterval) > 0
  BY DEF Interval, defaultRefreshInterval
<1>5. config.keys > 0
  <2>1. ~(f.auth.interval < 0)
    BY <1>1 DEF If
  <2> QED
    BY <1>2, <1>3, <1>4, <2>1
<1>6. src.interval >= 0 /\ ~(src.kind = "" /\ P # {})
  <2> DEFINE one(what) == {Flaw(4, 0, what, "secret_source")}
             d1 == src.interval < 0
             d2 == src.kind = "" /\ P # {}
  <2>1. If(d1, one("interval")) \cup If(d2, one("kind required")) \subseteq SourceFlaws(f)
    <3> HIDE DEF one
    <3> QED
      BY DEF SourceFlaws, one
  <2>2. If(d1, one("interval")) = {} /\ If(d2, one("kind required")) = {}
    BY <1>1, <2>1
  <2>3. ~d1 /\ ~d2
    <3> HIDE DEF d1, d2
    <3> QED
      BY <2>2 DEF If
  <2>4. src.interval >= 0
    <3> DEFINE i == src.interval
    <3>1. i \in Int /\ ~(i < 0)
      BY <1>3, <2>3
    <3> HIDE DEF i
    <3>2. i >= 0
      BY <3>1
    <3> QED
      BY <3>2 DEF i
  <2> QED
    BY <2>3, <2>4
<1>7. block > 0 /\ block \in Int
  <2>1. block \in Int
    BY <1>3 DEF Interval, defaultRefreshInterval
  <2> QED
    BY <1>3, <1>4, <1>6, <2>1
<1> HIDE DEF block
<1>8. /\ domain.kind = src.kind
      /\ domain.providers = [p \in P |-> Interval(src.providers[p].interval, block)]
  BY DEF secretSource, block
<1> HIDE DEF domain, P, src
<1>9. DOMAIN config.secrets.providers = P
  BY <1>2, <1>8
<1>10. ASSUME NEW p \in P PROVE config.secrets.providers[p] > 0 /\ p \in routed
  <2>1. src.providers[p].interval >= 0 /\ p \in RoutedProviders(f)
    <3> DEFINE one(what) == {Flaw(5, PlaceIn(NameOrder, p), what, p)}
               d1 == f.secrets.providers[p].interval < 0
               d2 == p \notin RoutedProviders(f)
    <3>1. If(d1, one("interval")) \cup If(d2, one("not routed")) \subseteq ProviderFlaws(f, p)
      BY DEF ProviderFlaws
    <3>2. If(d1, one("interval")) = {} /\ If(d2, one("not routed")) = {}
      BY <1>1, <3>1
    <3>3. ~d1 /\ ~d2
      <4> HIDE DEF d1, d2
      <4> QED
        BY <3>2 DEF If
    <3> QED
      BY <1>3, <3>3 DEF src
  <2>2. config.secrets.providers[p] = Interval(src.providers[p].interval, block)
    BY <1>2, <1>8
  <2>3. Interval(src.providers[p].interval, block) > 0
    BY <1>3, <1>7, <2>1 DEF Interval
  <2>4. DOMAIN config.routes = DOMAIN f.routes
        /\ \A i \in DOMAIN f.routes : config.routes[i].provider = f.routes[i].provider
    BY <1>2
  <2>5. routed = RoutedProviders(f)
    BY <2>4 DEF RoutedProviders
  <2> HIDE DEF routed
  <2> QED
    BY <2>1, <2>2, <2>3, <2>5
<1>11. WiringMistake(config).of # "providerkeys"
  <2> DEFINE server == config.server
             c1 == Check(~config.identity, "issuer and audience", "auth")
             c2 == Check(DOMAIN config.apps = {}, "no apps", "auth")
             c3 == Check(config.secrets.kind = "" /\ DOMAIN config.secrets.providers # {}, "fetcher", "providerkeys")
             c4 == Check(server.totalDeadline <= 0, "total_deadline", "gateway")
             c5 == Check(server.perTryDeadline <= 0
                           \/ server.perTryDeadline >= server.totalDeadline, "per_try_deadline", "gateway")
             chain == <<c1, c2, c3, c4, c5>>
  <2>1. WiringMistake(config) = FirstOf(chain)
    BY DEF WiringMistake
  <2>2. c3 = NoError
    BY <1>2, <1>6, <1>8, <1>9 DEF Check
  <2>3. \A m \in {c1, c2, c3, c4, c5, NoError} : m.of # "providerkeys"
    <3>1. c1.of # "providerkeys"
      BY DEF Check, Mistake, NoError
    <3>2. c2.of # "providerkeys"
      BY DEF Check, Mistake, NoError
    <3>3. c3.of # "providerkeys" /\ NoError.of # "providerkeys"
      <4>1. NoError.of # "providerkeys"
        BY DEF NoError
      <4> HIDE DEF c3
      <4> QED
        BY <2>2, <4>1
    <3>4. c4.of # "providerkeys"
      BY DEF Check, Mistake, NoError
    <3>5. c5.of # "providerkeys"
      BY DEF Check, Mistake, NoError
    <3> HIDE DEF c1, c2, c3, c4, c5
    <3> QED
      BY <3>1, <3>2, <3>3, <3>4, <3>5
  <2> HIDE DEF c1, c2, c3, c4, c5
  <2>4. Len(chain) = 5 /\ \A i \in 1..5 : chain[i] \in {c1, c2, c3, c4, c5, NoError}
    OBVIOUS
  <2> HIDE DEF chain
  <2>5. FirstOf(chain) = NoError \/ \E i \in 1..5 : FirstOf(chain) = chain[i]
    BY <2>4, FirstOfIs
  <2>6. FirstOf(chain) \in {c1, c2, c3, c4, c5, NoError}
    BY <2>4, <2>5
  <2> QED
    BY <2>1, <2>3, <2>6
<1> QED
  BY <1>5, <1>9, <1>10, <1>11 DEF LoopsAreFed, config

LEMMA AppsOwned ==
  ASSUME NEW f, IsFile(f), Flaws(f) = {}, ~IsError(Mistakes(f))
  PROVE  AppsAreTheirOwn(f, wireToDomain(f))
<1> DEFINE config == wireToDomain(f)
<1>1. config.apps = Applications(f).apps /\ config.limits = Applications(f).limits
  BY wireToDomainIs
<1> HIDE DEF config
<1>2. AppsFlaws(f) = {}
  BY DEF Flaws, AppsFlaws
<1>3. PICK names : /\ DOMAIN f.apps = {names[i] : i \in 1..Len(names)}
                   /\ HoldsApps(f, names, Len(names), Applications(f))
  BY <1>2, AppsReport
<1>4. DOMAIN config.limits = DOMAIN f.apps
  BY <1>1, <1>3 DEF HoldsApps
<1>5. ASSUME NEW n \in DOMAIN f.apps
      PROVE  /\ config.limits[n] = f.apps[n].maxInFlight
             /\ config.apps[f.apps[n].subject] = [name |-> n, policy |-> policyToDomain(f.apps[n].policy)]
  <2>1. PICK i \in 1..Len(names) : n = names[i]
    BY <1>3
  <2> QED
    BY <1>1, <1>3, <2>1 DEF HoldsApps, SubjectOf, AppOf
<1> QED
  BY <1>4, <1>5 DEF AppsAreTheirOwn, config

-----------------------------------------------------------------------------
LoadInv ==
  /\ IsFile(file)
  /\ answer.done => answer.result = wireToDomain(file)

LEMMA LoadInvHolds == LoadSpec => []LoadInv
<1>1. LoadInit => LoadInv
  BY LoadAssumption DEF LoadInit, LoadInv, NoAnswer
<1>2. LoadInv /\ [LoadFile]_loadVars => LoadInv'
  <2> SUFFICES ASSUME LoadInv, [LoadFile]_loadVars PROVE LoadInv'
    OBVIOUS
  <2>1. CASE LoadFile
    <3>1. answer'.result = wireToDomain(file) /\ file' = file
      BY <2>1 DEF LoadFile
    <3> QED
      BY <3>1 DEF LoadInv
  <2>2. CASE UNCHANGED loadVars
    BY <2>2 DEF LoadInv, loadVars
  <2> QED
    BY <2>1, <2>2
<1> QED
  BY <1>1, <1>2, PTL DEF LoadSpec

\* config.Load accepts a file exactly when no section of it holds a mistake, and
\* names one of the earliest entry at fault otherwise, for every file a YAML
\* decoder can produce; what it accepts maps every subject to its own application
\* and gives every refresh loop a period and a provider (config.go:240-410).
THEOREM LoadIsTheReference == LoadSpec => []LoadMatchesReference
<1>1. LoadInv => LoadMatchesReference
  <2> SUFFICES ASSUME LoadInv, answer.done
               PROVE  \/ /\ Flaws(file) = {} /\ answer.result.ok
                         /\ AppsAreTheirOwn(file, answer.result)
                         /\ LoopsAreFed(answer.result)
                      \/ /\ ~answer.result.ok
                         /\ \E f \in Flaws(file) : /\ f.error = answer.result.error
                                                   /\ \A g \in Flaws(file) : NotAfter(f, g)
    BY DEF LoadMatchesReference
  <2>1. IsFile(file) /\ answer.result = wireToDomain(file)
    BY DEF LoadInv
  <2>2. Reports(Mistakes(file), Flaws(file))
    BY <2>1, FileReports
  <2>3. CASE IsError(Mistakes(file))
    <3>1. ~answer.result.ok /\ answer.result.error = Mistakes(file)
      BY <2>1, <2>3, wireToDomainIs
    <3>2. Mistakes(file) # NoError
      BY <2>3 DEF IsError, NoError
    <3> QED
      BY <2>2, <3>1, <3>2 DEF Reports
  <2>4. CASE ~IsError(Mistakes(file))
    <3>1. Flaws(file) = {}
      BY <2>2, <2>4 DEF Reports
    <3>2. AppsAreTheirOwn(file, wireToDomain(file)) /\ LoopsAreFed(wireToDomain(file))
      BY <2>1, <2>4, <3>1, AppsOwned, LoopsFed
    <3>3. wireToDomain(file).ok
      BY <2>4, wireToDomainIs
    <3> QED
      BY <2>1, <3>1, <3>2, <3>3
  <2> QED
    BY <2>3, <2>4
<1> QED
  BY <1>1, LoadInvHolds, PTL
=============================================================================
