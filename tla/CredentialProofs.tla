-------------------------- MODULE CredentialProofs --------------------------
(***************************************************************************)
(* What the credential cache guarantees for any number of providers,       *)
(* refreshes and requests (the types, fail static, that a key goes back    *)
(* only where two refreshes of one provider overlapped, and that triggers  *)
(* are single-flight), and what it may rely on: a Vault session implements *)
(* a plain secret source, and its fetches fail for a reason, for any number *)
(* of fetches, tokens and values.                                          *)
(***************************************************************************)
EXTENDS ProviderKeys, VaultSession, FiniteSetTheorems, TLAPS

\* The cache is never ahead of the store.
KeyBehindStore == \A p \in Providers : key[p] <= secret[p]

\* What makes the last property inductive: a refresh no other overlapped holds
\* a key at least as new as the one in force.
LoneReadIsNewer ==
  \A j \in Jobs :
    (job[j] # NoJob /\ job[j].phase = "read" /\ job[j].got # 0 /\ ~job[j].overlapped)
      => key[job[j].of] <= job[j].got

ReadBehindStore ==
  \A j \in Jobs : job[j] # NoJob => job[j].got <= secret[job[j].of]

IInv == TypeOK /\ KeyBehindStore /\ LoneReadIsNewer /\ ReadBehindStore

-----------------------------------------------------------------------------
\* A job in progress is a record of its type.
LEMMA ActiveTyped ==
  ASSUME TypeOK, NEW j \in Jobs, job[j] # NoJob
  PROVE  /\ job[j] \in Job
         /\ job[j].of \in Providers
         /\ job[j].got \in Version
         /\ job[j].overlapped \in BOOLEAN
<1>1. job[j] \in Job
  BY DEF TypeOK
<1>2. QED
  BY <1>1 DEF Job

\* A fresh refresh has read nothing.
LEMMA BeginPreserves ==
  ASSUME IInv, NEW j \in Jobs, NEW p \in Providers,
         NEW kind \in {"boot", "loop", "trigger"}, Begin(j, kind, p),
         UNCHANGED <<secret, key>>
  PROVE  /\ job' \in [Jobs -> Job \cup {NoJob}]
         /\ KeyBehindStore'
         /\ LoneReadIsNewer'
         /\ ReadBehindStore'
<1> DEFINE new == [kind |-> kind, of |-> p, phase |-> "fetching", got |-> 0,
                   overlapped |-> FALSE]
<1>1. 0 \in Version
  BY KeysAssumption DEF Version
<1>2. new \in Job
  BY <1>1 DEF Job
<1>3. job' \in [Jobs -> Job \cup {NoJob}]
  BY <1>2 DEF Begin, IInv, TypeOK
<1>4. \A i \in Jobs : i # j => job'[i] = job[i]
  BY DEF Begin, IInv, TypeOK
<1>5. job'[j] = new
  BY DEF Begin, IInv, TypeOK
<1>6. KeyBehindStore'
  BY DEF IInv, KeyBehindStore
<1>7. LoneReadIsNewer'
  BY <1>4, <1>5 DEF IInv, LoneReadIsNewer
<1>8. secret[p] \in Nat /\ 0 <= secret[p]
  BY KeysAssumption DEF IInv, TypeOK
<1>9. ReadBehindStore'
  BY <1>4, <1>5, <1>8 DEF IInv, ReadBehindStore
<1>10. QED
  BY <1>3, <1>6, <1>7, <1>9

-----------------------------------------------------------------------------
LEMMA InitEstablishes == Init => IInv
<1> SUFFICES ASSUME Init PROVE IInv
  OBVIOUS
<1>1. 0 \in Version /\ 1 \in 1..MaxVersion
  BY KeysAssumption DEF Version
<1>2. TypeOK
  BY <1>1 DEF Init, TypeOK
<1>3. KeyBehindStore
  BY DEF Init, KeyBehindStore
<1>4. LoneReadIsNewer /\ ReadBehindStore
  BY DEF Init, LoneReadIsNewer, ReadBehindStore
<1>5. QED
  BY <1>2, <1>3, <1>4 DEF IInv

LEMMA RotatePreserves ==
  ASSUME IInv, NEW p \in Providers, Rotate(p)
  PROVE  IInv'
<1>1. /\ secret' \in [Providers -> 1..MaxVersion]
      /\ \A q \in Providers : secret[q] \in Nat /\ secret[q] <= secret'[q] /\ secret'[q] \in Nat
  BY KeysAssumption DEF Rotate, IInv, TypeOK
<1>2. TypeOK'
  BY <1>1 DEF Rotate, IInv, TypeOK
<1>3. KeyBehindStore'
  BY <1>1, KeysAssumption DEF Rotate, IInv, TypeOK, KeyBehindStore, Version
<1>4. LoneReadIsNewer'
  BY DEF Rotate, IInv, LoneReadIsNewer
<1>5. ReadBehindStore'
  <2> SUFFICES ASSUME NEW j \in Jobs, job[j] # NoJob PROVE job[j].got <= secret'[job[j].of]
    BY DEF ReadBehindStore, Rotate
  <2>1. job[j].of \in Providers /\ job[j].got \in Version
    BY ActiveTyped DEF IInv
  <2>2. job[j].got <= secret[job[j].of]
    BY DEF IInv, ReadBehindStore
  <2>3. QED
    BY <1>1, <2>1, <2>2, KeysAssumption DEF Version
<1>6. QED
  BY <1>2, <1>3, <1>4, <1>5 DEF IInv

\* A read returns the newest version, which nothing in force can exceed.
LEMMA FetchReadsPreserves ==
  ASSUME IInv, NEW j \in Jobs, FetchReads(j)
  PROVE  IInv'
<1> DEFINE p   == job[j].of
           v   == IF source[p] = "ok" THEN secret[p] ELSE 0
           new == [job[j] EXCEPT !.phase = "read", !.got = v]
<1>1. job[j] # NoJob /\ job[j].phase = "fetching"
  BY DEF FetchReads
<1>2. job[j] \in Job /\ p \in Providers
  BY <1>1, ActiveTyped DEF IInv
<1>3. secret[p] \in Nat /\ secret[p] <= MaxVersion /\ key[p] <= secret[p] /\ key[p] \in Nat
  BY <1>2, KeysAssumption DEF IInv, TypeOK, KeyBehindStore, Version
<1>4. v \in Version /\ v <= secret[p] /\ (v # 0 => key[p] <= v)
  BY <1>3, KeysAssumption DEF Version
<1>5. /\ new \in Job
      /\ new.of = p /\ new.got = v
  BY <1>1, <1>2, <1>4 DEF Job
<1>6. job' = [job EXCEPT ![j] = new]
  BY <1>1, <1>2 DEF FetchReads, IInv, TypeOK, Job
<1> HIDE DEF v, new
<1>7. job'[j] = new /\ \A i \in Jobs : i # j => job'[i] = job[i]
  BY <1>6 DEF IInv, TypeOK
<1>8. TypeOK'
  BY <1>5, <1>6 DEF FetchReads, IInv, TypeOK
<1>9. KeyBehindStore'
  BY DEF FetchReads, IInv, KeyBehindStore
<1>10. LoneReadIsNewer'
  BY <1>4, <1>5, <1>7 DEF FetchReads, IInv, LoneReadIsNewer
<1>11. ReadBehindStore'
  BY <1>4, <1>5, <1>7 DEF FetchReads, IInv, ReadBehindStore
<1>12. QED
  BY <1>8, <1>9, <1>10, <1>11 DEF IInv
\* The record a refresh leaves when it ends has read nothing still to land.
LEMMA EndedTyped ==
  ASSUME IInv, NEW j \in Jobs, job[j] # NoJob
  PROVE  /\ Ended(j) \in Job \cup {NoJob}
         /\ Ended(j) # NoJob => /\ Ended(j).phase = "over"
                                /\ Ended(j).of = job[j].of
                                /\ Ended(j).got = job[j].got
<1>1. job[j] \in Job
  BY ActiveTyped DEF IInv
<1>2. CASE job[j].kind = "trigger"
  <2>1. Ended(j) = [job[j] EXCEPT !.phase = "over"]
    BY <1>2 DEF Ended
  <2>2. QED
    BY <1>1, <1>2, <2>1 DEF Job
<1>3. CASE job[j].kind # "trigger"
  BY <1>3 DEF Ended
<1>4. QED
  BY <1>2, <1>3

\* Ending without landing: FetchFails, and the empty read of Land.
LEMMA EndPreserves ==
  ASSUME IInv, NEW j \in Jobs, job[j] # NoJob,
         job' = [job EXCEPT ![j] = Ended(j)],
         UNCHANGED <<secret, source, key, refreshing, cooling, todo, call>>
  PROVE  IInv'
<1>1. /\ job' \in [Jobs -> Job \cup {NoJob}]
      /\ job'[j] = Ended(j) /\ \A i \in Jobs : i # j => job'[i] = job[i]
  BY EndedTyped DEF IInv, TypeOK
<1>2. TypeOK'
  BY <1>1 DEF IInv, TypeOK
<1>3. KeyBehindStore'
  BY DEF IInv, KeyBehindStore
<1>4. LoneReadIsNewer'
  BY <1>1, EndedTyped DEF IInv, LoneReadIsNewer
<1>5. ReadBehindStore'
  BY <1>1, EndedTyped DEF IInv, ReadBehindStore
<1>6. QED
  BY <1>2, <1>3, <1>4, <1>5 DEF IInv

\* A landing marks every other refresh of its provider, so the lone reads that
\* are left belong to other providers.
LEMMA LandPreserves ==
  ASSUME IInv, NEW j \in Jobs, Land(j)
  PROVE  IInv'
<1> DEFINE p == job[j].of
<1>1. job[j] # NoJob /\ job[j].phase = "read"
  BY DEF Land
<1>2. CASE job[j].got = 0
  <2>1. job' = [job EXCEPT ![j] = Ended(j)]
    BY <1>2 DEF Land
  <2>2. QED
    BY <1>1, <1>2, <2>1, EndPreserves DEF Land
<1>3. CASE job[j].got # 0
  <2>1. /\ p \in Providers /\ job[j].got \in Version /\ job[j].got <= secret[p]
    BY <1>1, ActiveTyped DEF IInv, ReadBehindStore
  <2>2. /\ key' \in [Providers -> Version]
        /\ key'[p] = job[j].got
        /\ \A q \in Providers : q # p => key'[q] = key[q]
    BY <1>3, <2>1 DEF Land, IInv, TypeOK
  <2>3. /\ job'[j] = Ended(j)
        /\ \A i \in Jobs : i # j =>
             job'[i] = IF i \in Active(p) THEN [job[i] EXCEPT !.overlapped = TRUE] ELSE job[i]
        /\ job' = [i \in Jobs |-> job'[i]]
    BY <1>3 DEF Land
  <2>4. ASSUME NEW i \in Jobs, i # j, i \in Active(p)
        PROVE  /\ job[i] # NoJob /\ job[i].of = p
               /\ job'[i] \in Job
               /\ job'[i].overlapped
               /\ job'[i].of = p
               /\ job'[i].got = job[i].got
    <3>1. job[i] # NoJob /\ job[i].of = p
      BY <2>4 DEF Active
    <3>2. job[i] \in Job
      BY <3>1, ActiveTyped DEF IInv
    <3>3. job'[i] = [job[i] EXCEPT !.overlapped = TRUE]
      BY <2>3, <2>4
    <3>4. QED
      BY <3>1, <3>2, <3>3 DEF Job
  <2>5. ASSUME NEW i \in Jobs, i # j, i \notin Active(p)
        PROVE  job'[i] = job[i] /\ (job[i] # NoJob => job[i].of # p)
    BY <2>3, <2>5 DEF Active
  <2>6. \A i \in Jobs : job'[i] \in Job \cup {NoJob}
    BY <1>1, <2>3, <2>4, <2>5, EndedTyped DEF IInv, TypeOK
  <2>7. TypeOK'
    <3>1. job' \in [Jobs -> Job \cup {NoJob}]
      BY <2>3, <2>6
    <3>2. QED
      BY <3>1, <2>2 DEF Land, IInv, TypeOK
  <2>8. KeyBehindStore'
    BY <2>1, <2>2 DEF Land, IInv, KeyBehindStore
  <2>9. LoneReadIsNewer'
    <3> SUFFICES ASSUME NEW i \in Jobs, job'[i] # NoJob, job'[i].phase = "read",
                        job'[i].got # 0, ~job'[i].overlapped
                 PROVE  key'[job'[i].of] <= job'[i].got
      BY DEF LoneReadIsNewer
    <3>1. i # j
      BY <1>1, <2>3, EndedTyped
    <3>2. i \notin Active(p)
      BY <3>1, <2>4
    <3>3. job'[i] = job[i] /\ job[i] # NoJob /\ job[i].of # p
      BY <3>1, <3>2, <2>5
    <3>4. job[i].of \in Providers
      BY <3>3, ActiveTyped DEF IInv
    <3>5. key[job[i].of] <= job[i].got
      BY <3>3 DEF IInv, LoneReadIsNewer
    <3>6. QED
      BY <3>3, <3>4, <3>5, <2>2
  <2>10. ReadBehindStore'
    <3> SUFFICES ASSUME NEW i \in Jobs, job'[i] # NoJob
                 PROVE  job'[i].got <= secret[job'[i].of]
      BY <1>3 DEF ReadBehindStore, Land
    <3>1. CASE i = j
      BY <3>1, <1>1, <2>1, <2>3, EndedTyped
    <3>2. CASE i # j /\ i \in Active(p)
      BY <3>2, <2>4 DEF IInv, ReadBehindStore
    <3>3. CASE i # j /\ i \notin Active(p)
      BY <3>3, <2>5 DEF IInv, ReadBehindStore
    <3>4. QED
      BY <3>1, <3>2, <3>3
  <2>11. QED
    BY <2>7, <2>8, <2>9, <2>10 DEF IInv
<1>4. QED
  BY <1>2, <1>3

LEMMA TriggerOverPreserves ==
  ASSUME IInv, NEW j \in Jobs, TriggerOver(j)
  PROVE  IInv'
<1>1. /\ job' \in [Jobs -> Job \cup {NoJob}]
      /\ job'[j] = NoJob /\ \A i \in Jobs : i # j => job'[i] = job[i]
  BY DEF TriggerOver, IInv, TypeOK
<1>2. TypeOK'
  BY <1>1 DEF TriggerOver, IInv, TypeOK
<1>3. KeyBehindStore' /\ LoneReadIsNewer' /\ ReadBehindStore'
  BY <1>1 DEF TriggerOver, IInv, KeyBehindStore, LoneReadIsNewer, ReadBehindStore
<1>4. QED
  BY <1>2, <1>3 DEF IInv

\* The scheduled ways a refresh starts.
LEMMA StartPreserves ==
  ASSUME IInv, NEW j \in Jobs, NEW p \in Providers,
         BootRefresh(j, p) \/ LoopRefresh(j, p)
  PROVE  IInv'
<1>1. CASE BootRefresh(j, p)
  <2>1. Begin(j, "boot", p) /\ UNCHANGED <<secret, key>>
    BY <1>1 DEF BootRefresh
  <2>2. QED
    BY <1>1, <2>1, BeginPreserves DEF BootRefresh, IInv, TypeOK
<1>2. CASE LoopRefresh(j, p)
  <2>1. Begin(j, "loop", p) /\ UNCHANGED <<secret, key>>
    BY <1>2 DEF LoopRefresh
  <2>2. QED
    BY <1>2, <2>1, BeginPreserves DEF LoopRefresh, IInv, TypeOK
<1>3. QED
  BY <1>1, <1>2

\* A rejection starts a refresh or starts nothing.
LEMMA RejectedPreserves ==
  ASSUME IInv, NEW j \in Jobs, NEW c \in Callers, Rejected(c, j)
  PROVE  IInv'
<1> DEFINE q == call[c].of
<1>1. q \in Providers /\ call' \in [Callers -> Call \cup {NoCall}]
  BY DEF Rejected, IInv, TypeOK, Call
<1>2. UNCHANGED <<secret, source, key, todo>>
  BY DEF Rejected
<1>3. CASE ~refreshing[q] /\ ~cooling[q]
  <2>1. Begin(j, "trigger", q)
    BY <1>3 DEF Rejected, TriggerRefresh
  <2>2. /\ refreshing' \in [Providers -> BOOLEAN]
        /\ cooling' \in [Providers -> BOOLEAN]
    BY <1>1, <1>3 DEF Rejected, TriggerRefresh, IInv, TypeOK
  <2>3. QED
    BY <1>1, <1>2, <2>1, <2>2, BeginPreserves DEF IInv, TypeOK
<1>4. CASE refreshing[q] \/ cooling[q]
  <2>1. UNCHANGED <<job, refreshing, cooling>>
    BY <1>4 DEF Rejected, TriggerRefresh
  <2>2. QED
    BY <1>1, <1>2, <2>1 DEF IInv, TypeOK, KeyBehindStore, LoneReadIsNewer, ReadBehindStore
<1>5. QED
  BY <1>3, <1>4

\* The steps that leave the cache and the refreshes alone.
LEMMA OthersPreserve ==
  ASSUME IInv, UNCHANGED <<secret, key, job, todo, refreshing>>,
         source' \in [Providers -> {"ok", "blank", "down"}],
         cooling' \in [Providers -> BOOLEAN],
         call' \in [Callers -> Call \cup {NoCall}]
  PROVE  IInv'
<1>1. TypeOK'
  BY DEF IInv, TypeOK
<1>2. QED
  BY <1>1 DEF IInv, KeyBehindStore, LoneReadIsNewer, ReadBehindStore

LEMMA NextPreserves == IInv /\ [Next]_vars => IInv'
<1> SUFFICES ASSUME IInv, [Next]_vars PROVE IInv'
  OBVIOUS
<1>1. ASSUME NEW p \in Providers, Rotate(p) PROVE IInv'
  BY <1>1, RotatePreserves
<1>2. ASSUME NEW p \in Providers, CooldownPasses(p) PROVE IInv'
  BY <1>2, OthersPreserve DEF CooldownPasses, IInv, TypeOK
<1>3. ASSUME NEW p \in Providers, NEW s \in {"ok", "blank", "down"}, SourceTurns(p, s)
      PROVE  IInv'
  BY <1>3, OthersPreserve DEF SourceTurns, IInv, TypeOK
<1>4. ASSUME NEW p \in Providers, NEW j \in Jobs, BootRefresh(j, p) \/ LoopRefresh(j, p)
      PROVE  IInv'
  BY <1>4, StartPreserves
<1>5. ASSUME NEW p \in Providers, NEW c \in Callers, Send(c, p) PROVE IInv'
  <2>1. [of |-> p, key |-> key[p]] \in Call
    BY DEF Call, IInv, TypeOK
  <2>2. call' \in [Callers -> Call \cup {NoCall}]
    BY <1>5, <2>1 DEF Send, IInv, TypeOK
  <2>3. QED
    BY <1>5, <2>2, OthersPreserve DEF Send, IInv, TypeOK
<1>6. ASSUME NEW j \in Jobs, Moves(j) PROVE IInv'
  <2>1. CASE FetchReads(j)
    BY <2>1, FetchReadsPreserves
  <2>2. CASE FetchFails(j)
    BY <2>2, EndPreserves DEF FetchFails
  <2>3. CASE Land(j)
    BY <2>3, LandPreserves
  <2>4. CASE TriggerOver(j)
    BY <2>4, TriggerOverPreserves
  <2>5. QED
    BY <1>6, <2>1, <2>2, <2>3, <2>4 DEF Moves
<1>7. ASSUME NEW c \in Callers, Accepted(c) PROVE IInv'
  <2>1. call' \in [Callers -> Call \cup {NoCall}]
    BY <1>7 DEF Accepted, IInv, TypeOK
  <2>2. QED
    BY <1>7, <2>1, OthersPreserve DEF Accepted, IInv, TypeOK
<1>8. ASSUME NEW c \in Callers, NEW j \in Jobs, Rejected(c, j) PROVE IInv'
  BY <1>8, RejectedPreserves
<1>9. CASE UNCHANGED vars
  BY <1>9 DEF vars, IInv, TypeOK, KeyBehindStore, LoneReadIsNewer, ReadBehindStore
<1>10. QED
  BY <1>1, <1>2, <1>3, <1>4, <1>5, <1>6, <1>7, <1>8, <1>9 DEF Next

\* The inductive invariant holds throughout.
THEOREM KeysInvariant == Spec => []IInv
  BY InitEstablishes, NextPreserves, PTL DEF Spec

\* Every variable of the cache keeps its type.
THEOREM KeysTypeCorrect == Spec => []TypeOK
<1>1. IInv => TypeOK
  BY DEF IInv
<1>2. QED
  BY <1>1, KeysInvariant, PTL

-----------------------------------------------------------------------------
\* Only a landing writes the cache, and it writes what its refresh read.
LEMMA OnlyLandWrites ==
  ASSUME IInv, [Next]_vars, NEW p \in Providers, key'[p] # key[p]
  PROVE  \E j \in Active(p) : job[j].phase = "read" /\ job[j].got # 0 /\ key'[p] = job[j].got
<1>1. PICK j \in Jobs : Land(j)
  BY DEF Next, vars, Rotate, CooldownPasses, SourceTurns, BootRefresh, LoopRefresh, Send,
         Moves, FetchReads, FetchFails, TriggerOver, Accepted, Rejected
<1>2. job[j] # NoJob /\ job[j].phase = "read" /\ job[j].got # 0
  BY <1>1 DEF Land
<1>3. key' = [key EXCEPT ![job[j].of] = job[j].got]
  BY <1>1, <1>2 DEF Land
<1>4. job[j].of = p /\ key'[p] = job[j].got
  BY <1>3 DEF IInv, TypeOK
<1>5. QED
  BY <1>2, <1>4 DEF Active

\* Fail static, for any number of refreshes in any order.
THEOREM KeysNeverLost == Spec => KeyNeverLost
<1>1. IInv /\ [Next]_vars => [\A p \in Providers : key[p] # 0 => key'[p] # 0]_vars
  <2> SUFFICES ASSUME IInv, [Next]_vars, NEW p \in Providers, key[p] # 0 PROVE key'[p] # 0
    OBVIOUS
  <2>1. CASE key'[p] = key[p]
    BY <2>1
  <2>2. CASE key'[p] # key[p]
    BY <2>2, OnlyLandWrites
  <2>3. QED
    BY <2>1, <2>2
<1>2. QED
  BY <1>1, KeysInvariant, PTL DEF Spec, KeyNeverLost

\* A key goes back only where refreshes overlapped: a refresh that ran alone
\* read the store after everything in force had been read from it.
THEOREM KeysGoBackOnlyByOverlap == Spec => KeyGoesBackOnlyByOverlap
<1> DEFINE Back == \A p \in Providers :
                     key'[p] < key[p] =>
                       \E j \in Active(p) : job[j].phase = "read" /\ job[j].overlapped
                                            /\ job[j].got = key'[p]
<1>1. IInv /\ [Next]_vars => [Back]_vars
  <2> SUFFICES ASSUME IInv, [Next]_vars, NEW p \in Providers, key'[p] < key[p]
               PROVE  \E j \in Active(p) : job[j].phase = "read" /\ job[j].overlapped
                                           /\ job[j].got = key'[p]
    OBVIOUS
  <2>1. key[p] \in Nat
    BY KeysAssumption DEF IInv, TypeOK, Version
  <2>2. key'[p] # key[p]
    BY <2>1
  <2>3. PICK j \in Active(p) : job[j].phase = "read" /\ job[j].got # 0 /\ key'[p] = job[j].got
    BY <2>2, OnlyLandWrites
  <2>4. j \in Jobs /\ job[j] # NoJob /\ job[j].of = p
    BY DEF Active
  <2>5. job[j].got \in Nat
    BY <2>4, ActiveTyped, KeysAssumption DEF IInv, Version
  <2>6. job[j].overlapped
    BY <2>1, <2>3, <2>4, <2>5 DEF IInv, LoneReadIsNewer
  <2>7. QED
    BY <2>3, <2>6
<1>2. QED
  BY <1>1, KeysInvariant, PTL DEF Spec, KeyGoesBackOnlyByOverlap
-----------------------------------------------------------------------------
\* The single-flight, without counting: the flag is up exactly while some
\* triggered refresh lives, and no two of one provider do.
Trigger(j, p) == job[j] # NoJob /\ job[j].of = p /\ job[j].kind = "trigger"

FlagFollowsTrigger ==
  \A p \in Providers :
    /\ refreshing[p] <=> \E j \in Jobs : Trigger(j, p)
    /\ \A i, j \in Jobs : Trigger(i, p) /\ Trigger(j, p) => i = j

\* A step that starts and ends no trigger keeps it.
LEMMA SameTriggersKeep ==
  ASSUME FlagFollowsTrigger, UNCHANGED refreshing,
         \A p \in Providers, j \in Jobs : Trigger(j, p)' <=> Trigger(j, p)
  PROVE  FlagFollowsTrigger'
  BY DEF FlagFollowsTrigger

\* A refresh that reads, fails or lands is the trigger it was: its goroutine
\* outlives it.
LEMMA ProgressKeepsTriggers ==
  ASSUME IInv, NEW j \in Jobs, FetchReads(j) \/ FetchFails(j) \/ Land(j)
  PROVE  /\ UNCHANGED refreshing
         /\ \A p \in Providers, i \in Jobs : Trigger(i, p)' <=> Trigger(i, p)
<1>1. job[j] # NoJob /\ job[j] \in Job /\ job' \in [Jobs -> Job \cup {NoJob}]
  BY ActiveTyped, FetchReadsPreserves, EndPreserves, LandPreserves
     DEF FetchReads, FetchFails, Land, IInv, TypeOK
<1>2. \A r \in Job : r # NoJob
  BY DEF Job, NoJob
<1>3. \/ Ended(j) = [job[j] EXCEPT !.phase = "over"]
      \/ Ended(j) = NoJob /\ job[j].kind # "trigger"
  BY DEF Ended
<1>4. CASE FetchReads(j)
  BY <1>1, <1>2, <1>4 DEF FetchReads, Trigger, IInv, TypeOK, Job, NoJob
<1>5. CASE FetchFails(j)
  BY <1>1, <1>2, <1>3, <1>5 DEF FetchFails, Trigger, IInv, TypeOK, Job, NoJob
<1>6. CASE Land(j)
  BY <1>1, <1>2, <1>3, <1>6 DEF Land, Trigger, Active, IInv, TypeOK, Job, NoJob
<1>7. QED
  BY <1>4, <1>5, <1>6

LEMMA FlagInit == Init => FlagFollowsTrigger
  BY DEF Init, FlagFollowsTrigger, Trigger

LEMMA FlagPreserved == IInv /\ FlagFollowsTrigger /\ [Next]_vars => FlagFollowsTrigger'
<1> SUFFICES ASSUME IInv, FlagFollowsTrigger, [Next]_vars PROVE FlagFollowsTrigger'
  OBVIOUS
<1>1. ASSUME UNCHANGED <<job, refreshing>> PROVE FlagFollowsTrigger'
  BY <1>1, SameTriggersKeep DEF Trigger
<1>2. ASSUME NEW p \in Providers, NEW j \in Jobs, BootRefresh(j, p) \/ LoopRefresh(j, p)
      PROVE  FlagFollowsTrigger'
  <2>1. /\ UNCHANGED refreshing
        /\ \E kind \in {"boot", "loop"} : Begin(j, kind, p)
    BY <1>2 DEF BootRefresh, LoopRefresh
  <2>2. \A q \in Providers, i \in Jobs : Trigger(i, q)' <=> Trigger(i, q)
    BY <2>1 DEF Begin, Trigger, IInv, TypeOK
  <2>3. QED
    BY <2>1, <2>2, SameTriggersKeep
<1>3. ASSUME NEW j \in Jobs, FetchReads(j) \/ FetchFails(j) \/ Land(j)
      PROVE  FlagFollowsTrigger'
  BY <1>3, ProgressKeepsTriggers, SameTriggersKeep
<1>4. ASSUME NEW j \in Jobs, TriggerOver(j) PROVE FlagFollowsTrigger'
  <2>1. Trigger(j, job[j].of) /\ job[j].of \in Providers
    BY <1>4, ActiveTyped DEF TriggerOver, Trigger, Job, IInv
  <2>2. \A p \in Providers, i \in Jobs : Trigger(i, p)' <=> i # j /\ Trigger(i, p)
    BY <1>4 DEF TriggerOver, Trigger, IInv, TypeOK
  <2>3. \A p \in Providers : refreshing'[p] <=> p # job[j].of /\ refreshing[p]
    BY <1>4 DEF TriggerOver, IInv, TypeOK
  <2>4. \A p \in Providers : Trigger(j, p) => p = job[j].of
    BY DEF Trigger
  <2>5. QED
    BY <2>1, <2>2, <2>3, <2>4, Zenon DEF FlagFollowsTrigger
<1>5. ASSUME NEW c \in Callers, NEW j \in Jobs, Rejected(c, j) PROVE FlagFollowsTrigger'
  <2> DEFINE q == call[c].of
  <2>1. q \in Providers /\ TriggerRefresh(j, q)
    BY <1>5 DEF Rejected, IInv, TypeOK, Call
  <2>2. CASE ~refreshing[q] /\ Begin(j, "trigger", q)
             /\ refreshing' = [refreshing EXCEPT ![q] = TRUE]
    <3>1. \A p \in Providers, i \in Jobs : Trigger(i, p)' <=> Trigger(i, p) \/ (i = j /\ p = q)
      BY <2>1, <2>2 DEF Begin, Trigger, NoJob, IInv, TypeOK
    <3>2. \A p \in Providers : refreshing'[p] <=> p = q \/ refreshing[p]
      BY <2>1, <2>2 DEF IInv, TypeOK
    <3>3. \A i \in Jobs : ~Trigger(i, q)
      BY <2>1, <2>2 DEF FlagFollowsTrigger
    <3>4. QED
      BY <2>1, <3>1, <3>2, <3>3, Zenon DEF FlagFollowsTrigger
  <2>3. CASE UNCHANGED <<job, refreshing>>
    BY <1>1, <2>3
  <2>4. QED
    BY <2>1, <2>2, <2>3 DEF TriggerRefresh
<1>6. QED
  BY <1>1, <1>2, <1>3, <1>4, <1>5 DEF Next, vars, Moves, Rotate, CooldownPasses, SourceTurns,
     Send, Accepted

\* At most one triggered refresh of a provider lives, and the flag says so,
\* whatever loops and other refreshes run beside it.
THEOREM KeysOneTriggerAtATime == Spec => []OneTriggerAtATime
<1>1. FlagFollowsTrigger => OneTriggerAtATime
  <2> SUFFICES ASSUME FlagFollowsTrigger, NEW p \in Providers
               PROVE  Cardinality(ActiveOf("trigger", p)) = IF refreshing[p] THEN 1 ELSE 0
    BY DEF OneTriggerAtATime
  <2>1. ActiveOf("trigger", p) = {j \in Jobs : Trigger(j, p)}
    BY DEF ActiveOf, Active, Trigger
  <2>2. CASE refreshing[p]
    <3>1. PICK j \in Jobs : Trigger(j, p)
      BY <2>2 DEF FlagFollowsTrigger
    <3>2. ActiveOf("trigger", p) = {j}
      BY <2>1, <3>1 DEF FlagFollowsTrigger
    <3>3. QED
      BY <2>2, <3>2, FS_Singleton
  <2>3. CASE ~refreshing[p]
    <3>1. ActiveOf("trigger", p) = {}
      BY <2>1, <2>3 DEF FlagFollowsTrigger
    <3>2. QED
      BY <2>3, <3>1, FS_EmptySet
  <2>4. QED
    BY <2>2, <2>3
<1>2. QED
  BY <1>1, FlagInit, FlagPreserved, KeysInvariant, PTL DEF Spec

-----------------------------------------------------------------------------
\* The Vault session.
\* What a running fetch has been told of Vault, and what its answer rests on.
Explained ==
  \A f \in Fetchers :
    /\ InProgress(f) /\ vault # "ok" => trouble[f]
    /\ pc[f] \in {"regranted", "reread"} /\ hand[f] \notin live => trouble[f]
    /\ pc[f] = "done" /\ ~result[f].ok => trouble[f]

\* The secret of this moment is one the fetch may give.
SecretIsSeen == \A f \in Fetchers : InProgress(f) => content \in seen[f]

VaultInv == VaultTypeOK /\ Explained /\ SecretIsSeen

-----------------------------------------------------------------------------
LEMMA SessionInit == VaultInit => VaultInv
<1> SUFFICES ASSUME VaultInit PROVE VaultInv
  OBVIOUS
<1>1. VaultTypeOK
  BY DEF VaultInit, VaultTypeOK, Result, Failed, Running
<1>2. Explained /\ SecretIsSeen
  BY DEF VaultInit, Explained, SecretIsSeen, InProgress, Running
<1>3. QED
  BY <1>1, <1>2 DEF VaultInv

LEMMA EnvironmentKeeps ==
  ASSUME VaultInv,
         \/ \E v \in Values : Write(v)
         \/ \E s \in {"ok", "denying", "down"} : VaultTurns(s)
         \/ \E t \in Tokens : LeaseEnds(t)
  PROVE  VaultInv'
<1> USE DEF VaultInv
<1>1. ASSUME NEW v \in Values, Write(v) PROVE VaultInv'
  <2>1. VaultTypeOK'
    BY <1>1 DEF Write, VaultTypeOK, fetchVars
  <2>2. Explained'
    BY <1>1 DEF Write, Explained, InProgress, fetchVars
  <2>3. SecretIsSeen'
    BY <1>1 DEF Write, VaultTypeOK, SecretIsSeen, InProgress, fetchVars
  <2>4. QED
    BY <2>1, <2>2, <2>3
<1>2. ASSUME NEW s \in {"ok", "denying", "down"}, VaultTurns(s) PROVE VaultInv'
  <2>1. VaultTypeOK'
    <3>1. \A f \in Fetchers : (trouble[f] \/ (InProgress(f) /\ s # "ok")) \in BOOLEAN
      OBVIOUS
    <3>2. QED
      BY <1>2, <3>1 DEF VaultTurns, VaultTypeOK, fetchVars
  <2>2. Explained'
    BY <1>2 DEF VaultTurns, VaultTypeOK, Explained, InProgress, fetchVars
  <2>3. SecretIsSeen'
    BY <1>2 DEF VaultTurns, SecretIsSeen, InProgress, fetchVars
  <2>4. QED
    BY <2>1, <2>2, <2>3
<1>3. ASSUME NEW t \in Tokens, LeaseEnds(t) PROVE VaultInv'
  <2>1. VaultTypeOK'
    <3>1. \A f \in Fetchers :
            (trouble[f] \/ (pc[f] \in {"regranted", "reread"} /\ hand[f] = t)) \in BOOLEAN
      OBVIOUS
    <3>2. QED
      BY <1>3, <3>1 DEF LeaseEnds, VaultTypeOK, fetchVars
  <2>2. Explained'
    BY <1>3 DEF LeaseEnds, VaultTypeOK, Explained, InProgress, fetchVars
  <2>3. SecretIsSeen'
    BY <1>3 DEF LeaseEnds, SecretIsSeen, InProgress, fetchVars
  <2>4. QED
    BY <2>1, <2>2, <2>3
<1>4. QED
  BY <1>1, <1>2, <1>3

\* A step of f that answers r, when the failure it reports is explained.
LEMMA AnswerKeeps ==
  ASSUME VaultInv, NEW f \in Fetchers, NEW r \in Result, Returns(f, r),
         ~r.ok => trouble[f]
  PROVE  VaultInv'
<1> USE DEF VaultInv, Returns, history, sessionVars
<1>1. VaultTypeOK'
  BY DEF VaultTypeOK, Running
<1>2. Explained'
  BY DEF Explained, InProgress, Running, VaultTypeOK
<1>3. SecretIsSeen'
  BY DEF SecretIsSeen, InProgress, Running, VaultTypeOK
<1>4. QED
  BY <1>1, <1>2, <1>3

LEMMA FailedIsResult == Failed \in Result /\ ~Failed.ok
BY DEF Result, Failed

LEMMA GotIsResult == ASSUME NEW v \in Values PROVE Got(v) \in Result /\ Got(v).ok
BY DEF Result, Got

LEMMA FetchKeeps ==
  ASSUME VaultInv, NEW f \in Fetchers, Fetch(f) \/ Return(f)
  PROVE  VaultInv'
<1> USE DEF VaultInv, sessionVars
<1>1. CASE Fetch(f)
  <2>1. VaultTypeOK'
    <3>1. (vault # "ok") \in BOOLEAN
      OBVIOUS
    <3>2. QED
      BY <1>1, <3>1 DEF Fetch, VaultTypeOK, Running
  <2>2. Explained'
    BY <1>1 DEF Fetch, VaultTypeOK, Explained, InProgress, Running
  <2>3. SecretIsSeen'
    BY <1>1 DEF Fetch, VaultTypeOK, SecretIsSeen, InProgress, Running
  <2>4. QED
    BY <2>1, <2>2, <2>3
<1>2. CASE Return(f)
  <2>1. VaultTypeOK'
    BY <1>2, FailedIsResult DEF Return, VaultTypeOK, Running
  <2>2. Explained'
    BY <1>2 DEF Return, VaultTypeOK, Explained, InProgress, Running
  <2>3. SecretIsSeen'
    BY <1>2 DEF Return, VaultTypeOK, SecretIsSeen, InProgress, Running
  <2>4. QED
    BY <2>1, <2>2, <2>3
<1>3. QED
  BY <1>1, <1>2

LEMMA MovesKeep ==
  ASSUME VaultInv, NEW f \in Fetchers, FetchMoves(f)
  PROVE  VaultInv'
<1> USE DEF VaultInv, sessionVars, history
<1>1. ASSUME NEW t \in Tokens, LoginGranted(f, t) PROVE VaultInv'
  <2>1. VaultTypeOK'
    BY <1>1 DEF LoginGranted, VaultTypeOK, Running
  <2>2. Explained'
    BY <1>1 DEF LoginGranted, VaultTypeOK, Explained, InProgress, Running
  <2>3. SecretIsSeen'
    BY <1>1 DEF LoginGranted, VaultTypeOK, SecretIsSeen, InProgress, Running
  <2>4. QED
    BY <2>1, <2>2, <2>3
<1>2. CASE LoginFails(f)
  BY <1>2, AnswerKeeps, FailedIsResult DEF LoginFails, Explained, InProgress, Running
<1>3. CASE Store(f)
  <2>1. VaultTypeOK'
    BY <1>3 DEF Store, VaultTypeOK, Running
  <2>2. Explained'
    BY <1>3 DEF Store, VaultTypeOK, Explained, InProgress, Running
  <2>3. SecretIsSeen'
    BY <1>3 DEF Store, VaultTypeOK, SecretIsSeen, InProgress, Running
  <2>4. QED
    BY <2>1, <2>2, <2>3
<1>4. CASE ReadServed(f)
  BY <1>4, AnswerKeeps, GotIsResult DEF ReadServed, VaultTypeOK
<1>5. CASE ReadFails(f)
  BY <1>5, AnswerKeeps, FailedIsResult DEF ReadFails, Explained, InProgress, Running
<1>6. CASE ReadRejected(f)
  <2>1. CASE pc[f] = "reread"
    <3>1. trouble[f]
      BY <1>6, <2>1 DEF ReadRejected, Rejects, Explained, InProgress, Running
    <3>2. Returns(f, Failed)
      BY <1>6, <2>1 DEF ReadRejected
    <3>3. QED
      BY <3>1, <3>2, AnswerKeeps, FailedIsResult
  <2>2. CASE pc[f] = "read"
    <3>1. /\ pc' = [pc EXCEPT ![f] = "relogin"]
          /\ hand' = [hand EXCEPT ![f] = none]
          /\ UNCHANGED <<sessionVars, result, history>>
      BY <1>6, <2>2 DEF ReadRejected
    <3>2. VaultTypeOK'
      BY <3>1 DEF VaultTypeOK, Running
    <3>3. Explained'
      BY <2>2, <3>1 DEF VaultTypeOK, Explained, InProgress, Running
    <3>4. SecretIsSeen'
      BY <2>2, <3>1 DEF VaultTypeOK, SecretIsSeen, InProgress, Running
    <3>5. QED
      BY <3>2, <3>3, <3>4
  <2>3. QED
    BY <1>6, <2>1, <2>2 DEF ReadRejected
<1>7. QED
  BY <1>1, <1>2, <1>3, <1>4, <1>5, <1>6 DEF FetchMoves

LEMMA SessionStep == VaultInv /\ [VaultNext]_vaultVars => VaultInv'
<1> SUFFICES ASSUME VaultInv, [VaultNext]_vaultVars PROVE VaultInv'
  OBVIOUS
<1>1. CASE UNCHANGED vaultVars
  BY <1>1 DEF VaultInv, VaultTypeOK, Explained, SecretIsSeen, InProgress, vaultVars, sessionVars,
              fetchVars, history
<1>2. CASE VaultNext
  BY <1>2, EnvironmentKeeps, FetchKeeps, MovesKeep DEF VaultNext
<1>3. QED
  BY <1>1, <1>2

\* Vault.Fetch keeps its invariant (vault.go:86-115).
THEOREM SessionInvariant == VaultSpec => []VaultInv
BY SessionInit, SessionStep, PTL DEF VaultSpec

-----------------------------------------------------------------------------
\* The session's state is always a state of vault.go's Vault and its fetches.
THEOREM SessionTypeCorrect == VaultSpec => []VaultTypeOK
<1>1. VaultInv => VaultTypeOK
  BY DEF VaultInv
<1>2. QED
  BY SessionInvariant, <1>1, PTL

\* The end of an old lease never fails a fetch (vault.go:90-115).
THEOREM SessionFailureHasACause == VaultSpec => []FailureHasACause
<1>1. VaultInv => FailureHasACause
  BY DEF VaultInv, Explained, FailureHasACause
<1>2. QED
  BY SessionInvariant, <1>1, PTL

-----------------------------------------------------------------------------
\* The refinement: which step of the source each step of the session is.
LEMMA SourceInit == VaultInit => Source!Init
BY DEF VaultInit, Source!Init, Phase, Failed, Source!Failed

LEMMA PhaseRuns ==
  ASSUME VaultTypeOK, NEW f \in Fetchers
  PROVE  InProgress(f) <=> Phase(f) = "running"
BY DEF VaultTypeOK, InProgress, Phase, Running

\* A step that moves f within its running phase is a stutter of the source.
LEMMA RunningStutters ==
  ASSUME VaultTypeOK, NEW f \in Fetchers, InProgress(f),
         NEW p \in Running, pc' = [pc EXCEPT ![f] = p],
         UNCHANGED <<content, seen, result>>
  PROVE  UNCHANGED Source!vars
<1>1. \A g \in Fetchers : Phase(g)' = Phase(g)
  BY DEF VaultTypeOK, Phase, InProgress, Running
<1>2. QED
  BY <1>1 DEF Source!vars

\* An answer that may be given is the source's Answer.
LEMMA AnswerMaps ==
  ASSUME VaultInv, NEW f \in Fetchers, InProgress(f), NEW r, Returns(f, r),
         r = Failed \/ r = Got(content)
  PROVE  Source!Answer(f)
<1>1. [g \in Fetchers |-> Phase(g)'] = [[g \in Fetchers |-> Phase(g)] EXCEPT ![f] = "done"]
  BY DEF VaultInv, VaultTypeOK, Phase, Returns
<1>2. Phase(f) = "running" /\ content \in seen[f]
  BY PhaseRuns DEF VaultInv, SecretIsSeen
<1>3. r \in {Source!Got(v) : v \in seen[f]} \cup {Source!Failed}
  BY <1>2 DEF Got, Failed, Source!Got, Source!Failed
<1>4. UNCHANGED <<content, seen>> /\ result' = [result EXCEPT ![f] = r]
  BY DEF Returns, history, sessionVars
<1>5. QED
  BY <1>1, <1>2, <1>3, <1>4 DEF Source!Answer

LEMMA SourceStep == VaultInv /\ [VaultNext]_vaultVars => [Source!Next]_(Source!vars)
<1> SUFFICES ASSUME VaultInv, [VaultNext]_vaultVars PROVE [Source!Next]_(Source!vars)
  OBVIOUS
<1> VaultTypeOK
  BY DEF VaultInv
<1>1. CASE UNCHANGED vaultVars
  BY <1>1 DEF Source!vars, Phase, vaultVars, sessionVars, fetchVars, history
<1>2. ASSUME NEW v \in Values, Write(v) PROVE Source!Next
  <2>1. \A f \in Fetchers : Phase(f)' = Phase(f)
    BY <1>2 DEF Write, fetchVars, Phase
  <2>2. seen' = [f \in Fetchers |-> IF Phase(f) = "running" THEN seen[f] \cup {v}
                                                            ELSE seen[f]]
    BY <1>2, PhaseRuns DEF Write
  <2>3. Source!Write(v)
    BY <1>2, <2>1, <2>2 DEF Write, fetchVars, Source!Write
  <2>4. QED
    BY <2>3 DEF Source!Next
<1>3. ASSUME \/ \E s \in {"ok", "denying", "down"} : VaultTurns(s)
             \/ \E t \in Tokens : LeaseEnds(t)
      PROVE  UNCHANGED Source!vars
  BY <1>3 DEF VaultTurns, LeaseEnds, fetchVars, Source!vars, Phase
<1>4. ASSUME NEW f \in Fetchers, Fetch(f) PROVE Source!Next
  <2>1. Phase(f) = "idle"
    BY <1>4 DEF Fetch, Phase
  <2>2. [g \in Fetchers |-> Phase(g)']
          = [[g \in Fetchers |-> Phase(g)] EXCEPT ![f] = "running"]
    BY <1>4 DEF Fetch, VaultTypeOK, Phase
  <2>3. Source!Call(f)
    BY <1>4, <2>1, <2>2 DEF Fetch, sessionVars, Source!Call
  <2>4. QED
    BY <2>3 DEF Source!Next
<1>5. ASSUME NEW f \in Fetchers, Return(f) PROVE Source!Next
  <2>1. Phase(f) = "done"
    BY <1>5 DEF Return, Phase
  <2>2. [g \in Fetchers |-> Phase(g)'] = [[g \in Fetchers |-> Phase(g)] EXCEPT ![f] = "idle"]
    BY <1>5 DEF Return, VaultTypeOK, Phase
  <2>3. Source!Return(f)
    BY <1>5, <2>1, <2>2 DEF Return, sessionVars, Failed, Source!Return, Source!Failed
  <2>4. QED
    BY <2>3 DEF Source!Next
<1>6. ASSUME NEW f \in Fetchers, FetchMoves(f) PROVE [Source!Next]_(Source!vars)
  <2>1. InProgress(f)
    BY <1>6 DEF FetchMoves, LoginGranted, LoginFails, Store, ReadServed, ReadFails, ReadRejected,
                InProgress, Running
  <2>2. CASE \/ LoginFails(f) \/ ReadServed(f) \/ ReadFails(f)
             \/ ReadRejected(f) /\ pc[f] = "reread"
    <3>1. \E r \in {Failed, Got(content)} : Returns(f, r)
      BY <2>2 DEF LoginFails, ReadServed, ReadFails, ReadRejected
    <3>2. Source!Answer(f)
      BY <2>1, <3>1, AnswerMaps
    <3>3. QED
      BY <3>2 DEF Source!Next
  <2>3. CASE \/ \E t \in Tokens : LoginGranted(f, t)
             \/ Store(f)
             \/ ReadRejected(f) /\ pc[f] = "read"
    <3>1. /\ \E p \in Running : pc' = [pc EXCEPT ![f] = p]
          /\ UNCHANGED <<content, seen, result>>
      BY <2>3 DEF LoginGranted, Store, ReadRejected, Running, history, sessionVars
    <3>2. QED
      BY <2>1, <3>1, RunningStutters
  <2>4. QED
    BY <1>6, <2>2, <2>3 DEF FetchMoves, ReadRejected
<1>7. QED
  BY <1>1, <1>2, <1>3, <1>4, <1>5, <1>6 DEF VaultNext

\* A session is a secret source: the cache need not know of tokens, logins or
\* retries (vault.go:94-115, cache.go's Fetcher).
THEOREM SessionImplementsSource == VaultSpec => ImplementsSource
<1>1. VaultSpec => Source!Init /\ [][Source!Next]_(Source!vars)
  BY SourceInit, SourceStep, SessionInvariant, PTL DEF VaultSpec
<1>2. QED
  BY <1>1 DEF ImplementsSource, Source!Spec
=============================================================================
