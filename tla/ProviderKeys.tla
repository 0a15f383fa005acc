----------------------------- MODULE ProviderKeys -----------------------------
(***************************************************************************)
(* internal/providerkeys/cache.go, with the parts of main and of           *)
(* providers.Router that drive it: the load before serving, one refresh    *)
(* loop per provider, and the refresh a rejected credential triggers.      *)
(* Credentials are versions: the secret store holds the newest, which is   *)
(* the one the provider accepts, and 0 is the empty string.  A refresh     *)
(* reads the store at one moment and replaces the cached key at a later    *)
(* one; in between the store, the cache and the other refreshes move on.   *)
(***************************************************************************)
EXTENDS Integers, FiniteSets

CONSTANTS Providers,   \* those with a configured source
          Jobs,        \* refreshes that can be in progress at once
          Callers,     \* requests that can be upstream at once
          MaxVersion   \* bound: rotations stop there

ASSUME KeysAssumption == MaxVersion \in Nat \ {0}

VARIABLES secret,      \* the version the store holds, by provider
          source,      \* what a read of it meets: "ok", "blank", "down"
          key,         \* entry.key; entry.loadedAt is zero exactly when this is 0
          refreshing,  \* entry.refreshing
          cooling,     \* triggerCooldown has not passed since entry.lastTrigger
          todo,        \* providers RefreshAll has yet to try at boot
          job,         \* the refreshes in progress
          call         \* the requests upstream

vars == <<secret, source, key, refreshing, cooling, todo, job, call>>

Version == 0..MaxVersion
NoJob   == [kind |-> "none"]
NoCall  == [of |-> "none"]

\* overlapped is history: another refresh of the provider landed meanwhile.
\* Only the goroutine of a trigger outlives its refresh.
Job  == [kind : {"boot", "loop", "trigger"}, of : Providers,
         phase : {"fetching", "read"}, got : Version, overlapped : BOOLEAN]
        \cup [kind : {"trigger"}, of : Providers,
              phase : {"over"}, got : Version, overlapped : BOOLEAN]
Call == [of : Providers, key : Version]

TypeOK ==
  /\ secret \in [Providers -> 1..MaxVersion]
  /\ source \in [Providers -> {"ok", "blank", "down"}]
  /\ key \in [Providers -> Version]
  /\ refreshing \in [Providers -> BOOLEAN]
  /\ cooling \in [Providers -> BOOLEAN]
  /\ todo \subseteq Providers
  /\ job \in [Jobs -> Job \cup {NoJob}]
  /\ call \in [Callers -> Call \cup {NoCall}]

Init ==
  /\ secret = [p \in Providers |-> 1]
  /\ source \in [Providers -> {"ok", "blank", "down"}]
  /\ key = [p \in Providers |-> 0]
  /\ refreshing = [p \in Providers |-> FALSE]
  /\ cooling = [p \in Providers |-> FALSE]
  /\ todo = Providers
  /\ job = [j \in Jobs |-> NoJob]
  /\ call = [c \in Callers |-> NoCall]

Active(p)        == {j \in Jobs : job[j] # NoJob /\ job[j].of = p}
ActiveOf(kind, p) == {j \in Active(p) : job[j].kind = kind}

\* RefreshAll has returned: the loops run and requests are served.
Serving == todo = {} /\ \A p \in Providers : ActiveOf("boot", p) = {}

-----------------------------------------------------------------------------
\* The environment of the cache: rotations, half-written secrets, outages.
Rotate(p) ==
  /\ secret[p] < MaxVersion
  /\ secret' = [secret EXCEPT ![p] = @ + 1]
  /\ UNCHANGED <<source, key, refreshing, cooling, todo, job, call>>

SourceTurns(p, s) ==
  /\ source[p] # s
  /\ source' = [source EXCEPT ![p] = s]
  /\ UNCHANGED <<secret, key, refreshing, cooling, todo, job, call>>

-----------------------------------------------------------------------------
\* Refresh, from the call to the fetch.
Begin(j, kind, p) ==
  /\ job[j] = NoJob
  /\ job' = [job EXCEPT ![j] = [kind |-> kind, of |-> p, phase |-> "fetching",
                                got |-> 0, overlapped |-> FALSE]]

\* What a refresh that ends leaves: the goroutine of a trigger has one more
\* thing to do, under the lock again.
Ended(j) == IF job[j].kind = "trigger" THEN [job[j] EXCEPT !.phase = "over"] ELSE NoJob

FetchReadsMutStaleReplica(j) ==
  /\ job[j] # NoJob
  /\ job[j].phase = "fetching"
  /\ source[job[j].of] # "down"
  /\ \E lag \in {0, 1} :
       job' = [job EXCEPT ![j].phase = "read", ![j].got = secret[job[j].of] - lag]
  /\ UNCHANGED <<secret, source, key, refreshing, cooling, todo, call>>

FetchReads(j) ==
  /\ job[j] # NoJob
  /\ job[j].phase = "fetching"
  /\ source[job[j].of] # "down"
  /\ job' = [job EXCEPT ![j].phase = "read",
                        ![j].got = IF source[job[j].of] = "ok" THEN secret[job[j].of] ELSE 0]
  /\ UNCHANGED <<secret, source, key, refreshing, cooling, todo, call>>

\* An error, fetchTimeout included: the last good key stays.
FetchFails(j) ==
  /\ job[j] # NoJob
  /\ job[j].phase = "fetching"
  /\ source[job[j].of] = "down"
  /\ job' = [job EXCEPT ![j] = Ended(j)]
  /\ UNCHANGED <<secret, source, key, refreshing, cooling, todo, call>>

LandMutTakesBlank(j) ==
  /\ job[j] # NoJob
  /\ job[j].phase = "read"
  /\ key' = [key EXCEPT ![job[j].of] = job[j].got]
  /\ job' = [i \in Jobs |->
               IF i = j THEN Ended(j)
               ELSE IF i \in Active(job[j].of) THEN [job[i] EXCEPT !.overlapped = TRUE]
               ELSE job[i]]
  /\ UNCHANGED <<secret, source, refreshing, cooling, todo, call>>

\* The rest of Refresh: an empty read is refused, anything else is the key.
Land(j) ==
  /\ job[j] # NoJob
  /\ job[j].phase = "read"
  /\ LET p == job[j].of
     IN  \/ /\ job[j].got = 0
            /\ job' = [job EXCEPT ![j] = Ended(j)]
            /\ UNCHANGED key
         \/ /\ job[j].got # 0
            /\ key' = [key EXCEPT ![p] = job[j].got]
            /\ job' = [i \in Jobs |->
                         IF i = j THEN Ended(j)
                         ELSE IF i \in Active(p) THEN [job[i] EXCEPT !.overlapped = TRUE]
                         ELSE job[i]]
  /\ UNCHANGED <<secret, source, refreshing, cooling, todo, call>>

\* The deferred reset of the trigger's goroutine.
TriggerOver(j) ==
  /\ job[j] # NoJob
  /\ job[j].phase = "over"
  /\ refreshing' = [refreshing EXCEPT ![job[j].of] = FALSE]
  /\ job' = [job EXCEPT ![j] = NoJob]
  /\ UNCHANGED <<secret, source, key, cooling, todo, call>>

\* RefreshAll: one provider after the other, whatever became of the last.
BootRefresh(j, p) ==
  /\ p \in todo
  /\ \A q \in Providers : ActiveOf("boot", q) = {}
  /\ Begin(j, "boot", p)
  /\ todo' = todo \ {p}
  /\ UNCHANGED <<secret, source, key, refreshing, cooling, call>>

LoopRefreshMutUntilLoaded(j, p) ==
  /\ Serving
  /\ key[p] = 0
  /\ ActiveOf("loop", p) = {}
  /\ Begin(j, "loop", p)
  /\ UNCHANGED <<secret, source, key, refreshing, cooling, todo, call>>

\* KeepFresh: a tick, taken only when the last refresh of this loop is over.
LoopRefresh(j, p) ==
  /\ Serving
  /\ ActiveOf("loop", p) = {}
  /\ Begin(j, "loop", p)
  /\ UNCHANGED <<secret, source, key, refreshing, cooling, todo, call>>

TriggerRefreshMutNoFlag(j, p) ==
  \/ /\ ~cooling[p]
     /\ Begin(j, "trigger", p)
     /\ refreshing' = [refreshing EXCEPT ![p] = TRUE]
     /\ cooling' = [cooling EXCEPT ![p] = TRUE]
  \/ /\ cooling[p]
     /\ UNCHANGED <<job, refreshing, cooling>>

TriggerRefresh(j, p) ==
  \/ /\ ~refreshing[p] /\ ~cooling[p]
     /\ Begin(j, "trigger", p)
     /\ refreshing' = [refreshing EXCEPT ![p] = TRUE]
     /\ cooling' = [cooling EXCEPT ![p] = TRUE]
  \/ /\ refreshing[p] \/ cooling[p]
     /\ UNCHANGED <<job, refreshing, cooling>>

CooldownPasses(p) ==
  /\ cooling[p]
  /\ cooling' = [cooling EXCEPT ![p] = FALSE]
  /\ UNCHANGED <<secret, source, key, refreshing, todo, job, call>>

-----------------------------------------------------------------------------
\* A request reads the key in force when it is sent, if there is one: a pod that
\* is not ready serves what reaches it, without a credential.  The rejection
\* comes back later, through Router.Complete.
Send(c, p) ==
  /\ Serving
  /\ call[c] = NoCall
  /\ call' = [call EXCEPT ![c] = [of |-> p, key |-> key[p]]]
  /\ UNCHANGED <<secret, source, key, refreshing, cooling, todo, job>>

Accepted(c) ==
  /\ call[c] # NoCall
  /\ call[c].key = secret[call[c].of]
  /\ call' = [call EXCEPT ![c] = NoCall]
  /\ UNCHANGED <<secret, source, key, refreshing, cooling, todo, job>>

Rejected(c, j) ==
  /\ call[c] # NoCall
  /\ call[c].key # secret[call[c].of]
  /\ call' = [call EXCEPT ![c] = NoCall]
  /\ TriggerRefresh(j, call[c].of)
  /\ UNCHANGED <<secret, source, key, todo>>

\* A refresh in progress moves.
Moves(j) == FetchReads(j) \/ FetchFails(j) \/ Land(j) \/ TriggerOver(j)

Next ==
  \/ \E p \in Providers :
       \/ Rotate(p) \/ CooldownPasses(p)
       \/ \E s \in {"ok", "blank", "down"} : SourceTurns(p, s)
       \/ \E j \in Jobs : BootRefresh(j, p) \/ LoopRefresh(j, p)
       \/ \E c \in Callers : Send(c, p)
  \/ \E j \in Jobs : Moves(j)
  \/ \E c \in Callers : Accepted(c) \/ \E j \in Jobs : Rejected(c, j)

Spec == Init /\ [][Next]_vars

\* Boot goes on, every loop's ticker ticks, and every fetch ends: it answers or
\* runs into fetchTimeout.
Fairness ==
  /\ \A p \in Providers : /\ WF_vars(\E j \in Jobs : BootRefresh(j, p))
                          /\ WF_vars(\E j \in Jobs : LoopRefresh(j, p))
  /\ \A j \in Jobs : WF_vars(Moves(j))

FairSpec == Spec /\ Fairness
-----------------------------------------------------------------------------
\* Fail static: once a key has loaded, no outage, blank secret or late refresh
\* ever leaves the provider without one (cache.go:166-194).
KeyNeverLost ==
  [][\A p \in Providers : key[p] # 0 => key'[p] # 0]_vars

\* A late refresh puts an older key back only where two refreshes of one
\* provider overlapped: alone, a refresh never undoes a rotation.
KeyGoesBackOnlyByOverlap ==
  [][\A p \in Providers :
       key'[p] < key[p] =>
         \E j \in Active(p) : job[j].phase = "read" /\ job[j].overlapped
                              /\ job[j].got = key'[p]]_vars

\* The flag is the single-flight of the triggers: it is up exactly while one
\* triggered refresh lives, and it never outlives it (cache.go:227-242).
OneTriggerAtATime ==
  \A p \in Providers :
    Cardinality(ActiveOf("trigger", p)) = IF refreshing[p] THEN 1 ELSE 0

\* Once the source stays readable the cache ends on the newest key, whatever
\* refreshes were in progress and in which order they landed.
EventuallyFresh ==
  \A p \in Providers :
    <>[](source[p] = "ok") => <>[](key[p] = secret[p])
=============================================================================
