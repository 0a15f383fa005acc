-------------------------------- MODULE Slots --------------------------------
(***************************************************************************)
(* internal/slots/limiter.go: the in-process limiter of in-flight          *)
(* requests.  Each successful TryAcquire hands the caller a release        *)
(* closure; the limiter itself keeps only two kinds of counter, one per    *)
(* app and one for the process, and never a list of who holds what.  The   *)
(* sets of closures issued and run are therefore the caller's side of the  *)
(* contract, and the counters are judged against them.                     *)
(***************************************************************************)
EXTENDS Integers, FiniteSets

CONSTANTS Apps,     \* the configured apps
          Ids,      \* identities of release closures, each used once
          Limits    \* the limits New may be given; 0 means "not metered"

ASSUME LimitsAssumption == Limits \subseteq Nat /\ IsFiniteSet(Apps)

VARIABLES global,   \* Limiter.global
          ceilings, \* Limiter.ceilings; absent and 0 are the same reading
          inFlight, \* Limiter.inFlight; an absent key reads as 0
          total,    \* Limiter.total
          issued,   \* the release closures handed out so far
          fired,    \* those whose sync.Once has run
          answer    \* what the last TryAcquire returned

limits == <<global, ceilings>>
vars   == <<global, ceilings, inFlight, total, issued, fired, answer>>

Closure  == [id : Ids, app : Apps]
NoAnswer == [ok |-> TRUE, ceiling |-> 0]

\* The slots held now: closures issued whose once has not run.
Held      == issued \ fired
HeldBy(a) == {c \in Held : c.app = a}

TypeOK ==
  /\ global \in Limits
  /\ ceilings \in [Apps -> Limits]
  /\ inFlight \in [Apps -> Nat]
  /\ total \in Nat
  /\ issued \subseteq Closure
  /\ fired \subseteq issued
  /\ answer \in [ok : BOOLEAN, ceiling : Nat]

-----------------------------------------------------------------------------
\* New
Init ==
  /\ global \in Limits
  /\ ceilings \in [Apps -> Limits]
  /\ inFlight = [a \in Apps |-> 0]
  /\ total = 0
  /\ issued = {}
  /\ fired = {}
  /\ answer = NoAnswer

\* The two refusals of TryAcquire, in the order they are tested.
OwnCeilingRefusesMutOffByOne(a) == ceilings[a] > 0 /\ inFlight[a] > ceilings[a]
GlobalCapRefusesMutOffByOne     == global > 0 /\ total + 1 >= global

OwnCeilingRefuses(a) == ceilings[a] > 0 /\ inFlight[a] >= ceilings[a]
GlobalCapRefuses     == global > 0 /\ total >= global

Grant(a, id) ==
  /\ ~OwnCeilingRefuses(a)
  /\ ~GlobalCapRefuses
  /\ \A c \in issued : c.id # id
  /\ inFlight' = [inFlight EXCEPT ![a] = @ + 1]
  /\ total' = total + 1
  /\ issued' = issued \cup {[id |-> id, app |-> a]}
  /\ answer' = NoAnswer
  /\ UNCHANGED <<limits, fired>>

Refuse(a) ==
  /\ \/ /\ OwnCeilingRefuses(a)
        /\ answer' = [ok |-> FALSE, ceiling |-> ceilings[a]]
     \/ /\ ~OwnCeilingRefuses(a)
        /\ GlobalCapRefuses
        /\ answer' = [ok |-> FALSE, ceiling |-> global]
  /\ UNCHANGED <<limits, inFlight, total, issued, fired>>

TryAcquire(a, id) == Grant(a, id) \/ Refuse(a)

ReleaseOnceMutDropsTwo(c) ==
  /\ inFlight' = [inFlight EXCEPT ![c.app] = IF @ - 1 <= 1 THEN 0 ELSE @ - 1]
  /\ total' = total - 1
  /\ fired' = fired \cup {c}
  /\ UNCHANGED <<limits, issued, answer>>

\* The body sync.Once guards: decrement, delete the entry at or below zero (an
\* absent entry reads as 0), decrement the total.
ReleaseOnce(c) ==
  /\ inFlight' = [inFlight EXCEPT ![c.app] = IF @ - 1 <= 0 THEN 0 ELSE @ - 1]
  /\ total' = total - 1
  /\ fired' = fired \cup {c}
  /\ UNCHANGED <<limits, issued, answer>>

\* Any holder of a closure may call it, as often as it likes.
Release(c) ==
  /\ c \in issued
  /\ \/ c \notin fired /\ ReleaseOnce(c)
     \/ c \in fired /\ UNCHANGED vars

Next ==
  \/ \E a \in Apps, id \in Ids : TryAcquire(a, id)
  \/ \E c \in issued : Release(c)

Spec == Init /\ [][Next]_vars

-----------------------------------------------------------------------------
\* The counters are exactly the slots held, whatever the order of acquisitions
\* and releases and however often a caller runs its closure: a drift in either
\* direction would silently move a ceiling (limiter.go:68-71).
CountersAreExact ==
  /\ total = Cardinality(Held)
  /\ \A a \in Apps : inFlight[a] = Cardinality(HeldBy(a))

\* No interleaving of callers takes an app past its ceiling or the process past
\* the global cap, counted in slots really held and not in the counters.
CeilingsHold ==
  /\ global > 0 => Cardinality(Held) <= global
  /\ \A a \in Apps : ceilings[a] > 0 => Cardinality(HeldBy(a)) <= ceilings[a]

\* The slots some apps can hold together when each is at its own ceiling.
Places(bs) == UNION {{b} \X (1..ceilings[b]) : b \in bs}

\* What is left of the global cap once every other app is at its own ceiling.
Share(a) == global - Cardinality(Places(Apps \ {a}))

\* The isolation the ceilings do buy: when every other app has a ceiling, the
\* global cap turns app a away only while a already holds its share of it, so
\* no conduct of the other apps can push a below that share (limiter.go:6-13).
GuaranteedShare ==
  \A a \in Apps :
    (/\ \A b \in Apps \ {a} : ceilings[b] > 0
     /\ GlobalCapRefuses)
      => Cardinality(HeldBy(a)) >= Share(a)
=============================================================================
