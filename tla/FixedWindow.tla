----------------------------- MODULE FixedWindow -----------------------------
(***************************************************************************)
(* internal/redis: what the request-rate limiter and the token limiter     *)
(* share.  Counters live in one Redis, named by app and by the window the  *)
(* caller's own clock reads; each replica has its own clock, and Redis     *)
(* expires a key by its clock.  A key is written by one atomic script that *)
(* gives it a lifetime when it first appears.                              *)
(***************************************************************************)
EXTENDS Integers, FiniteSets

CONSTANTS Apps,
          Replicas,
          Skews,     \* how far a replica's clock may be ahead of Redis's
          Window,    \* ticks in a metering window
          Grace,     \* ticks a key's lifetime exceeds the window by
          MaxTime    \* bound: Redis's clock stops there

ASSUME WindowAssumption ==
  /\ Window \in Nat \ {0}
  /\ Grace \in Nat
  /\ MaxTime \in Nat
  /\ Skews \subseteq Nat

VARIABLES now,    \* Redis's clock
          skew,   \* by replica
          store,  \* the keys in Redis, expired ones included
          tally   \* history: all that was ever added to a key

windowVars == <<now, skew, store, tally>>

clock(p)    == now + skew[p]
WindowOf(t) == t \div Window

TTLMutNoGrace == Window

TTL == Window + Grace

\* Clocks this far apart, and a command this late, fit in what a key outlives
\* its window by.
Fits(late) == \A s, t \in Skews : late + s <= Grace + t

Windows == {WindowOf(t + s) : t \in 0..MaxTime, s \in Skews}
Keys    == Apps \X Windows

Entry == [n : Nat, until : Nat]
Gone  == [n |-> 0, until |-> 0]

WindowTypeOK ==
  /\ now \in 0..MaxTime
  /\ skew \in [Replicas -> Skews]
  /\ store \in [Keys -> Entry]
  /\ tally \in [Keys -> Nat]

WindowInit ==
  /\ now = 0
  /\ skew \in [Replicas -> Skews]
  /\ store = [k \in Keys |-> Gone]
  /\ tally = [k \in Keys |-> 0]

\* What GET reads: nothing once the key's time is up.
Value(k) == IF now < store[k].until THEN store[k].n ELSE 0

\* incrementScript and debitScript: add, and give the key a lifetime if the
\* result is the increment itself, which is how a first write is told.
Bump(k, by) ==
  /\ store' = [store EXCEPT ![k] =
                 [n     |-> Value(k) + by,
                  until |-> IF Value(k) + by = by THEN now + TTL ELSE @.until]]
  /\ tally' = [tally EXCEPT ![k] = @ + by]
  /\ UNCHANGED <<now, skew>>

Tick ==
  /\ now < MaxTime
  /\ now' = now + 1
  /\ UNCHANGED <<skew, store, tally>>

-----------------------------------------------------------------------------
\* A counter forgets nothing while any replica's clock is still in its window:
\* the lifetime is counted from the first write, by another clock, and yet a
\* key is never recreated from zero inside its own window.
CountersOutliveTheirWindow ==
  \A k \in Keys, p \in Replicas :
    WindowOf(clock(p)) = k[2] => Value(k) = tally[k]
=============================================================================
