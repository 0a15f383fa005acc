--------------------------- MODULE TokenLimiterProofs ---------------------------
(***************************************************************************)
(* What a token verdict rests on for any window, any lifetime, any clocks, *)
(* costs and number of requests: a counter of settled tokens is written    *)
(* only by debits, and lives to the end of its window.                     *)
(***************************************************************************)
EXTENDS TokenLimiter, TLAPS

\* When window w is over, by a clock that names keys after it.
Ends(w) == (w + 1) * Window

\* A key that was written lives to the end of its window and its grace, by some
\* replica's clock, and was not begun again before.
KeysLive ==
  \A k \in Keys :
    /\ store[k].n <= tally[k]
    /\ tally[k] > 0 =>
         /\ \E s \in Skews : store[k].until + s >= Ends(k[2]) + Grace
         /\ \/ store[k].n = tally[k]
            \/ \E s \in Skews : now + s >= Ends(k[2]) + Grace

\* A check names a window, a debit one that its replica has been in, and a debit
\* adds something.
CommandsAreNamed ==
  \A r \in Requests :
    /\ pc[r] = "checking" => checkKey[r] \in Keys
    /\ pc[r] \in {"settling", "straggling"} =>
         /\ debitKey[r] \in Keys
         /\ cost[r] \in Nat \ {0}
         /\ Ends(debitKey[r][2]) <= now + skew[at[r]] + Window

IInv == TypeOK /\ KeysLive /\ CommandsAreNamed

-----------------------------------------------------------------------------
\* A window contains the times it is named after.
LEMMA WindowBounds ==
  ASSUME NEW t \in Nat
  PROVE  /\ WindowOf(t) \in Nat
         /\ t < Ends(WindowOf(t))
         /\ Ends(WindowOf(t)) <= t + Window
  BY WindowAssumption DEF WindowOf, Ends

LEMMA EndsInOrder ==
  ASSUME NEW v \in Nat, NEW w \in Nat, v <= w
  PROVE  Ends(v) <= Ends(w) /\ Ends(v) \in Nat
<1>1. PICK d \in Nat : w = v + d
  <2>1. w - v \in Nat /\ w = v + (w - v)
    OBVIOUS
  <2>2. QED
    BY <2>1
<1>2. Window \in Nat /\ d * Window \in Nat /\ (v + 1) * Window \in Nat
  BY WindowAssumption
<1>3. (w + 1) * Window = (v + 1) * Window + d * Window
  BY <1>1, WindowAssumption
<1>4. QED
  BY <1>2, <1>3 DEF Ends

LEMMA EndsTyped ==
  ASSUME NEW k \in Keys
  PROVE  k[2] \in Nat /\ Ends(k[2]) \in Nat
<1>1. k[2] \in Windows
  BY DEF Keys
<1>2. PICK t \in 0..MaxTime, s \in Skews : k[2] = WindowOf(t + s)
  BY <1>1 DEF Windows
<1>3. t + s \in Nat
  BY WindowAssumption
<1>4. k[2] \in Nat
  BY <1>2, <1>3, WindowBounds
<1>5. QED
  BY <1>4, WindowAssumption DEF Ends

LEMMA KeyNamed ==
  ASSUME NEW a \in Apps, NEW t \in 0..MaxTime, NEW s \in Skews
  PROVE  <<a, WindowOf(t + s)>> \in Keys
  BY DEF Keys, Windows

\* What is typed of a single key.
LEMMA StoreTyped ==
  ASSUME TypeOK, NEW k \in Keys
  PROVE  /\ now \in Nat
         /\ store[k] \in Entry /\ store[k].n \in Nat /\ store[k].until \in Nat
         /\ tally[k] \in Nat /\ Value(k) \in Nat
<1>1. now \in Nat /\ store[k] \in Entry /\ tally[k] \in Nat
  BY WindowAssumption DEF TypeOK, WindowTypeOK
<1>2. store[k].n \in Nat /\ store[k].until \in Nat
  BY <1>1 DEF Entry
<1>3. QED
  BY <1>1, <1>2 DEF Value

\* A counter never says more than was counted.
LEMMA ValueIsCounted ==
  ASSUME TypeOK, KeysLive, NEW k \in Keys
  PROVE  Value(k) <= tally[k]
  BY StoreTyped DEF KeysLive, Value

\* As long as a window is open by some clock, its counter says all that was
\* counted in it.
LEMMA ValueIsWhole ==
  ASSUME Fits(0), TypeOK, KeysLive, NEW k \in Keys, NEW p \in Replicas,
         WindowOf(clock(p)) <= k[2]
  PROVE  Value(k) = tally[k]
<1> DEFINE t == skew[p]
<1>1. t \in Skews /\ now \in 0..MaxTime
  BY DEF TypeOK, WindowTypeOK
<1>2. clock(p) = now + t
  BY DEF clock
<1> HIDE DEF t
<1>3. /\ now \in Nat /\ store[k].n \in Nat /\ store[k].until \in Nat /\ tally[k] \in Nat
      /\ Ends(k[2]) \in Nat /\ Grace \in Nat /\ t \in Nat /\ \A s \in Skews : s \in Nat
      /\ \A s \in Skews : s <= Grace + t
  BY <1>1, StoreTyped, EndsTyped, WindowAssumption DEF Fits
<1>4. now + t < Ends(k[2])
  <2>1. now + t \in Nat /\ k[2] \in Nat
    BY <1>3, EndsTyped
  <2>2. WindowOf(now + t) \in Nat /\ now + t < Ends(WindowOf(now + t))
    BY <2>1, WindowBounds
  <2>3. Ends(WindowOf(now + t)) <= Ends(k[2]) /\ Ends(WindowOf(now + t)) \in Nat
    BY <1>2, <2>1, <2>2, EndsInOrder
  <2>4. QED
    BY <1>3, <2>1, <2>2, <2>3
<1>5. CASE tally[k] = 0
  BY <1>3, <1>5 DEF KeysLive, Value
<1>6. CASE tally[k] > 0
  <2>1. \A s \in Skews : ~(now + s >= Ends(k[2]) + Grace)
    BY <1>3, <1>4
  <2>2. store[k].n = tally[k]
    BY <1>6, <2>1 DEF KeysLive
  <2>3. PICK s \in Skews : store[k].until + s >= Ends(k[2]) + Grace
    BY <1>6 DEF KeysLive
  <2>4. now < store[k].until
    BY <1>3, <1>4, <2>3
  <2>5. QED
    BY <2>2, <2>4 DEF Value
<1>7. QED
  BY <1>3, <1>5, <1>6

-----------------------------------------------------------------------------
\* A debit is made by a command that is under way, late or not.
LEMMA DebitKeepsKeys ==
  ASSUME IInv, NEW r \in Requests, pc[r] \in {"settling", "straggling"},
         Bump(debitKey[r], cost[r])
  PROVE  /\ WindowTypeOK' /\ KeysLive' /\ UNCHANGED <<now, skew>>
<1> DEFINE q == debitKey[r]
           c == cost[r]
           v == Value(q)
           u == IF v + c = c THEN now + TTL ELSE store[q].until
           z == skew[at[r]]
<1>1. /\ TypeOK /\ q \in Keys /\ c \in Nat \ {0}
      /\ Ends(q[2]) <= now + z + Window
  BY DEF IInv, CommandsAreNamed
<1>2. /\ UNCHANGED <<now, skew>>
      /\ store' = [store EXCEPT ![q] = [n |-> v + c, until |-> u]]
      /\ tally' = [tally EXCEPT ![q] = @ + c]
  BY DEF Bump
<1>3. /\ now \in Nat /\ v \in Nat /\ store[q].n \in Nat /\ store[q].until \in Nat
      /\ tally[q] \in Nat /\ Ends(q[2]) \in Nat
      /\ z \in Skews /\ z \in Nat /\ Window \in Nat /\ Grace \in Nat
  <2>1. now \in Nat /\ v \in Nat /\ store[q].n \in Nat /\ store[q].until \in Nat
        /\ tally[q] \in Nat /\ Ends(q[2]) \in Nat
    BY <1>1, StoreTyped, EndsTyped
  <2>2. z \in Skews
    BY <1>1 DEF TypeOK, WindowTypeOK
  <2> HIDE DEF v, q, z
  <2>3. Window \in Nat /\ Grace \in Nat /\ z \in Nat
    BY <2>2, WindowAssumption
  <2>4. QED
    BY <2>1, <2>2, <2>3
<1>4. /\ store'[q] = [n |-> v + c, until |-> u] /\ tally'[q] = tally[q] + c
      /\ \A k \in Keys : k # q => store'[k] = store[k] /\ tally'[k] = tally[k]
  BY <1>1, <1>2 DEF TypeOK, WindowTypeOK
<1>5. u \in Nat
  BY <1>1, <1>3 DEF TTL
<1>6. WindowTypeOK'
  <2>1. [n |-> v + c, until |-> u] \in Entry
    BY <1>1, <1>3, <1>5 DEF Entry
  <2>2. store' \in [Keys -> Entry] /\ tally' \in [Keys -> Nat]
    BY <1>1, <1>2, <1>3, <2>1 DEF TypeOK, WindowTypeOK
  <2>3. QED
    BY <1>1, <1>2, <2>2 DEF TypeOK, WindowTypeOK
<1>7. v + c <= tally[q] + c
  BY <1>1, <1>3, ValueIsCounted DEF IInv
\* Begun afresh it lives a whole lifetime from now, otherwise as long as before.
<1>8. \E s \in Skews : u + s >= Ends(q[2]) + Grace
  <2>1. CASE v = 0
    <3>1. u = now + Window + Grace
      BY <1>1, <1>3, <2>1 DEF TTL
    <3>2. u + z >= Ends(q[2]) + Grace
      BY <1>1, <1>3, <3>1
    <3>3. QED
      BY <1>3, <3>2
  <2>2. CASE v # 0
    <3>1. u = store[q].until /\ tally[q] > 0
      BY <1>1, <1>3, <2>2, ValueIsCounted DEF IInv
    <3>2. QED
      BY <1>1, <3>1 DEF IInv, KeysLive
  <2>3. QED
    BY <2>1, <2>2
\* Begun afresh although it had been counted, it was past its time.
<1>9. v + c = tally[q] + c \/ \E s \in Skews : now + s >= Ends(q[2]) + Grace
  <2>1. CASE tally[q] = 0
    BY <1>1, <1>3, <1>7, <2>1
  <2>2. CASE tally[q] > 0 /\ now < store[q].until
    BY <1>1, <1>3, <2>2 DEF IInv, KeysLive, Value
  <2>3. CASE tally[q] > 0 /\ ~(now < store[q].until)
    <3>1. PICK s \in Skews : store[q].until + s >= Ends(q[2]) + Grace
      BY <1>1, <2>3 DEF IInv, KeysLive
    <3>2. s \in Nat
      BY WindowAssumption
    <3>3. now + s >= Ends(q[2]) + Grace
      BY <1>3, <2>3, <3>1, <3>2
    <3>4. QED
      BY <3>3
  <2>4. QED
    BY <1>3, <2>1, <2>2, <2>3
<1> HIDE DEF q, c, v, u, z
<1>10. KeysLive'
  BY <1>2, <1>4, <1>7, <1>8, <1>9 DEF IInv, KeysLive
<1>11. QED
  BY <1>1, <1>2, <1>4, <1>6, <1>10 DEF q
\* Time that passes only brings windows to their end.
LEMMA TimeKeepsKeys ==
  ASSUME IInv, now' = now \/ now' = now + 1, UNCHANGED <<skew, store, tally>>
  PROVE  KeysLive'
<1>1. now \in Nat /\ Grace \in Nat /\ \A s \in Skews : s \in Nat
  BY WindowAssumption DEF IInv, TypeOK, WindowTypeOK
<1>2. ASSUME NEW k \in Keys, NEW s \in Skews, now + s >= Ends(k[2]) + Grace
      PROVE  now' + s >= Ends(k[2]) + Grace
  BY <1>1, <1>2, EndsTyped
<1>3. QED
  BY <1>2 DEF IInv, KeysLive


LEMMA InitHolds ==
  ASSUME Init
  PROVE  IInv
<1>1. /\ now = 0 /\ skew \in [Replicas -> Skews]
      /\ \A k \in Keys : store[k] = Gone /\ tally[k] = 0
      /\ \A r \in Requests : pc[r] = "idle"
  BY DEF Init, WindowInit
<1>2. now \in 0..MaxTime /\ 0 \in 0..MaxTime
  BY <1>1, WindowAssumption
<1>3. Gone \in Entry
  BY DEF Gone, Entry
<1>4. WindowTypeOK
  BY <1>2, <1>3 DEF WindowTypeOK, Init, WindowInit
<1>5. TypeOK
  BY <1>2, <1>4 DEF TypeOK, Init
<1>6. KeysLive
  BY <1>1 DEF KeysLive, Gone
<1>7. CommandsAreNamed
  BY <1>1 DEF CommandsAreNamed
<1>8. QED
  BY <1>5, <1>6, <1>7 DEF IInv

\* The key a replica's clock names now.
LEMMA KeyNow ==
  ASSUME TypeOK, NEW r \in Requests
  PROVE  /\ keyAt(r) \in Keys
         /\ Ends(keyAt(r)[2]) <= now + skew[at[r]] + Window
<1> DEFINE t == now + skew[at[r]]
<1>1. now \in 0..MaxTime /\ skew[at[r]] \in Skews /\ app[r] \in Apps
  BY DEF TypeOK, WindowTypeOK
<1>2. t \in Nat
  <2>1. now \in Nat
    BY <1>1, WindowAssumption
  <2>2. skew[at[r]] \in Nat
    BY <1>1, WindowAssumption, Zenon
  <2>3. QED
    BY <2>1, <2>2
<1>3. keyAt(r) = <<app[r], WindowOf(t)>>
  BY DEF keyAt, clock
<1>4. keyAt(r) \in Keys
  BY <1>1, <1>3, KeyNamed
<1>5. keyAt(r)[2] = WindowOf(t)
  BY <1>3
<1> HIDE DEF t
<1>6. Ends(WindowOf(t)) <= t + Window
  BY <1>2, WindowBounds
<1>7. QED
  BY <1>4, <1>5, <1>6 DEF t

\* A debit lands.
LEMMA DebitKeeps ==
  ASSUME IInv, NEW r \in Requests, SettleReplied(r) \/ SettleStraggles(r)
  PROVE  IInv'
<1>1. /\ pc[r] \in {"settling", "straggling"} /\ Bump(debitKey[r], cost[r])
      /\ Goto(r, "done") /\ UNCHANGED <<app, at, checkKey, debitKey, verdict, cost>>
      /\ sentAt' = sentAt \/ sentAt' = [sentAt EXCEPT ![r] = 0]
  BY DEF SettleReplied, SettleStraggles
<1>2. WindowTypeOK' /\ KeysLive' /\ UNCHANGED <<now, skew>>
  BY <1>1, DebitKeepsKeys
<1>3. 0 \in 0..MaxTime
  BY WindowAssumption
<1>4. TypeOK'
  BY <1>1, <1>2, <1>3 DEF IInv, TypeOK, Goto
<1>5. \A o \in Requests \ {r} : pc'[o] = pc[o] /\ sentAt'[o] = sentAt[o]
  BY <1>1 DEF IInv, TypeOK, Goto
<1>6. pc'[r] = "done"
  BY <1>1 DEF IInv, TypeOK, Goto
<1>7. CommandsAreNamed'
  BY <1>1, <1>2, <1>5, <1>6 DEF IInv, CommandsAreNamed, Ends
<1>8. QED
  BY <1>2, <1>4, <1>7 DEF IInv

\* What a step leaves alone it leaves as it was for its request.
LEMMA AsItWas ==
  ASSUME IInv, NEW r \in Requests
  PROVE  /\ sentAt = [sentAt EXCEPT ![r] = sentAt[r]]
         /\ verdict = [verdict EXCEPT ![r] = verdict[r]]
         /\ cost = [cost EXCEPT ![r] = cost[r]]
         /\ sentAt[r] \in 0..MaxTime
         /\ verdict[r] \in {"none", "allowed", "refused", "open"}
         /\ cost[r] \in Costs \cup {0}
BY DEF IInv, TypeOK

\* A step of a request that leaves the counters alone, and begins no command.
LEMMA QuietKeeps ==
  ASSUME IInv, NEW r \in Requests, UNCHANGED <<windowVars, app, at, checkKey, debitKey>>,
         NEW l \in {"checked", "running", "done", "straggling"},
         Goto(r, l), l = "straggling" => pc[r] = "settling" /\ cost'[r] = cost[r],
         NEW t \in {0, sentAt[r]}, sentAt' = [sentAt EXCEPT ![r] = t],
         NEW v \in {"none", "allowed", "refused", "open"},
         verdict' = [verdict EXCEPT ![r] = v],
         NEW c \in Costs \cup {0}, cost' = [cost EXCEPT ![r] = c]
  PROVE  IInv'
<1>1. UNCHANGED <<now, skew, store, tally>>
  BY DEF windowVars
<1>2. 0 \in 0..MaxTime
  BY WindowAssumption
<1>3. TypeOK'
  <2>1. pc' \in [Requests -> {"idle", "checking", "checked", "running", "settling",
                             "straggling", "done"}]
    BY DEF IInv, TypeOK, Goto
  <2>2. sentAt' \in [Requests -> 0..MaxTime]
    BY <1>2 DEF IInv, TypeOK
  <2>3. verdict' \in [Requests -> {"none", "allowed", "refused", "open"}]
    BY DEF IInv, TypeOK
  <2>4. cost' \in [Requests -> Costs \cup {0}]
    BY DEF IInv, TypeOK
  <2>5. QED
    BY <1>1, <2>1, <2>2, <2>3, <2>4 DEF IInv, TypeOK, WindowTypeOK
<1>4. KeysLive'
  BY <1>1, TimeKeepsKeys
<1>5. \A o \in Requests \ {r} :
        pc'[o] = pc[o] /\ sentAt'[o] = sentAt[o] /\ cost'[o] = cost[o]
  BY DEF IInv, TypeOK, Goto
<1>6. pc'[r] = l
  BY DEF IInv, TypeOK, Goto
<1>7. CommandsAreNamed'
  BY <1>1, <1>5, <1>6 DEF IInv, CommandsAreNamed, Ends
<1>8. QED
  BY <1>3, <1>4, <1>7 DEF IInv

\* A check under way names its key.
LEMMA CheckKeeps ==
  ASSUME IInv, NEW r \in Requests, Check(r)
  PROVE  IInv'
<1>1. CASE ~Metered(app[r])
  <2>1. /\ Goto(r, "checked") /\ verdict' = [verdict EXCEPT ![r] = "allowed"]
        /\ UNCHANGED <<windowVars, app, at, checkKey, debitKey, sentAt, cost>>
    BY <1>1 DEF Check
  <2>2. QED
    BY <2>1, QuietKeeps, AsItWas
<1>2. CASE Metered(app[r])
  <2> DEFINE k == keyAt(r)
  <2>1. /\ pc' = [pc EXCEPT ![r] = "checking"] /\ checkKey' = [checkKey EXCEPT ![r] = k]
        /\ sentAt' = [sentAt EXCEPT ![r] = now]
        /\ UNCHANGED <<now, skew, store, tally, app, at, debitKey, verdict, cost>>
    BY <1>2 DEF Check, Goto, windowVars
  <2>2. k \in Keys /\ now \in 0..MaxTime
    BY KeyNow DEF IInv, TypeOK, WindowTypeOK
  <2> HIDE DEF k
  <2>3. TypeOK'
    BY <2>1, <2>2 DEF IInv, TypeOK, WindowTypeOK
  <2>4. KeysLive'
    BY <2>1, TimeKeepsKeys
  <2>5. /\ pc'[r] = "checking" /\ checkKey'[r] = k /\ sentAt'[r] = now
        /\ \A o \in Requests \ {r} :
             pc'[o] = pc[o] /\ checkKey'[o] = checkKey[o] /\ sentAt'[o] = sentAt[o]
    BY <2>1 DEF IInv, TypeOK
  <2>6. \A o \in Requests : pc'[o] = "checking" => checkKey'[o] \in Keys
    BY <2>2, <2>5 DEF IInv, CommandsAreNamed
  <2>7. \A o \in Requests :
          pc'[o] \in {"settling", "straggling"} =>
            /\ debitKey[o] \in Keys
            /\ cost[o] \in Nat \ {0}
            /\ Ends(debitKey[o][2]) <= now + skew[at[o]] + Window
    BY <2>5 DEF IInv, CommandsAreNamed
  <2>8. CommandsAreNamed'
    BY <2>1, <2>6, <2>7 DEF CommandsAreNamed, Ends
  <2>9. QED
    BY <2>3, <2>4, <2>8 DEF IInv
<1>3. QED
  BY <1>1, <1>2

\* So does a debit, and it debits something.
LEMMA SettleKeeps ==
  ASSUME IInv, NEW r \in Requests, NEW tokens \in Costs, Settle(r, tokens)
  PROVE  IInv'
<1>1. CASE ~Metered(app[r]) \/ tokens = 0
  <2>1. /\ Goto(r, "done") /\ cost' = [cost EXCEPT ![r] = tokens]
        /\ UNCHANGED <<windowVars, app, at, checkKey, debitKey, sentAt, verdict>>
    BY <1>1, TokenAssumption DEF Settle
  <2>2. QED
    BY <2>1, QuietKeeps, AsItWas
<1>2. CASE Metered(app[r]) /\ tokens > 0
  <2> DEFINE k == keyAt(r)
  <2>1. /\ pc' = [pc EXCEPT ![r] = "settling"] /\ debitKey' = [debitKey EXCEPT ![r] = k]
        /\ sentAt' = [sentAt EXCEPT ![r] = now] /\ cost' = [cost EXCEPT ![r] = tokens]
        /\ UNCHANGED <<now, skew, store, tally, app, at, checkKey, verdict>>
    BY <1>2, TokenAssumption DEF Settle, Goto, windowVars
  <2>2. k \in Keys /\ Ends(k[2]) <= now + skew[at[r]] + Window /\ now \in 0..MaxTime
    BY KeyNow DEF IInv, TypeOK, WindowTypeOK
  <2>3. tokens \in Nat \ {0}
    BY <1>2, TokenAssumption
  <2> HIDE DEF k
  <2>4. TypeOK'
    BY <2>1, <2>2 DEF IInv, TypeOK, WindowTypeOK
  <2>5. KeysLive'
    BY <2>1, TimeKeepsKeys
  <2>6. /\ pc'[r] = "settling" /\ debitKey'[r] = k /\ cost'[r] = tokens
        /\ \A o \in Requests \ {r} :
             /\ pc'[o] = pc[o] /\ debitKey'[o] = debitKey[o]
             /\ sentAt'[o] = sentAt[o] /\ cost'[o] = cost[o]
    BY <2>1 DEF IInv, TypeOK
  <2>7. \A o \in Requests : pc'[o] = "checking" => checkKey[o] \in Keys
    BY <2>6 DEF IInv, CommandsAreNamed
  <2>8. \A o \in Requests :
          pc'[o] \in {"settling", "straggling"} =>
            /\ debitKey'[o] \in Keys
            /\ cost'[o] \in Nat \ {0}
            /\ Ends(debitKey'[o][2]) <= now + skew[at[o]] + Window
    BY <2>2, <2>3, <2>6 DEF IInv, CommandsAreNamed
  <2>9. CommandsAreNamed'
    BY <2>1, <2>7, <2>8 DEF CommandsAreNamed, Ends
  <2>10. QED
    BY <2>4, <2>5, <2>9 DEF IInv
<1>3. QED
  BY <1>1, <1>2 DEF Settle

LEMMA TickKeeps ==
  ASSUME IInv, Tick, UNCHANGED callVars
  PROVE  IInv'
<1>1. /\ now < MaxTime /\ now' = now + 1 /\ UNCHANGED <<skew, store, tally>>
      /\ UNCHANGED <<app, at, pc, checkKey, debitKey, sentAt, verdict, cost>>
  BY DEF Tick, callVars
<1>2. now \in Nat /\ now' \in 0..MaxTime
  BY <1>1, WindowAssumption DEF IInv, TypeOK, WindowTypeOK
<1>3. TypeOK'
  BY <1>1, <1>2 DEF IInv, TypeOK, WindowTypeOK
<1>4. KeysLive'
  BY <1>1, TimeKeepsKeys
<1>5. ASSUME NEW o \in Requests, pc[o] \in {"settling", "straggling"}
      PROVE  Ends(debitKey[o][2]) <= now' + skew[at[o]] + Window
  <2>1. /\ debitKey[o] \in Keys /\ Ends(debitKey[o][2]) <= now + skew[at[o]] + Window
        /\ skew[at[o]] \in Skews
    BY <1>5 DEF IInv, CommandsAreNamed, TypeOK, WindowTypeOK
  <2>2. skew[at[o]] \in Nat
    BY <2>1, WindowAssumption, Zenon
  <2>3. Ends(debitKey[o][2]) \in Nat /\ Window \in Nat
    BY <2>1, EndsTyped, WindowAssumption
  <2>4. QED
    BY <1>1, <1>2, <2>1, <2>2, <2>3
<1>6. CommandsAreNamed'
  BY <1>1, <1>5 DEF IInv, CommandsAreNamed, Ends
<1>7. QED
  BY <1>3, <1>4, <1>6 DEF IInv

LEMMA StepKeeps ==
  ASSUME IInv, [Next]_vars
  PROVE  IInv'
<1>1. CASE Tick /\ UNCHANGED callVars
  BY <1>1, TickKeeps
<1>2. ASSUME NEW r \in Requests, CheckReplied(r)
      PROVE  IInv'
  <2>1. PICK v \in {"allowed", "refused"} :
          /\ verdict' = [verdict EXCEPT ![r] = v]
          /\ Goto(r, IF v = "allowed" THEN "checked" ELSE "done")
    BY <1>2 DEF CheckReplied, Verdict
  <2>2. QED
    BY <1>2, <2>1, QuietKeeps, AsItWas DEF CheckReplied
<1>3. ASSUME NEW r \in Requests, CheckFails(r)
      PROVE  IInv'
  BY <1>3, QuietKeeps, AsItWas DEF CheckFails
<1>4. ASSUME NEW r \in Requests, TryAcquire(r)
      PROVE  IInv'
  <2>1. PICK l \in {"running", "done"} : Goto(r, l)
    BY <1>4 DEF TryAcquire
  <2>2. QED
    BY <1>4, <2>1, QuietKeeps, AsItWas DEF TryAcquire
<1>5. ASSUME NEW r \in Requests, SettleFails(r)
      PROVE  IInv'
  BY <1>5, QuietKeeps, AsItWas DEF SettleFails
<1>6. CASE UNCHANGED vars
  <2>1. /\ UNCHANGED <<now, skew, store, tally>>
        /\ UNCHANGED <<app, at, pc, checkKey, debitKey, sentAt, verdict, cost>>
    BY <1>6 DEF vars, windowVars, callVars
  <2>2. KeysLive'
    BY <2>1, TimeKeepsKeys
  <2>3. TypeOK' /\ CommandsAreNamed'
    BY <2>1 DEF IInv, TypeOK, WindowTypeOK, CommandsAreNamed
  <2>4. QED
    BY <2>2, <2>3 DEF IInv
<1>7. QED
  BY <1>1, <1>2, <1>3, <1>4, <1>5, <1>6, CheckKeeps, SettleKeeps, DebitKeeps DEF Next

\* The invariant the theorem below rests on: every counter of settled tokens
\* lives out its window.
THEOREM TokenInvariant == Spec => []IInv
<1>1. Init => IInv
  BY InitHolds
<1>2. IInv /\ [Next]_vars => IInv'
  BY StepKeeps
<1>3. QED
  BY <1>1, <1>2, PTL DEF Spec

\* Every variable keeps its type, for any window, clocks, budgets and requests.
THEOREM TokenTypeCorrect == Spec => []TypeOK
<1>1. IInv => TypeOK
  BY DEF IInv
<1>2. QED
  BY <1>1, TokenInvariant, PTL

-----------------------------------------------------------------------------
\* A verdict comes from a reply to a check, and reads no more than was debited;
\* while the window is open by some clock, all of it.
LEMMA VerdictIsJudged ==
  ASSUME Fits(0), IInv, [Next]_vars, NEW r \in Requests,
         verdict[r] = "none", Metered(app[r])
  PROVE  /\ verdict'[r] = "refused" => tally[checkKey[r]] >= Budget[app[r]]
         /\ verdict'[r] = "allowed" =>
              \/ tally[checkKey[r]] < Budget[app[r]]
              \/ \A p \in Replicas : WindowOf(clock(p)) > checkKey[r][2]
<1> DEFINE q == checkKey[r]
<1>1. CASE CheckReplied(r)
  <2>1. /\ TypeOK /\ KeysLive /\ q \in Keys
        /\ verdict'[r] = Verdict(app[r], Value(q))
    BY <1>1 DEF CheckReplied, IInv, TypeOK, CommandsAreNamed
  <2>2. Budget[app[r]] \in Nat
    BY <2>1, TokenAssumption DEF TypeOK
  <2> HIDE DEF q
  <2>3. Value(q) \in Nat /\ tally[q] \in Nat /\ Value(q) <= tally[q]
    BY <2>1, StoreTyped, ValueIsCounted
  <2>4. verdict'[r] = "refused" => tally[q] >= Budget[app[r]]
    BY <2>1, <2>2, <2>3 DEF Verdict
  <2>5. ASSUME verdict'[r] = "allowed", NEW p \in Replicas,
               ~(WindowOf(clock(p)) > q[2])
        PROVE  tally[q] < Budget[app[r]]
    <3>1. WindowOf(clock(p)) <= q[2]
      <4>1. now \in 0..MaxTime /\ skew[p] \in Skews /\ q[2] \in Nat
        BY <2>1, EndsTyped DEF TypeOK, WindowTypeOK
      <4>2. skew[p] \in Nat
        BY <4>1, WindowAssumption, Zenon
      <4>3. clock(p) \in Nat
        BY <4>1, <4>2 DEF clock
      <4>4. WindowOf(clock(p)) \in Nat
        BY <4>3, WindowBounds
      <4>5. QED
        BY <2>5, <4>1, <4>4
    <3>2. Value(q) = tally[q]
      BY <2>1, <3>1, ValueIsWhole
    <3>3. QED
      BY <2>1, <2>2, <2>3, <2>5, <3>2 DEF Verdict
  <2>6. QED
    BY <2>4, <2>5 DEF q
<1>2. CASE ~CheckReplied(r)
  <2>1. verdict'[r] \in {"none", "open"}
    <3>1. ASSUME NEW o \in Requests,
                 Check(o) \/ CheckReplied(o) \/ CheckFails(o)
          PROVE  verdict'[r] \in {"none", "open"}
      BY <1>2, <3>1 DEF Check, CheckReplied, CheckFails, IInv, TypeOK
    <3>2. ASSUME NEW o \in Requests,
                 \/ TryAcquire(o) \/ \E tokens \in Costs : Settle(o, tokens)
                 \/ SettleReplied(o) \/ SettleFails(o) \/ SettleStraggles(o)
          PROVE  UNCHANGED verdict
      BY <3>2 DEF TryAcquire, Settle, SettleReplied, SettleFails, SettleStraggles
    <3>3. (Tick /\ UNCHANGED callVars) \/ UNCHANGED vars => UNCHANGED verdict
      BY DEF callVars, vars
    <3>4. QED
      BY <3>1, <3>2, <3>3 DEF Next
  <2>2. QED
    BY <2>1
<1>3. QED
  BY <1>1, <1>2

\* As long as the clocks are no further apart than the grace of a key, a check
\* refuses only at the budget and passes only under it, or when its window is
\* over by every clock: however late the reply is, whatever replica debited what
\* (Check and Settle).
THEOREM TokenVerdictsFollowSpend ==
  ASSUME Fits(0)
  PROVE  Spec => VerdictsFollowSettledSpend
<1>1. IInv /\ [Next]_vars =>
        [\A r \in Requests :
           (verdict[r] = "none" /\ Metered(app[r])) =>
             /\ verdict'[r] = "refused" => tally[checkKey[r]] >= Budget[app[r]]
             /\ verdict'[r] = "allowed" =>
                  \/ tally[checkKey[r]] < Budget[app[r]]
                  \/ \A p \in Replicas : WindowOf(clock(p)) > checkKey[r][2]]_vars
  BY VerdictIsJudged
<1>2. QED
  BY <1>1, TokenInvariant, PTL DEF Spec, VerdictsFollowSettledSpend
=============================================================================
