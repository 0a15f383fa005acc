---------------------------- MODULE RedisProofs -----------------------------
(***************************************************************************)
(* What the shared counters guarantee for any window, any lifetime, any    *)
(* clocks and any number of requests: no refusal is unearned; as long as   *)
(* no clock is ahead of another by more than a key's extra lifetime, no    *)
(* counter is forgotten in its window and the quota holds while it is      *)
(* open; and what late commands can add to it is bounded, for any          *)
(* patience.  Below it, what the client they are kept through promises,    *)
(* for any number of calls and connections and any pool size.              *)
(***************************************************************************)
EXTENDS RateLimiter, RedisClient, FiniteSetTheorems, TLAPS

\* When window w is over, by a clock that names keys after it.
Ends(w) == (w + 1) * Window

\* A key that was written lives to the end of its window and its grace, by some
\* replica's clock, and was not begun again before.
KeysLive ==
  \A k \in Keys :
    /\ store[k].n <= tally[k]
    /\ tally[k] > 0 =>
         /\ \E s \in Skews : store[k].until + s >= Ends(k[2]) + Grace
         /\ \/ store[k].n = tally[k]
            \/ \E s \in Skews : now + s >= Ends(k[2]) + Grace

\* A command under way names the window its replica was in when it was sent.
CommandsAreNamed ==
  \A r \in Requests :
    /\ pc[r] \in {"sent", "abandoned"} =>
         /\ key[r] \in Keys /\ key[r][1] = app[r]
         /\ sentAt[r] <= now
         /\ sentAt[r] + skew[at[r]] < Ends(key[r][2])
         /\ Ends(key[r][2]) <= sentAt[r] + skew[at[r]] + Window
    /\ pc[r] = "idle" => key[r] = NoKey
    /\ pc[r] \in {"idle", "sent"} => verdict[r] = "none"
    /\ pc[r] # "done" => ~counted[r]

Counted(k) == {r \in Requests : counted[r] /\ key[r] = k}

\* The history of a key is the number of requests counted in it.
TallyCounts ==
  \A k \in Keys : IsFiniteSet(Counted(k)) /\ tally[k] = Cardinality(Counted(k))

\* An admitted or refused request with a key was counted.
JudgedWereCounted ==
  \A r \in Requests :
    /\ verdict[r] = "allowed" => counted[r] \/ key[r] = NoKey
    /\ verdict[r] = "refused" => counted[r] /\ key[r] \in Keys

IInv == TypeOK /\ KeysLive /\ CommandsAreNamed /\ TallyCounts /\ JudgedWereCounted

-----------------------------------------------------------------------------
\* A window contains the times it is named after.
LEMMA WindowBounds ==
  ASSUME NEW t \in Nat
  PROVE  /\ WindowOf(t) \in Nat
         /\ t < Ends(WindowOf(t))
         /\ Ends(WindowOf(t)) <= t + Window
  BY WindowAssumption DEF WindowOf, Ends

LEMMA Multiples ==
  ASSUME NEW m \in Nat, NEW i \in Nat, NEW j \in Nat, i <= j
  PROVE  i * m <= j * m /\ i * m \in Nat /\ (i + 1) * m = i * m + m
<1>1. PICK d \in Nat : j = i + d
  <2>1. j - i \in Nat /\ j = i + (j - i)
    OBVIOUS
  <2>2. QED
    BY <2>1
<1>2. d * m \in Nat /\ i * m \in Nat
  OBVIOUS
<1>3. j * m = i * m + d * m /\ (i + 1) * m = i * m + m
  BY <1>1
<1>4. QED
  BY <1>2, <1>3

LEMMA EndsInOrder ==
  ASSUME NEW v \in Nat, NEW w \in Nat, v <= w
  PROVE  Ends(v) <= Ends(w) /\ Ends(v) \in Nat
BY Multiples, WindowAssumption DEF Ends

LEMMA EndsTyped ==
  ASSUME NEW k \in Keys
  PROVE  k[2] \in Nat /\ Ends(k[2]) \in Nat
<1>1. k[2] \in Windows
  BY DEF Keys
<1>2. PICK t \in 0..MaxTime, s \in Skews : k[2] = WindowOf(t + s)
  BY <1>1 DEF Windows
<1>3. t + s \in Nat
  BY WindowAssumption
<1>4. k[2] \in Nat
  BY <1>2, <1>3, WindowBounds
<1>5. QED
  BY <1>4, WindowAssumption DEF Ends

LEMMA KeyNamed ==
  ASSUME NEW a \in Apps, NEW t \in 0..MaxTime, NEW s \in Skews
  PROVE  <<a, WindowOf(t + s)>> \in Keys
  BY DEF Keys, Windows

\* What is typed of a single key.
LEMMA StoreTyped ==
  ASSUME TypeOK, NEW k \in Keys
  PROVE  /\ now \in Nat
         /\ store[k] \in Entry /\ store[k].n \in Nat /\ store[k].until \in Nat
         /\ tally[k] \in Nat /\ Value(k) \in Nat
<1>1. now \in Nat /\ store[k] \in Entry /\ tally[k] \in Nat
  BY WindowAssumption DEF TypeOK, WindowTypeOK
<1>2. store[k].n \in Nat /\ store[k].until \in Nat
  BY <1>1 DEF Entry
<1>3. QED
  BY <1>1, <1>2 DEF Value

\* A counter never says more than was counted.
LEMMA ValueIsCounted ==
  ASSUME TypeOK, KeysLive, NEW k \in Keys
  PROVE  Value(k) <= tally[k]
  BY StoreTyped DEF KeysLive, Value

\* As long as a window is open by some clock, its counter says all that was
\* counted in it.
LEMMA ValueIsWhole ==
  ASSUME Fits(0), TypeOK, KeysLive, NEW k \in Keys, NEW p \in Replicas,
         WindowOf(clock(p)) <= k[2]
  PROVE  Value(k) = tally[k]
<1> DEFINE t == skew[p]
<1>1. t \in Skews /\ now \in 0..MaxTime
  BY DEF TypeOK, WindowTypeOK
<1>2. clock(p) = now + t
  BY DEF clock
<1> HIDE DEF t
<1>3. /\ now \in Nat /\ store[k].n \in Nat /\ store[k].until \in Nat /\ tally[k] \in Nat
      /\ Ends(k[2]) \in Nat /\ Grace \in Nat /\ t \in Nat /\ \A s \in Skews : s \in Nat
      /\ \A s \in Skews : s <= Grace + t
  BY <1>1, StoreTyped, EndsTyped, WindowAssumption DEF Fits
<1>4. now + t < Ends(k[2])
  <2>1. now + t \in Nat /\ k[2] \in Nat
    BY <1>3, EndsTyped
  <2>2. WindowOf(now + t) \in Nat /\ now + t < Ends(WindowOf(now + t))
    BY <2>1, WindowBounds
  <2>3. Ends(WindowOf(now + t)) <= Ends(k[2]) /\ Ends(WindowOf(now + t)) \in Nat
    BY <1>2, <2>1, <2>2, EndsInOrder
  <2>4. QED
    BY <1>3, <2>1, <2>2, <2>3
<1>5. CASE tally[k] = 0
  BY <1>3, <1>5 DEF KeysLive, Value
<1>6. CASE tally[k] > 0
  <2>1. \A s \in Skews : ~(now + s >= Ends(k[2]) + Grace)
    BY <1>3, <1>4
  <2>2. store[k].n = tally[k]
    BY <1>6, <2>1 DEF KeysLive
  <2>3. PICK s \in Skews : store[k].until + s >= Ends(k[2]) + Grace
    BY <1>6 DEF KeysLive
  <2>4. now < store[k].until
    BY <1>3, <1>4, <2>3
  <2>5. QED
    BY <2>2, <2>4 DEF Value
<1>7. QED
  BY <1>3, <1>5, <1>6

-----------------------------------------------------------------------------
\* The script runs for a command that is under way.
LEMMA ScriptKeepsKeys ==
  ASSUME IInv, NEW r \in Requests, pc[r] \in {"sent", "abandoned"}, Bump(key[r], 1)
  PROVE  /\ WindowTypeOK' /\ KeysLive' /\ UNCHANGED <<now, skew>>
         /\ key[r] \in Keys
         /\ \A k \in Keys : tally'[k] = IF k = key[r] THEN tally[k] + 1 ELSE tally[k]
<1> DEFINE q == key[r]
           v == Value(q)
           u == IF v + 1 = 1 THEN now + TTL ELSE store[q].until
           z == skew[at[r]]
<1>1. /\ TypeOK /\ q \in Keys /\ sentAt[r] <= now
      /\ Ends(q[2]) <= sentAt[r] + z + Window
  BY DEF IInv, CommandsAreNamed
<1>2. /\ UNCHANGED <<now, skew>>
      /\ store' = [store EXCEPT ![q] = [n |-> v + 1, until |-> u]]
      /\ tally' = [tally EXCEPT ![q] = @ + 1]
  BY DEF Bump
<1>3. /\ now \in Nat /\ v \in Nat /\ store[q].n \in Nat /\ store[q].until \in Nat
      /\ tally[q] \in Nat /\ Ends(q[2]) \in Nat /\ sentAt[r] \in Nat
      /\ z \in Skews /\ z \in Nat /\ Window \in Nat /\ Grace \in Nat
  <2>1. now \in Nat /\ v \in Nat /\ store[q].n \in Nat /\ store[q].until \in Nat
        /\ tally[q] \in Nat /\ Ends(q[2]) \in Nat
    BY <1>1, StoreTyped, EndsTyped
  <2>2. sentAt[r] \in 0..MaxTime /\ z \in Skews
    BY <1>1 DEF TypeOK, WindowTypeOK
  <2>3. \A x \in 0..MaxTime : x \in Nat
    OBVIOUS
  <2>4. sentAt[r] \in Nat
    BY <2>2, <2>3
  <2> HIDE DEF v, q, z
  <2>5. Window \in Nat /\ Grace \in Nat /\ z \in Nat
    BY <2>2, WindowAssumption
  <2>6. QED
    BY <2>1, <2>2, <2>4, <2>5
<1>4. /\ store'[q] = [n |-> v + 1, until |-> u] /\ tally'[q] = tally[q] + 1
      /\ \A k \in Keys : k # q => store'[k] = store[k] /\ tally'[k] = tally[k]
  BY <1>1, <1>2 DEF TypeOK, WindowTypeOK
<1>5. u \in Nat
  BY <1>3 DEF TTL
<1>6. WindowTypeOK'
  <2>1. [n |-> v + 1, until |-> u] \in Entry
    BY <1>3, <1>5 DEF Entry
  <2>2. store' \in [Keys -> Entry] /\ tally' \in [Keys -> Nat]
    BY <1>1, <1>2, <1>3, <2>1 DEF TypeOK, WindowTypeOK
  <2>3. QED
    BY <1>1, <1>2, <2>2 DEF TypeOK, WindowTypeOK
<1>7. v + 1 <= tally[q] + 1
  BY <1>1, <1>3, ValueIsCounted DEF IInv
\* Begun afresh it lives a whole lifetime from now, otherwise as long as before.
<1>8. \E s \in Skews : u + s >= Ends(q[2]) + Grace
  <2>1. CASE v = 0
    <3>1. u = now + Window + Grace
      BY <1>3, <2>1 DEF TTL
    <3>2. u + z >= Ends(q[2]) + Grace
      BY <1>1, <1>3, <3>1
    <3>3. QED
      BY <1>3, <3>2
  <2>2. CASE v # 0
    <3>1. u = store[q].until /\ tally[q] > 0
      BY <1>1, <1>3, <2>2, ValueIsCounted DEF IInv
    <3>2. QED
      BY <1>1, <3>1 DEF IInv, KeysLive
  <2>3. QED
    BY <2>1, <2>2
\* Begun afresh although it had been counted, it was past its time.
<1>9. v + 1 = tally[q] + 1 \/ \E s \in Skews : now + s >= Ends(q[2]) + Grace
  <2>1. CASE tally[q] = 0
    BY <1>3, <1>7, <2>1
  <2>2. CASE tally[q] > 0 /\ now < store[q].until
    BY <1>1, <1>3, <2>2 DEF IInv, KeysLive, Value
  <2>3. CASE tally[q] > 0 /\ ~(now < store[q].until)
    <3>1. PICK s \in Skews : store[q].until + s >= Ends(q[2]) + Grace
      BY <1>1, <2>3 DEF IInv, KeysLive
    <3>2. s \in Nat
      BY WindowAssumption
    <3>3. now + s >= Ends(q[2]) + Grace
      BY <1>3, <2>3, <3>1, <3>2
    <3>4. QED
      BY <3>3
  <2>4. QED
    BY <1>3, <2>1, <2>2, <2>3
<1> HIDE DEF q, v, u, z
<1>10. KeysLive'
  BY <1>2, <1>4, <1>7, <1>8, <1>9 DEF IInv, KeysLive
<1>11. QED
  BY <1>1, <1>2, <1>4, <1>6, <1>10 DEF q

\* Time that passes only brings windows to their end.
LEMMA TimeKeepsKeys ==
  ASSUME IInv, now' = now \/ now' = now + 1, UNCHANGED <<skew, store, tally>>
  PROVE  KeysLive'
<1>1. now \in Nat /\ Grace \in Nat /\ \A s \in Skews : s \in Nat
  BY WindowAssumption DEF IInv, TypeOK, WindowTypeOK
<1>2. ASSUME NEW k \in Keys, NEW s \in Skews, now + s >= Ends(k[2]) + Grace
      PROVE  now' + s >= Ends(k[2]) + Grace
  BY <1>1, <1>2, EndsTyped
<1>3. QED
  BY <1>2 DEF IInv, KeysLive

\* The script counts the request, once, in the key it named.
LEMMA ScriptCounts ==
  ASSUME IInv, NEW r \in Requests, pc[r] \in {"sent", "abandoned"}, RunScript(r),
         UNCHANGED key
  PROVE  TallyCounts'
<1>1. /\ ~counted[r]
      /\ \A k \in Keys : tally'[k] = IF k = key[r] THEN tally[k] + 1 ELSE tally[k]
  BY ScriptKeepsKeys DEF RunScript, IInv, CommandsAreNamed
<1>2. \A o \in Requests : counted'[o] = (counted[o] \/ o = r)
  BY DEF RunScript, IInv, TypeOK
<1>3. ASSUME NEW k \in Keys
      PROVE  IsFiniteSet(Counted(k)') /\ tally'[k] = Cardinality(Counted(k)')
  <2>1. IsFiniteSet(Counted(k)) /\ tally[k] = Cardinality(Counted(k))
    BY DEF IInv, TallyCounts
  <2>2. CASE k = key[r]
    <3>1. Counted(k)' = Counted(k) \cup {r} /\ r \notin Counted(k)
      BY <1>1, <1>2, <2>2 DEF Counted
    <3>2. /\ IsFiniteSet(Counted(k)')
          /\ Cardinality(Counted(k)') = Cardinality(Counted(k)) + 1
      BY <2>1, <3>1, FS_AddElement
    <3>3. QED
      BY <1>1, <2>1, <2>2, <3>2
  <2>3. CASE k # key[r]
    <3>1. Counted(k)' = Counted(k)
      BY <1>2, <2>3 DEF Counted
    <3>2. QED
      BY <1>1, <2>1, <2>3, <3>1
  <2>4. QED
    BY <2>2, <2>3
<1>4. QED
  BY <1>3 DEF TallyCounts

\* A step in which the script ran and the command is over.
LEMMA ScriptStep ==
  ASSUME IInv, NEW r \in Requests, pc[r] \in {"sent", "abandoned"}, RunScript(r),
         UNCHANGED <<app, at, key, sentAt>>, pc' = [pc EXCEPT ![r] = "done"],
         NEW v \in {"none", "allowed", "refused", "open"},
         verdict' = [verdict EXCEPT ![r] = v],
         NEW n \in Nat, used' = [used EXCEPT ![r] = n]
  PROVE  IInv'
<1>1. WindowTypeOK' /\ KeysLive' /\ UNCHANGED <<now, skew>>
  BY ScriptKeepsKeys DEF RunScript
<1>2. /\ pc' \in [Requests -> {"idle", "sent", "abandoned", "done"}]
      /\ verdict' \in [Requests -> {"none", "allowed", "refused", "open"}]
      /\ used' \in [Requests -> Nat] /\ counted' \in [Requests -> BOOLEAN]
  BY DEF IInv, TypeOK, RunScript
<1>3. TypeOK'
  BY <1>1, <1>2 DEF IInv, TypeOK
<1>4. \A o \in Requests :
        /\ pc'[o] = IF o = r THEN "done" ELSE pc[o]
        /\ verdict'[o] = IF o = r THEN v ELSE verdict[o]
        /\ counted'[o] = (counted[o] \/ o = r)
  BY DEF IInv, TypeOK, RunScript
<1>5. CommandsAreNamed'
  <2>1. \A o \in Requests : pc'[o] # "done" => o # r /\ pc'[o] = pc[o]
    BY <1>4
  <2>2. \A o \in Requests :
          pc'[o] \in {"sent", "abandoned"} =>
            /\ key[o] \in Keys /\ key[o][1] = app[o]
            /\ sentAt[o] <= now
            /\ sentAt[o] + skew[at[o]] < Ends(key[o][2])
            /\ Ends(key[o][2]) <= sentAt[o] + skew[at[o]] + Window
    <3>1. TAKE o \in Requests
    <3>2. HAVE pc'[o] \in {"sent", "abandoned"}
    <3>3. pc[o] \in {"sent", "abandoned"}
      BY <2>1, <3>2
    <3>4. QED
      BY <3>3 DEF IInv, CommandsAreNamed
  <2>3. /\ \A o \in Requests : pc'[o] = "idle" => key[o] = NoKey
        /\ \A o \in Requests : pc'[o] \in {"idle", "sent"} => verdict'[o] = "none"
        /\ \A o \in Requests : pc'[o] # "done" => ~counted'[o]
    BY <1>4, <2>1 DEF IInv, CommandsAreNamed
  <2>4. QED
    BY <1>1, <2>2, <2>3 DEF CommandsAreNamed, Ends
<1>6. JudgedWereCounted'
  BY <1>4 DEF IInv, JudgedWereCounted, CommandsAreNamed
<1>7. TallyCounts'
  BY ScriptCounts
<1>8. QED
  BY <1>1, <1>3, <1>5, <1>6, <1>7 DEF IInv

-----------------------------------------------------------------------------
LEMMA InitHolds ==
  ASSUME Init
  PROVE  IInv
<1>1. /\ now = 0 /\ skew \in [Replicas -> Skews]
      /\ \A k \in Keys : store[k] = Gone /\ tally[k] = 0
      /\ \A r \in Requests :
        pc[r] = "idle" /\ key[r] = NoKey /\ verdict[r] = "none" /\ ~counted[r]
  BY DEF Init, WindowInit
<1>2. TypeOK
  <2>1. now \in 0..MaxTime /\ 0 \in 0..MaxTime
    BY <1>1, WindowAssumption
  <2>2. Gone \in Entry
    BY DEF Gone, Entry
  <2>3. WindowTypeOK
    BY <2>1, <2>2 DEF WindowTypeOK, Init, WindowInit
  <2>4. QED
    BY <2>1, <2>3 DEF TypeOK, Init
<1>3. KeysLive
  BY <1>1 DEF KeysLive, Gone
<1>4. CommandsAreNamed /\ JudgedWereCounted
  BY <1>1 DEF CommandsAreNamed, JudgedWereCounted
<1>5. \A k \in Keys : Counted(k) = {}
  BY <1>1 DEF Counted
<1>6. TallyCounts
  BY <1>1, <1>5, FS_EmptySet DEF TallyCounts
<1>7. QED
  BY <1>2, <1>3, <1>4, <1>6 DEF IInv

\* A step in which nothing is counted.
LEMMA QuietKeepsTallies ==
  ASSUME IInv, UNCHANGED <<tally, counted>>,
         \A r \in Requests : counted[r] => key'[r] = key[r]
  PROVE  TallyCounts'
<1>1. \A k \in Keys : Counted(k)' = Counted(k)
  BY DEF Counted
<1>2. QED
  BY <1>1 DEF IInv, TallyCounts

LEMMA AllowKeeps ==
  ASSUME IInv, NEW r \in Requests, Allow(r)
  PROVE  IInv'
<1>1. UNCHANGED <<now, skew, store, tally, app, at, used, counted>> /\ pc[r] = "idle"
  BY DEF Allow, windowVars
<1>2. TypeOK /\ KeysLive /\ CommandsAreNamed
  BY DEF IInv
<1>3. KeysLive'
  BY <1>1, TimeKeepsKeys
<1>4. now \in 0..MaxTime /\ now \in Nat /\ at[r] \in Replicas /\ skew[at[r]] \in Skews
      /\ app[r] \in Apps /\ ~counted[r] /\ verdict[r] = "none"
  BY <1>1, <1>2, WindowAssumption DEF TypeOK, WindowTypeOK, CommandsAreNamed
<1> skew[at[r]] \in Nat
  BY <1>4, WindowAssumption
<1>5. CASE ~Metered(app[r])
  <2>1. /\ UNCHANGED <<key, sentAt>>
        /\ pc' = [pc EXCEPT ![r] = "done"]
        /\ verdict' = [verdict EXCEPT ![r] = "allowed"]
    BY <1>5 DEF Allow
  <2>2. TypeOK'
    BY <1>1, <1>2, <2>1 DEF TypeOK, WindowTypeOK
  <2>3. CommandsAreNamed'
    BY <1>1, <1>2, <2>1 DEF TypeOK, CommandsAreNamed
  <2>4. TallyCounts'
    BY <1>1, <2>1, QuietKeepsTallies
  <2>5. JudgedWereCounted'
    BY <1>1, <1>2, <2>1 DEF IInv, JudgedWereCounted, TypeOK, CommandsAreNamed
  <2>6. QED
    BY <1>3, <2>2, <2>3, <2>4, <2>5 DEF IInv
<1>6. CASE Metered(app[r])
  <2> DEFINE t == now + skew[at[r]]
             k == <<app[r], WindowOf(t)>>
  <2>1. /\ UNCHANGED verdict
        /\ pc' = [pc EXCEPT ![r] = "sent"]
        /\ key' = [key EXCEPT ![r] = k]
        /\ sentAt' = [sentAt EXCEPT ![r] = now]
    BY <1>6 DEF Allow, clock
  <2>2. k \in Keys /\ k[1] = app[r] /\ k[2] = WindowOf(t)
    BY <1>4, KeyNamed
  <2>3. t \in Nat /\ t < Ends(k[2]) /\ Ends(k[2]) <= t + Window
    <3>1. t \in Nat
      BY <1>4
    <3> HIDE DEF t
    <3>2. QED
      BY <2>2, <3>1, WindowBounds
  <2> HIDE DEF k
  <2>4. TypeOK'
    BY <1>1, <1>2, <1>4, <2>1, <2>2 DEF TypeOK, WindowTypeOK
  <2>5. /\ pc'[r] = "sent" /\ key'[r] = k /\ sentAt'[r] = now
        /\ \A o \in Requests \ {r} :
             pc'[o] = pc[o] /\ key'[o] = key[o] /\ sentAt'[o] = sentAt[o]
    BY <1>2, <2>1 DEF TypeOK
  <2>6. \A o \in Requests :
          pc'[o] \in {"sent", "abandoned"} =>
            /\ key'[o] \in Keys /\ key'[o][1] = app[o]
            /\ sentAt'[o] <= now
            /\ sentAt'[o] + skew[at[o]] < Ends(key'[o][2])
            /\ Ends(key'[o][2]) <= sentAt'[o] + skew[at[o]] + Window
    <3>1. TAKE o \in Requests
    <3>2. CASE o = r
      BY <1>4, <2>2, <2>3, <2>5, <3>2
    <3>3. CASE o # r
      BY <1>2, <2>5, <3>3 DEF CommandsAreNamed
    <3>4. QED
      BY <3>2, <3>3
  <2>7. CommandsAreNamed'
    BY <1>1, <1>2, <1>4, <2>1, <2>5, <2>6 DEF CommandsAreNamed, Ends
  <2>8. TallyCounts'
    BY <1>1, <1>4, <2>5, QuietKeepsTallies
  <2>9. JudgedWereCounted'
    BY <1>1, <1>4, <2>1, <2>5 DEF IInv, JudgedWereCounted
  <2>10. QED
    BY <1>3, <2>4, <2>7, <2>8, <2>9 DEF IInv
<1>7. QED
  BY <1>5, <1>6

LEMMA FailsKeeps ==
  ASSUME IInv, NEW r \in Requests, Fails(r)
  PROVE  IInv'
<1>1. /\ pc[r] = "sent" /\ UNCHANGED <<app, at, key, sentAt, used>>
      /\ verdict' = [verdict EXCEPT ![r] = "open"]
  BY DEF Fails
<1>2. CASE RunScript(r) /\ pc' = [pc EXCEPT ![r] = "done"]
  <2>1. used' = [used EXCEPT ![r] = used[r]] /\ used[r] \in Nat
    BY <1>1 DEF IInv, TypeOK
  <2>2. QED
    BY <1>1, <1>2, <2>1, ScriptStep
<1>3. CASE pc' = [pc EXCEPT ![r] = "abandoned"] /\ UNCHANGED <<windowVars, counted>>
  <2>1. UNCHANGED <<now, skew, store, tally, counted>>
    BY <1>3 DEF windowVars
  <2>2. TypeOK'
    BY <1>1, <1>3, <2>1 DEF IInv, TypeOK, WindowTypeOK
  <2>3. KeysLive'
    BY <2>1, TimeKeepsKeys
  <2>4. TallyCounts'
    BY <1>1, <2>1, QuietKeepsTallies
  <2>5. CommandsAreNamed'
    BY <1>1, <1>3, <2>1 DEF IInv, TypeOK, CommandsAreNamed
  <2>6. JudgedWereCounted'
    BY <1>1, <2>1 DEF IInv, TypeOK, JudgedWereCounted
  <2>7. QED
    BY <2>2, <2>3, <2>4, <2>5, <2>6 DEF IInv
<1>4. QED
  BY <1>2, <1>3 DEF Fails

LEMMA ReplyJudges ==
  ASSUME IInv, NEW r \in Requests, Replied(r)
  PROVE  /\ key[r] \in Keys /\ Value(key[r]) + 1 \in Nat
         /\ Verdict(app[r], Value(key[r]) + 1) \in {"allowed", "refused"}
BY StoreTyped DEF Replied, IInv, CommandsAreNamed, Verdict

LEMMA StepKeeps ==
  ASSUME IInv, [Next]_vars
  PROVE  IInv'
<1>1. CASE Tick /\ UNCHANGED callVars
  <2>1. /\ now < MaxTime /\ now' = now + 1 /\ UNCHANGED <<skew, store, tally>>
        /\ UNCHANGED callVars
    BY <1>1 DEF Tick
  <2>2. now \in 0..MaxTime /\ now \in Nat /\ now' \in 0..MaxTime
    BY <2>1, WindowAssumption DEF IInv, TypeOK, WindowTypeOK
  <2>3. TypeOK'
    BY <2>1, <2>2 DEF IInv, TypeOK, WindowTypeOK, callVars
  <2>4. KeysLive'
    BY <2>1, TimeKeepsKeys
  <2>5. TallyCounts'
    BY <2>1, QuietKeepsTallies DEF callVars
  <2>6. \A o \in Requests : sentAt[o] \in Nat
    BY WindowAssumption DEF IInv, TypeOK
  <2>7. \A o \in Requests : sentAt[o] <= now => sentAt[o] <= now'
    BY <2>1, <2>2, <2>6
  <2>8. CommandsAreNamed'
    BY <2>1, <2>7 DEF IInv, CommandsAreNamed, callVars, Ends
  <2>9. JudgedWereCounted'
    BY <2>1 DEF IInv, JudgedWereCounted, callVars, Keys, Windows, WindowOf
  <2>10. QED
    BY <2>3, <2>4, <2>5, <2>8, <2>9 DEF IInv
<1>2. CASE \E r \in Requests : Allow(r) \/ Fails(r)
  BY <1>2, AllowKeeps, FailsKeeps
<1>3. ASSUME NEW r \in Requests, Replied(r)
      PROVE  IInv'
  BY <1>3, ReplyJudges, ScriptStep DEF Replied
<1>4. ASSUME NEW r \in Requests, Straggles(r)
      PROVE  IInv'
  <2>1. /\ verdict' = [verdict EXCEPT ![r] = verdict[r]]
        /\ used' = [used EXCEPT ![r] = used[r]]
        /\ verdict[r] \in {"none", "allowed", "refused", "open"} /\ used[r] \in Nat
    BY <1>4 DEF Straggles, IInv, TypeOK
  <2>2. QED
    BY <1>4, <2>1, ScriptStep DEF Straggles
<1>5. CASE UNCHANGED vars
  <2>1. UNCHANGED <<now, skew, store, tally, app, at, pc, key, sentAt, verdict, used, counted>>
    BY <1>5 DEF vars, windowVars, callVars
  <2>2. KeysLive' /\ TallyCounts'
    BY <2>1, TimeKeepsKeys, QuietKeepsTallies
  <2>3. TypeOK' /\ CommandsAreNamed' /\ JudgedWereCounted'
    BY <2>1 DEF IInv, TypeOK, WindowTypeOK, CommandsAreNamed, JudgedWereCounted
  <2>4. QED
    BY <2>2, <2>3 DEF IInv
<1>6. QED
  BY <1>1, <1>2, <1>3, <1>4, <1>5 DEF Next

\* The invariant the theorems below rest on: every key lives out its window,
\* and its history is the number of requests counted in it.
THEOREM RateInvariant == Spec => []IInv
<1>1. Init => IInv
  BY InitHolds
<1>2. IInv /\ [Next]_vars => IInv'
  BY StepKeeps
<1>3. QED
  BY <1>1, <1>2, PTL DEF Spec

\* Every variable keeps its type, for any window, clocks, limits and requests.
THEOREM RateTypeCorrect == Spec => []TypeOK
<1>1. IInv => TypeOK
  BY DEF IInv
<1>2. QED
  BY <1>1, RateInvariant, PTL

-----------------------------------------------------------------------------
\* What was counted stays counted, in the same key.
LEMMA CountsStay ==
  ASSUME IInv, [Next]_vars
  PROVE  /\ UNCHANGED app
         /\ \A r \in Requests : counted[r] => counted'[r] /\ key'[r] = key[r]
<1>1. CASE Tick /\ UNCHANGED callVars
  BY <1>1 DEF callVars
<1>2. ASSUME NEW r \in Requests, Allow(r)
      PROVE  /\ UNCHANGED <<app, counted>>
             /\ \A o \in Requests : counted[o] => key'[o] = key[o]
  <2>1. ~counted[r]
    BY <1>2 DEF Allow, IInv, CommandsAreNamed
  <2>2. QED
    BY <1>2, <2>1 DEF Allow, IInv, TypeOK
<1>3. ASSUME NEW r \in Requests, Replied(r) \/ Fails(r) \/ Straggles(r)
      PROVE  /\ UNCHANGED <<app, key>>
             /\ counted' = counted \/ counted' = [counted EXCEPT ![r] = TRUE]
  BY <1>3 DEF Replied, Fails, Straggles, RunScript
<1>4. CASE UNCHANGED vars
  BY <1>4 DEF vars, callVars
<1>5. QED
  BY <1>1, <1>2, <1>3, <1>4 DEF Next, IInv, TypeOK

\* A verdict is given by the step that judges, and stays.
LEMMA VerdictsStay ==
  ASSUME IInv, [Next]_vars, NEW r \in Requests,
         verdict'[r] = "refused" \/ (verdict'[r] = "allowed" /\ key'[r] # NoKey),
         ~Replied(r)
  PROVE  verdict[r] = verdict'[r] /\ key[r] = key'[r] /\ used[r] = used'[r]
<1>1. CASE Tick /\ UNCHANGED callVars
  BY <1>1 DEF callVars
<1>2. ASSUME NEW o \in Requests, Allow(o)
      PROVE  verdict[r] = verdict'[r] /\ key[r] = key'[r] /\ used[r] = used'[r]
  <2>1. pc[o] = "idle" /\ verdict[o] = "none" /\ key[o] = NoKey /\ UNCHANGED used
    BY <1>2 DEF Allow, IInv, CommandsAreNamed
  <2>2. CASE o = r
    BY <1>2, <2>1, <2>2 DEF Allow, IInv, TypeOK
  <2>3. CASE o # r
    BY <1>2, <2>1, <2>3 DEF Allow, IInv, TypeOK
  <2>4. QED
    BY <2>2, <2>3
<1>3. ASSUME NEW o \in Requests, Replied(o) \/ Fails(o) \/ Straggles(o)
      PROVE  verdict[r] = verdict'[r] /\ key[r] = key'[r] /\ used[r] = used'[r]
  BY <1>3 DEF Replied, Fails, Straggles, IInv, TypeOK
<1>4. CASE UNCHANGED vars
  BY <1>4 DEF vars, callVars
<1>5. QED
  BY <1>1, <1>2, <1>3, <1>4 DEF Next

\* The requests of a set that are counted in a key bound nothing but its history.
LEMMA CountedBound ==
  ASSUME IInv, NEW k \in Keys, NEW S, S \subseteq Counted(k)
  PROVE  IsFiniteSet(S) /\ Cardinality(S) \in Nat /\ Cardinality(S) <= tally[k]
<1>1. IsFiniteSet(Counted(k)) /\ tally[k] = Cardinality(Counted(k))
  BY DEF IInv, TallyCounts
<1>2. QED
  BY <1>1, FS_Subset, FS_CardinalityType

-----------------------------------------------------------------------------
\* As long as no clock is ahead of another by more than the grace, a counter
\* forgets nothing while any replica's clock is in its window
\* (limiter.go:26-37, the lifetime of a key).
THEOREM RateCountersOutlive ==
  ASSUME Fits(0)
  PROVE  Spec => []CountersOutliveTheirWindow
<1>1. ASSUME IInv
      PROVE  CountersOutliveTheirWindow
  <2>1. SUFFICES ASSUME NEW k \in Keys, NEW p \in Replicas, WindowOf(clock(p)) = k[2]
                 PROVE  Value(k) = tally[k]
    BY DEF CountersOutliveTheirWindow
  <2>2. WindowOf(clock(p)) <= k[2]
    BY <2>1, EndsTyped
  <2>3. QED
    BY <1>1, <2>2, ValueIsWhole DEF IInv
<1>2. QED
  BY <1>1, RateInvariant, PTL

\* The requests metered and admitted in a key.
Admitted(k) == {r \in Requests : verdict[r] = "allowed" /\ key[r] = k}

\* A request is admitted in a key by a reply that read what was left of its
\* quota, one at a time.
LEMMA AdmittedStep ==
  ASSUME IInv, [Next]_vars, NEW k \in Keys
  PROVE  /\ Cardinality(Admitted(k)) \in Nat /\ Cardinality(Admitted(k)') \in Nat
         /\ Cardinality(Admitted(k)) <= tally[k] /\ Cardinality(Admitted(k)') <= tally'[k]
         /\ \/ Cardinality(Admitted(k)') <= Cardinality(Admitted(k))
            \/ /\ Cardinality(Admitted(k)') <= Cardinality(Admitted(k)) + 1
               /\ \E r \in Requests : Replied(r) /\ key[r] = k
               /\ Value(k) + 1 <= Limit[k[1]]
<1> DEFINE A == Admitted(k)
           B == Admitted(k)'
<1>1. IInv' /\ k # NoKey
  BY StepKeeps DEF Keys, NoKey
<1>2. A \subseteq Counted(k) /\ B \subseteq Counted(k)'
  BY <1>1 DEF IInv, JudgedWereCounted, Admitted, Counted
<1>3. /\ IsFiniteSet(A) /\ Cardinality(A) \in Nat /\ Cardinality(A) <= tally[k]
  BY <1>2, CountedBound
<1>4. /\ IsFiniteSet(B) /\ Cardinality(B) \in Nat /\ Cardinality(B) <= tally'[k]
  <2>1. IsFiniteSet(Counted(k)') /\ tally'[k] = Cardinality(Counted(k)')
    BY <1>1 DEF IInv, TallyCounts
  <2>2. QED
    BY <1>2, <2>1, FS_Subset, FS_CardinalityType
<1>5. CASE \E r \in Requests : Replied(r) /\ verdict'[r] = "allowed" /\ key[r] = k
  <2>1. PICK r \in Requests : Replied(r) /\ verdict'[r] = "allowed" /\ key[r] = k
    BY <1>5
  <2>2. B \subseteq A \cup {r}
    BY <2>1 DEF Admitted, Replied, IInv, TypeOK
  <2>3. Value(k) + 1 <= Limit[k[1]]
    <3>1. verdict'[r] = Verdict(app[r], Value(k) + 1) /\ app[r] = k[1]
      BY <2>1 DEF Replied, IInv, TypeOK, CommandsAreNamed
    <3>2. QED
      BY <2>1, <3>1 DEF Verdict
  <2> HIDE DEF A, B
  <2> DEFINE C == A \cup {r}
  <2>4. IsFiniteSet(C) /\ (Cardinality(C) = Cardinality(A) \/ Cardinality(C) = Cardinality(A) + 1)
    <3>1. IsFiniteSet(C) /\ (r \notin A => Cardinality(C) = Cardinality(A) + 1)
      BY <1>3, FS_AddElement
    <3>2. r \in A => C = A
      OBVIOUS
    <3> HIDE DEF C
    <3>3. QED
      BY <3>1, <3>2
  <2>5. Cardinality(B) <= Cardinality(C) /\ Cardinality(C) \in Nat
    BY <2>2, <2>4, FS_Subset, FS_CardinalityType
  <2> HIDE DEF C
  <2>6. Cardinality(B) <= Cardinality(A) + 1
    BY <1>3, <1>4, <2>4, <2>5
  <2>7. QED
    BY <1>3, <1>4, <2>1, <2>3, <2>6 DEF A, B
<1>6. CASE ~\E r \in Requests : Replied(r) /\ verdict'[r] = "allowed" /\ key[r] = k
  <2>1. \A r \in Requests : Replied(r) => key'[r] = key[r]
    BY DEF Replied
  <2>2. \A r \in Requests :
          verdict'[r] = "allowed" /\ key'[r] = k => verdict[r] = "allowed" /\ key[r] = k
    BY <1>1, <1>6, <2>1, VerdictsStay
  <2>3. B \subseteq A
    BY <2>2 DEF Admitted
  <2> HIDE DEF A, B
  <2>4. Cardinality(B) <= Cardinality(A)
    BY <1>3, <2>3, FS_Subset
  <2>5. QED
    BY <1>3, <1>4, <2>4 DEF A, B
<1>7. QED
  BY <1>5, <1>6

LEMMA AdmittedNamed ==
  ASSUME NEW a \in Apps, NEW w \in Windows
  PROVE  <<a, w>> \in Keys /\ Judged(a, w, "allowed") = Admitted(<<a, w>>)
BY DEF Keys, Judged, Admitted

LEMMA AdmittedInit ==
  ASSUME Init, NEW k
  PROVE  Cardinality(Admitted(k)) = 0
<1>1. Admitted(k) = {}
  BY DEF Admitted, Init
<1>2. QED
  BY <1>1, FS_EmptySet

\* Clocks only go on.
LEMMA ClocksGoOn ==
  ASSUME IInv, [Next]_vars, NEW p \in Replicas, NEW w \in Nat,
         (WindowOf(clock(p)) <= w)'
  PROVE  WindowOf(clock(p)) <= w
<1>1. (now' = now \/ now' = now + 1) /\ skew' = skew
  <2>1. \A r \in Requests :
          Allow(r) \/ Replied(r) \/ Fails(r) \/ Straggles(r) => UNCHANGED <<now, skew>>
    BY DEF Allow, Replied, Fails, Straggles, RunScript, Bump, windowVars
  <2>2. QED
    BY <2>1 DEF Next, Tick, vars, windowVars
<1> DEFINE t == skew[p]
<1>2. t \in Skews /\ now \in 0..MaxTime
  BY DEF IInv, TypeOK, WindowTypeOK
<1>3. clock(p) = now + t /\ clock(p)' = now' + t
  BY <1>1 DEF clock
<1> HIDE DEF t
<1>4. now \in Nat /\ t \in Nat
  BY <1>2, WindowAssumption
<1>5. now + t \in Nat /\ (now' + t = now + t \/ now' + t = (now + t) + 1)
  BY <1>1, <1>4
<1>6. \A u \in Nat : WindowOf(u) <= WindowOf(u + 1) /\ WindowOf(u) \in Nat /\ WindowOf(u + 1) \in Nat
  BY WindowAssumption DEF WindowOf
<1>7. (WindowOf(clock(p)))' = WindowOf(now' + t)
  BY <1>3 DEF WindowOf
<1>8. WindowOf(now' + t) <= w
  BY <1>7
<1>9. WindowOf(now + t) <= w
  BY <1>5, <1>6, <1>8
<1>10. QED
  BY <1>3, <1>9

\* As long as no clock is ahead of another by more than the grace, one budget
\* holds across the deployment while its window is open, however late commands
\* run and whatever replies are lost (Allow).
THEOREM RateQuotaWhileOpen ==
  ASSUME Fits(0)
  PROVE  Spec => []QuotaHoldsWhileOpen
<1>1. Init => QuotaHoldsWhileOpen
  <2>1. SUFFICES ASSUME Init, NEW a \in Apps, NEW w \in Windows
                 PROVE  Cardinality(Judged(a, w, "allowed")) <= Limit[a]
    BY DEF QuotaHoldsWhileOpen
  <2>2. Cardinality(Judged(a, w, "allowed")) = 0
    BY <2>1, AdmittedInit, AdmittedNamed
  <2>3. QED
    BY <2>2, RateAssumption
<1>2. IInv /\ QuotaHoldsWhileOpen /\ [Next]_vars => QuotaHoldsWhileOpen'
  <2>1. SUFFICES ASSUME IInv, QuotaHoldsWhileOpen, [Next]_vars,
                        NEW a \in Apps, NEW w \in Windows, Metered(a),
                        NEW p \in Replicas, (WindowOf(clock(p)) <= w)'
                 PROVE  Cardinality(Judged(a, w, "allowed")') <= Limit[a]
    BY DEF QuotaHoldsWhileOpen, Metered, Windows, WindowOf
  <2> DEFINE k == <<a, w>>
  <2>2. k \in Keys /\ k[1] = a /\ k[2] = w /\ w \in Nat /\ Limit[a] \in Nat
    BY EndsTyped, RateAssumption DEF Keys
  <2>3. WindowOf(clock(p)) <= w
    BY <2>1, <2>2, ClocksGoOn
  <2>4. Judged(a, w, "allowed") = Admitted(k) /\ Judged(a, w, "allowed")' = Admitted(k)'
    BY AdmittedNamed DEF Judged, Admitted
  <2>5. Cardinality(Admitted(k)) <= Limit[a]
    BY <2>1, <2>3, <2>4 DEF QuotaHoldsWhileOpen
  <2> HIDE DEF k
  <2>6. /\ Cardinality(Admitted(k)) \in Nat /\ Cardinality(Admitted(k)') \in Nat
        /\ Cardinality(Admitted(k)) <= tally[k]
        /\ \/ Cardinality(Admitted(k)') <= Cardinality(Admitted(k))
           \/ /\ Cardinality(Admitted(k)') <= Cardinality(Admitted(k)) + 1
              /\ Value(k) + 1 <= Limit[a]
    BY <2>1, <2>2, AdmittedStep
  <2>7. Value(k) = tally[k] /\ Value(k) \in Nat
    BY <2>1, <2>2, <2>3, ValueIsWhole, StoreTyped DEF IInv
  <2>8. Cardinality(Admitted(k)') <= Limit[a]
    BY <2>2, <2>5, <2>6, <2>7
  <2>9. QED
    BY <2>4, <2>8
<1>3. QED
  BY <1>1, <1>2, RateInvariant, PTL DEF Spec

-----------------------------------------------------------------------------
\* What late commands can add to a window.
Smaller(m, n)   == IF m <= n THEN m ELSE n
Lifetimes(j)    == j * TTL
Quotas(k, j)    == j * Limit[k[1]]

\* In the j-th lifetime of a key, the earlier ones lie between it and the end of
\* its window, and each of them admitted no more than a quota.
Life(k, j) ==
  /\ \E s \in Skews : store[k].until + s + Window >= Ends(k[2]) + Lifetimes(j)
  /\ Cardinality(Admitted(k)) + Limit[k[1]] <= Quotas(k, j) + Smaller(store[k].n, Limit[k[1]])

Begun(k) ==
  tally[k] > 0 =>
    /\ store[k].n >= 1
    /\ store[k].until <= now + TTL
    /\ \E j \in Nat : j >= 1 /\ Life(k, j)

KeysBegun == \A k \in Keys : Begun(k)

LEMMA LifetimesAdd ==
  ASSUME NEW i \in Nat, NEW j \in Nat, NEW k \in Keys
  PROVE  /\ Lifetimes(i) \in Nat /\ Quotas(k, i) \in Nat /\ TTL \in Nat /\ Limit[k[1]] \in Nat
         /\ Lifetimes(i + 1) = Lifetimes(i) + TTL
         /\ Quotas(k, i + 1) = Quotas(k, i) + Limit[k[1]]
         /\ Lifetimes(1) = TTL /\ Quotas(k, 1) = Limit[k[1]]
         /\ i <= j => Lifetimes(i) <= Lifetimes(j) /\ Quotas(k, i) <= Quotas(k, j)
<1>1. TTL \in Nat /\ Limit[k[1]] \in Nat
  BY WindowAssumption, RateAssumption DEF TTL, Keys
<1> DEFINE m == TTL
           q == Limit[k[1]]
<1> HIDE DEF m, q
<1>2. /\ i * m \in Nat /\ i * q \in Nat
      /\ (i + 1) * m = i * m + m /\ (i + 1) * q = i * q + q
      /\ 1 * m = m /\ 1 * q = q
      /\ i <= j => i * m <= j * m /\ i * q <= j * q
  <2>1. m \in Nat /\ q \in Nat
    BY <1>1 DEF m, q
  <2>2. i <= i /\ 1 * m = m /\ 1 * q = q
    BY <2>1
  <2>3. QED
    BY <2>1, <2>2, Multiples
<1>3. QED
  BY <1>1, <1>2 DEF Lifetimes, Quotas, m, q

\* A command is for a metered app.
CommandsAreMetered ==
  \A r \in Requests : pc[r] \in {"sent", "abandoned"} => Metered(app[r])

LEMMA MeteredStep ==
  ASSUME IInv, CommandsAreMetered, [Next]_vars
  PROVE  CommandsAreMetered'
<1>1. CASE (Tick /\ UNCHANGED callVars) \/ UNCHANGED vars
  BY <1>1 DEF CommandsAreMetered, Metered, callVars, vars
<1>2. ASSUME NEW r \in Requests, Allow(r) \/ Replied(r) \/ Fails(r) \/ Straggles(r)
      PROVE  CommandsAreMetered'
  <2>1. UNCHANGED app /\ \A o \in Requests \ {r} : pc'[o] = pc[o]
    BY <1>2 DEF Allow, Replied, Fails, Straggles, IInv, TypeOK
  <2>2. pc'[r] \in {"sent", "abandoned"} => Metered(app[r])
    BY <1>2 DEF Allow, Replied, Fails, Straggles, IInv, TypeOK, CommandsAreMetered
  <2>3. QED
    BY <2>1, <2>2 DEF CommandsAreMetered, Metered
<1>3. QED
  BY <1>1, <1>2 DEF Next

\* A key changes when the script runs on it, and then by one.
LEMMA KeyStep ==
  ASSUME IInv, CommandsAreMetered, [Next]_vars, NEW k \in Keys
  PROVE  \/ /\ UNCHANGED <<store[k], tally[k]>> /\ now' \in {now, now + 1}
            /\ Cardinality(Admitted(k)') <= Cardinality(Admitted(k))
         \/ /\ now' = now /\ tally'[k] = tally[k] + 1 /\ Metered(k[1])
            /\ \E s \in Skews : Ends(k[2]) <= now + s + Window
            /\ store'[k] = [n     |-> Value(k) + 1,
                            until |-> IF Value(k) = 0 THEN now + TTL ELSE store[k].until]
<1>1. CASE (Tick /\ UNCHANGED callVars) \/ UNCHANGED vars
  <2>1. UNCHANGED <<store, tally, verdict, key>> /\ now' \in {now, now + 1}
    BY <1>1 DEF Tick, callVars, vars, windowVars
  <2>2. Admitted(k)' = Admitted(k)
    BY <2>1 DEF Admitted
  <2>3. Cardinality(Admitted(k)) \in Nat
    BY AdmittedStep
  <2>4. QED
    BY <2>1, <2>2, <2>3
<1>2. ASSUME NEW r \in Requests, Allow(r) \/ Replied(r) \/ Fails(r) \/ Straggles(r),
             ~(RunScript(r) /\ pc[r] \in {"sent", "abandoned"} /\ key[r] = k)
      PROVE  /\ UNCHANGED <<store[k], tally[k]>> /\ now' \in {now, now + 1}
             /\ Cardinality(Admitted(k)') <= Cardinality(Admitted(k))
  <2>1. UNCHANGED <<store[k], tally[k], now>>
    <3>1. CASE RunScript(r) /\ pc[r] \in {"sent", "abandoned"}
      <4>1. key[r] \in Keys /\ key[r] # k
        BY <1>2, <3>1 DEF IInv, CommandsAreNamed
      <4>2. QED
        BY <3>1, <4>1 DEF RunScript, Bump, IInv, TypeOK, WindowTypeOK
    <3>2. CASE UNCHANGED windowVars
      BY <3>2 DEF windowVars
    <3>3. QED
      BY <1>2, <3>1, <3>2 DEF Allow, Replied, Fails, Straggles
  <2>2. Admitted(k)' \subseteq Admitted(k)
    <3>1. CASE Allow(r)
      <4>1. UNCHANGED verdict \/ (UNCHANGED key /\ verdict' = [verdict EXCEPT ![r] = "allowed"])
        BY <3>1 DEF Allow
      <4>2. key[r] = NoKey /\ verdict[r] = "none" /\ k # NoKey
        BY <3>1 DEF Allow, IInv, CommandsAreNamed, Keys, NoKey
      <4>3. \A o \in Requests \ {r} : verdict'[o] = verdict[o] /\ key'[o] = key[o]
        BY <3>1 DEF Allow, IInv, TypeOK
      <4>4. ~(verdict'[r] = "allowed" /\ key'[r] = k)
        BY <4>1, <4>2
      <4>5. QED
        BY <4>3, <4>4 DEF Admitted
    <3>2. CASE Replied(r) \/ Fails(r) \/ Straggles(r)
      <4>1. UNCHANGED key /\ \A o \in Requests \ {r} : verdict'[o] = verdict[o]
        BY <3>2 DEF Replied, Fails, Straggles, IInv, TypeOK
      <4>2. ~(verdict'[r] = "allowed" /\ key[r] = k /\ verdict[r] # "allowed")
        BY <1>2, <3>2 DEF Replied, Fails, Straggles, IInv, TypeOK
      <4>3. QED
        BY <4>1, <4>2 DEF Admitted
    <3>3. QED
      BY <1>2, <3>1, <3>2
  <2>3. IsFiniteSet(Admitted(k))
    <3>1. k # NoKey
      BY DEF Keys, NoKey
    <3>2. Admitted(k) \subseteq Counted(k)
      BY <3>1 DEF IInv, JudgedWereCounted, Admitted, Counted
    <3>3. QED
      BY <3>2, CountedBound
  <2>4. QED
    BY <2>1, <2>2, <2>3, FS_Subset
<1>3. ASSUME NEW r \in Requests, RunScript(r), pc[r] \in {"sent", "abandoned"}, key[r] = k
      PROVE  /\ now' = now /\ tally'[k] = tally[k] + 1 /\ Metered(k[1])
             /\ \E s \in Skews : Ends(k[2]) <= now + s + Window
             /\ store'[k] = [n     |-> Value(k) + 1,
                             until |-> IF Value(k) = 0 THEN now + TTL ELSE store[k].until]
  <2>1. /\ now' = now /\ tally'[k] = tally[k] + 1
        /\ store'[k] = [n     |-> Value(k) + 1,
                        until |-> IF Value(k) + 1 = 1 THEN now + TTL ELSE store[k].until]
    BY <1>3 DEF RunScript, Bump, IInv, TypeOK, WindowTypeOK
  <2>2. Value(k) \in Nat
    BY StoreTyped DEF IInv
  <2>3. Metered(k[1])
    BY <1>3 DEF CommandsAreMetered, IInv, CommandsAreNamed
  <2> DEFINE z == skew[at[r]]
  <2>4. sentAt[r] <= now /\ Ends(k[2]) <= sentAt[r] + z + Window
    BY <1>3 DEF IInv, CommandsAreNamed
  <2>5. z \in Skews /\ sentAt[r] \in 0..MaxTime /\ now \in Nat
    BY StoreTyped DEF IInv, TypeOK, WindowTypeOK
  <2> HIDE DEF z
  <2>6. z \in Nat /\ sentAt[r] \in Nat /\ Window \in Nat /\ Ends(k[2]) \in Nat
    BY <2>5, EndsTyped, WindowAssumption
  <2>7. Ends(k[2]) <= now + z + Window
    BY <2>4, <2>5, <2>6
  <2>8. Value(k) + 1 = 1 <=> Value(k) = 0
    BY <2>2
  <2>9. QED
    BY <2>1, <2>3, <2>5, <2>7, <2>8
<1>4. QED
  BY <1>1, <1>2, <1>3 DEF Next

\* Whatever the key did before, a lifetime that begins is the first or the next.
LEMMA BegunStep ==
  ASSUME IInv, CommandsAreMetered, [Next]_vars, NEW k \in Keys, Begun(k)
  PROVE  Begun(k)'
<1> DEFINE L == Limit[k[1]]
           A == Cardinality(Admitted(k))
           B == Cardinality(Admitted(k)')
           E == Ends(k[2])
           n == store[k].n
           u == store[k].until
           m == (store[k].n)'
           v == (store[k].until)'
           Far(t, j) == \E s \in Skews : t + s + Window >= E + Lifetimes(j)
           Few(c, i, j) == c + L <= Quotas(k, j) + Smaller(i, L)
<1>1. /\ now \in Nat /\ n \in Nat /\ u \in Nat /\ tally[k] \in Nat /\ Value(k) \in Nat
      /\ E \in Nat /\ L \in Nat /\ TTL \in Nat /\ Window \in Nat
      /\ \A s \in Skews : s \in Nat
  BY StoreTyped, EndsTyped, LifetimesAdd, WindowAssumption DEF IInv
<1>2. /\ A \in Nat /\ B \in Nat /\ A <= tally[k]
      /\ B <= A \/ (B <= A + 1 /\ Value(k) + 1 <= L)
  BY AdmittedStep
<1>3. Value(k) = IF now < u THEN n ELSE 0
  BY DEF Value
<1>4. tally[k] > 0 => n >= 1 /\ u <= now + TTL /\ \E j \in Nat : j >= 1 /\ Far(u, j) /\ Few(A, n, j)
  BY DEF Begun, Life
<1>5. SUFFICES ASSUME tally'[k] > 0
               PROVE  m >= 1 /\ v <= now' + TTL /\ \E j \in Nat : j >= 1 /\ Far(v, j) /\ Few(B, m, j)
  BY DEF Begun, Life, Ends, Lifetimes, TTL, Quotas, Smaller
<1>6. CASE UNCHANGED <<store[k], tally[k]>> /\ now' \in {now, now + 1} /\ B <= A
  <2>1. m = n /\ v = u /\ tally[k] > 0
    BY <1>5, <1>6
  <2>2. PICK j \in Nat : j >= 1 /\ Far(u, j) /\ Few(A, n, j)
    BY <1>4, <2>1
  <2> HIDE DEF L, A, B, E, n, u, m, v, Far
  <2>3. Smaller(n, L) \in Nat /\ Quotas(k, j) \in Nat
    BY <1>1, LifetimesAdd DEF Smaller
  <2>4. Few(B, n, j)
    BY <1>1, <1>2, <1>6, <2>2, <2>3
  <2>5. n >= 1 /\ u <= now' + TTL
    <3>1. n >= 1 /\ u <= now + TTL
      BY <1>4, <2>1
    <3>2. now' = now \/ now' = now + 1
      BY <1>6
    <3>3. QED
      BY <1>1, <3>1, <3>2
  <2>6. QED
    BY <2>1, <2>2, <2>4, <2>5
<1>7. CASE /\ now' = now /\ tally'[k] = tally[k] + 1 /\ Metered(k[1])
           /\ \E s \in Skews : E <= now + s + Window
           /\ store'[k] = [n     |-> Value(k) + 1,
                           until |-> IF Value(k) = 0 THEN now + TTL ELSE u]
  <2>1. m = Value(k) + 1 /\ v = (IF Value(k) = 0 THEN now + TTL ELSE u) /\ L > 0
    BY <1>7, <1>1 DEF Metered
  <2> HIDE DEF L, A, B, E, n, u, m, v
  <2>2. m >= 1 /\ v <= now' + TTL
    <3>1. now' = now /\ m >= 1
      BY <1>1, <1>7, <2>1
    <3>2. CASE Value(k) = 0
      BY <1>1, <2>1, <3>1, <3>2
    <3>3. CASE Value(k) # 0
      <4>1. Value(k) > 0 /\ Value(k) <= tally[k]
        BY <1>1, <3>3, ValueIsCounted DEF IInv
      <4>2. tally[k] > 0
        BY <1>1, <4>1
      <4>3. v = u /\ u <= now + TTL
        BY <1>4, <2>1, <3>3, <4>2
      <4>4. QED
        BY <3>1, <4>3
    <3>4. QED
      BY <3>2, <3>3
  <2>3. \E j \in Nat : j >= 1 /\ Far(v, j) /\ Few(B, m, j)
    <3>1. CASE tally[k] = 0
      <4>1. v = now + TTL /\ m = 1 /\ B <= 1
        <5>1. Value(k) = 0
          BY <1>1, <3>1, ValueIsCounted DEF IInv
        <5>2. QED
          BY <1>1, <1>2, <2>1, <3>1, <5>1
      <4>2. Lifetimes(1) = TTL /\ Quotas(k, 1) = L /\ 1 \in Nat
        BY LifetimesAdd DEF L
      <4>3. PICK s \in Skews : E <= now + s + Window
        BY <1>7
      <4>4. v + s + Window >= E + Lifetimes(1)
        BY <1>1, <4>1, <4>2, <4>3
      <4>5. Few(B, m, 1)
        BY <1>1, <1>2, <2>1, <4>1, <4>2 DEF Smaller
      <4> HIDE DEF Few
      <4>6. QED
        BY <4>2, <4>4, <4>5
    <3>2. CASE tally[k] > 0
      <4>1. PICK j \in Nat : j >= 1 /\ Far(u, j) /\ Few(A, n, j)
        BY <1>4, <3>2
      <4>2. /\ Quotas(k, j) \in Nat /\ Quotas(k, j + 1) = Quotas(k, j) + L
            /\ Lifetimes(j) \in Nat /\ Lifetimes(j + 1) = Lifetimes(j) + TTL
        BY LifetimesAdd DEF L
      <4>3. CASE Value(k) = 0
        <5>1. now >= u /\ v = now + TTL /\ m = 1
          BY <1>1, <1>3, <1>4, <2>1, <3>2, <4>3
        <5>2. PICK s \in Skews : u + s + Window >= E + Lifetimes(j)
          BY <4>1
        <5>3. v + s + Window >= E + Lifetimes(j + 1)
          BY <1>1, <4>2, <5>1, <5>2
        <5>4. Few(B, m, j + 1)
          BY <1>1, <1>2, <2>1, <4>1, <4>2, <5>1 DEF Smaller
        <5>5. j + 1 \in Nat /\ j + 1 >= 1
          BY <4>1
        <5> HIDE DEF Few
        <5>6. QED
          BY <5>3, <5>4, <5>5
      <4>4. CASE Value(k) # 0
        <5>1. Value(k) = n /\ v = u /\ m = n + 1
          BY <1>1, <1>3, <2>1, <4>4
        <5>2. Few(B, m, j)
          BY <1>1, <1>2, <4>1, <4>2, <5>1 DEF Smaller
        <5> HIDE DEF Few, Far
        <5>3. QED
          BY <4>1, <5>1, <5>2
      <4>5. QED
        BY <4>3, <4>4
    <3>3. QED
      BY <1>1, <3>1, <3>2
  <2>4. QED
    BY <2>2, <2>3
<1>8. QED
  BY <1>6, <1>7, KeyStep

\* A reply in time falls into a lifetime that the patience allows.
LEMMA ReplyIsInLife ==
  ASSUME WithinLives, IInv, NEW r \in Requests, Replied(r), NEW s \in Skews, NEW j \in Nat,
         store'[key[r]].until + s + Window >= Ends(key[r][2]) + Lifetimes(j),
         store'[key[r]].until <= now + TTL, store'[key[r]].until \in Nat
  PROVE  j <= Lives
<1> DEFINE k == key[r]
           z == skew[at[r]]
           u == store'[key[r]].until
           X == Lifetimes(j)
           Y == Lifetimes(Lives)
           W == Lifetimes(Lives + 1)
<1>1. /\ k \in Keys /\ now <= sentAt[r] + Patience /\ sentAt[r] + z < Ends(k[2])
      /\ z \in Skews /\ sentAt[r] \in 0..MaxTime /\ now \in 0..MaxTime
  BY DEF Replied, IInv, CommandsAreNamed, TypeOK, WindowTypeOK
<1>2. Patience + s <= (Lives - 1) * (Window + Grace) + Grace + z
  BY <1>1 DEF WithinLives
<1>3. Lives \in Nat /\ Lives + 1 \in Nat
  BY RateAssumption
<1>4. /\ X \in Nat /\ Y \in Nat /\ W = Y + TTL /\ TTL \in Nat
      /\ Lives + 1 <= j => W <= X
  BY <1>1, <1>3, LifetimesAdd
<1>5. Y = (Lives - 1) * (Window + Grace) + (Window + Grace) /\ TTL = Window + Grace
  <2>1. (Lives - 1) * (Window + Grace) + (Window + Grace) = Lives * (Window + Grace)
    <3>1. Lives \in Int /\ Window + Grace \in Int
      BY <1>3, WindowAssumption
    <3> DEFINE m == Window + Grace
    <3> HIDE DEF m
    <3>2. m \in Int => (Lives - 1) * m + m = Lives * m
      BY <3>1
    <3>3. QED
      BY <3>1, <3>2 DEF m
  <2>2. QED
    BY <2>1 DEF Lifetimes, TTL
<1> DEFINE P == (Lives - 1) * (Window + Grace)
<1>6. P \in Int
  <2>1. Lives - 1 \in Int /\ Window + Grace \in Int
    BY <1>3, WindowAssumption
  <2>2. QED
    BY <2>1
<1> HIDE DEF k, z, u, X, Y, W, P
<1>7. /\ z \in Nat /\ s \in Nat /\ sentAt[r] \in Nat /\ now \in Nat
      /\ Patience \in Nat /\ Window \in Nat /\ Grace \in Nat /\ Ends(k[2]) \in Nat
  BY <1>1, EndsTyped, WindowAssumption, RateAssumption
<1>8. u + s + Window >= Ends(k[2]) + X /\ u <= now + TTL /\ u \in Nat
  BY DEF u, X, k
<1>9. Patience + s <= P + Grace + z /\ Y = P + (Window + Grace) /\ TTL = Window + Grace
  BY <1>2, <1>5 DEF P, z, Y
<1>10. X < W
  BY <1>1, <1>4, <1>6, <1>7, <1>8, <1>9 DEF z
<1>11. QED
  BY <1>3, <1>4, <1>10

\* However late a reply in time is, a window admits no more than a quota for
\* each lifetime of its key that a call in time can fall into (Allow).
THEOREM RateLateAdmissionsBounded ==
  ASSUME WithinLives
  PROVE  Spec => []LateAdmissionsBounded
<1> DEFINE Bounded == \A k \in Keys : Metered(k[1]) => Cardinality(Admitted(k)) <= Lives * Limit[k[1]]
           AInv == CommandsAreMetered /\ KeysBegun /\ Bounded
<1>1. Init => AInv
  <2> SUFFICES ASSUME Init PROVE AInv
    OBVIOUS
  <2>1. CommandsAreMetered
    BY DEF Init, CommandsAreMetered
  <2>2. KeysBegun
    BY DEF Init, WindowInit, KeysBegun, Begun
  <2>3. ASSUME NEW k \in Keys
        PROVE  Cardinality(Admitted(k)) <= Lives * Limit[k[1]]
    <3>1. Cardinality(Admitted(k)) = 0
      BY AdmittedInit
    <3>2. Lives * Limit[k[1]] \in Nat
      BY LifetimesAdd, RateAssumption DEF Quotas
    <3>3. QED
      BY <3>1, <3>2
  <2>4. QED
    BY <2>1, <2>2, <2>3
<1>2. IInv /\ AInv /\ [Next]_vars => AInv'
  <2> SUFFICES ASSUME IInv, AInv, [Next]_vars PROVE AInv'
    OBVIOUS
  <2>1. CommandsAreMetered' /\ IInv'
    BY MeteredStep, StepKeeps
  <2>2. \A k \in Keys : Begun(k)'
    BY BegunStep DEF KeysBegun
  <2>3. KeysBegun'
    BY <2>2 DEF KeysBegun, Keys, Windows, WindowOf
  <2>4. ASSUME NEW k \in Keys, Metered(k[1])
        PROVE  Cardinality(Admitted(k)') <= Lives * Limit[k[1]]
    <3> DEFINE L == Limit[k[1]]
               B == Cardinality(Admitted(k)')
               M == Lives * Limit[k[1]]
    <3>1. /\ Cardinality(Admitted(k)) \in Nat /\ B \in Nat /\ B <= tally'[k]
          /\ \/ B <= Cardinality(Admitted(k))
             \/ \E r \in Requests : Replied(r) /\ key[r] = k
      BY AdmittedStep
    <3>2. Cardinality(Admitted(k)) <= M
      BY <2>4
    <3>3. Lives \in Nat /\ M \in Nat /\ L \in Nat
      BY LifetimesAdd, RateAssumption DEF Quotas
    <3>4. CASE B <= Cardinality(Admitted(k))
      <4> HIDE DEF B, M
      <4>1. QED
        BY <3>1, <3>2, <3>3, <3>4 DEF B, M
    <3>5. ASSUME NEW r \in Requests, Replied(r), key[r] = k
          PROVE  B <= M
      <4>1. tally'[k] > 0 /\ now' = now
        <5>1. tally'[k] = tally[k] + 1 /\ now' = now
          BY <3>5, ScriptKeepsKeys DEF Replied, RunScript
        <5>2. tally[k] \in Nat
          BY StoreTyped DEF IInv
        <5>3. QED
          BY <5>1, <5>2
      <4>2. PICK j \in Nat : j >= 1 /\ Life(k, j)'
        BY <2>2, <4>1 DEF Begun, Life, Ends, Lifetimes, TTL, Quotas
      <4>3. PICK s \in Skews : store'[k].until + s + Window >= Ends(k[2]) + Lifetimes(j)
        BY <4>2 DEF Life, Ends, Lifetimes, TTL
      <4>4. store'[k].until <= now + TTL
        BY <2>2, <4>1 DEF Begun, TTL
      <4>5. store'[k].until \in Nat /\ store'[k].n \in Nat
        BY <2>1 DEF IInv, TypeOK, WindowTypeOK, Entry
      <4>6. j <= Lives
        BY <3>5, <4>3, <4>4, <4>5, ReplyIsInLife
      <4>7. B + L <= Quotas(k, j) + Smaller(store'[k].n, L)
        BY <4>2 DEF Life, Quotas, Smaller
      <4>8. Quotas(k, j) \in Nat /\ Quotas(k, j) <= M
        BY <3>3, <4>6, LifetimesAdd DEF Quotas
      <4>9. Smaller(store'[k].n, L) \in Nat /\ Smaller(store'[k].n, L) <= L
        BY <3>3, <4>5 DEF Smaller
      <4> HIDE DEF B, M, L
      <4>10. QED
        BY <3>1, <3>3, <4>7, <4>8, <4>9
    <3>6. QED
      BY <3>1, <3>4, <3>5
  <2>5. Bounded'
    BY <2>4 DEF Metered, Keys, Windows, WindowOf
  <2>6. QED
    BY <2>1, <2>3, <2>5
<1>3. AInv => LateAdmissionsBounded
  <2> SUFFICES ASSUME AInv, NEW a \in Apps, NEW w \in Windows, Metered(a)
               PROVE  Cardinality(Judged(a, w, "allowed")) <= Lives * Limit[a]
    BY DEF LateAdmissionsBounded
  <2>1. <<a, w>> \in Keys /\ <<a, w>>[1] = a /\ Judged(a, w, "allowed") = Admitted(<<a, w>>)
    BY AdmittedNamed
  <2>2. QED
    BY <2>1
<1> HIDE DEF AInv
<1>4. QED
  BY <1>1, <1>2, <1>3, RateInvariant, PTL DEF Spec

-----------------------------------------------------------------------------
OthersCounted(r) == Counted(key[r]) \ {r}

EarnedBy(r) ==
  /\ Cardinality(OthersCounted(r)) >= Limit[app[r]]
  /\ used[r] <= Cardinality(OthersCounted(r)) + 1

Earned == \A r \in Requests : verdict[r] = "refused" => EarnedBy(r)

LEMMA EarnedMeans == Earned => RefusalsAreEarned
<1>1. \A r \in Requests :
        {q \in Requests \ {r} : counted[q] /\ key[q] = key[r]} = OthersCounted(r)
  BY DEF OthersCounted, Counted
<1>2. QED
  BY <1>1 DEF RefusalsAreEarned, Earned, EarnedBy

LEMMA EarnedStep ==
  ASSUME IInv, Earned, [Next]_vars, NEW r \in Requests, verdict'[r] = "refused"
  PROVE  EarnedBy(r)'
<1>1. IInv' /\ key'[r] \in Keys
  BY StepKeeps DEF IInv, JudgedWereCounted
<1>2. PICK k \in Keys : k = key'[r]
  BY <1>1
<1> DEFINE A == Counted(k) \ {r}
           B == Counted(k)' \ {r}
<1>3. /\ IsFiniteSet(Counted(k)) /\ tally[k] = Cardinality(Counted(k))
      /\ IsFiniteSet(Counted(k)')
  BY <1>1 DEF IInv, TallyCounts
<1>4. A \subseteq B /\ UNCHANGED app
  BY CountsStay DEF Counted
<1>5. /\ IsFiniteSet(B) /\ Cardinality(B) \in Nat
      /\ Cardinality(A) \in Nat /\ Cardinality(A) <= Cardinality(B)
  <2>1. IsFiniteSet(B)
    BY <1>3, FS_Subset
  <2>2. QED
    BY <1>4, <2>1, FS_Subset, FS_CardinalityType
<1>6. Limit[app[r]] \in Nat /\ used[r] \in Nat
  BY RateAssumption DEF IInv, TypeOK
<1>7. Cardinality(B) >= Limit[app[r]] /\ used'[r] <= Cardinality(B) + 1
  <2>1. CASE Replied(r)
    <3>1. /\ key[r] = k /\ ~counted[r] /\ used'[r] = Value(k) + 1
          /\ Verdict(app[r], Value(k) + 1) = "refused"
      BY <1>2, <2>1 DEF Replied, IInv, TypeOK, CommandsAreNamed
    <3>2. A = Counted(k)
      BY <3>1 DEF Counted
    <3>3. Value(k) \in Nat /\ Value(k) <= Cardinality(A) /\ Value(k) >= Limit[app[r]]
      <4>1. Value(k) \in Nat /\ Value(k) <= tally[k]
        BY StoreTyped, ValueIsCounted DEF IInv
      <4>2. ~(Value(k) + 1 <= Limit[app[r]])
        BY <3>1 DEF Verdict
      <4> HIDE DEF A
      <4>3. QED
        BY <1>3, <1>6, <3>2, <4>1, <4>2
    <3> HIDE DEF A, B
    <3>4. QED
      BY <1>5, <1>6, <3>1, <3>3
  <2>2. CASE ~Replied(r)
    <3>1. verdict[r] = "refused" /\ key[r] = k /\ used[r] = used'[r]
      BY <1>2, <2>2, VerdictsStay
    <3>2. Cardinality(A) >= Limit[app[r]] /\ used[r] <= Cardinality(A) + 1
      BY <3>1 DEF Earned, EarnedBy, OthersCounted
    <3> HIDE DEF A, B
    <3>3. QED
      BY <1>5, <1>6, <3>1, <3>2
  <2>3. QED
    BY <2>1, <2>2
<1>8. QED
  BY <1>2, <1>4, <1>7 DEF EarnedBy, OthersCounted

\* No refusal is unearned: a full quota of other requests was counted in the
\* window of a refused one, whatever the clocks and the lifetimes (Allow).
THEOREM RateRefusalsAreEarned == Spec => []RefusalsAreEarned
<1>1. Init => Earned
  BY DEF Init, Earned
<1>2. IInv /\ Earned /\ [Next]_vars => Earned'
  BY EarnedStep DEF Earned
<1>3. QED
  BY <1>1, <1>2, EarnedMeans, RateInvariant, PTL DEF Spec

-----------------------------------------------------------------------------
\* The client.
\* Every connection in use is open, out of the pool and its caller's alone.
Owned ==
  /\ \A k \in Active : /\ held[k] \in Conns
                       /\ state[held[k]] = "open"
                       /\ held[k] \notin pool
  /\ \A j, k \in Active : held[j] = held[k] => j = k

NoLeak ==
  \A c \in Conns : state[c] = "open" => c \in pool \/ \E k \in Active : held[k] = c

Fresh ==
  \A c \in Conns :
    state[c] = "new" => wire[c] = <<>> /\ inbox[c] = <<>> /\ ~peer[c]

\* What is on the connection of a call in progress: its one command or the
\* lines of its one answer, unless the server had no room.
Expected(k) == IF stage[k] = "authing" THEN [by |-> k, auth |-> TRUE]
                                    ELSE [by |-> k, auth |-> FALSE]
OneLine(k)  == IF stage[k] = "authing" THEN {"status", "error"} ELSE {"int", "error"}

Traffic(k) ==
  LET c == held[k]
  IN  \/ wire[c] = <<Expected(k)>> /\ inbox[c] = <<>>
      \/ wire[c] = <<Expected(k)>> /\ inbox[c] = NoRoom /\ ~peer[c]
      \/ /\ wire[c] = <<>>
         /\ \E f \in OneLine(k) : /\ inbox[c] = <<[to |-> k, form |-> f]>>
                                  /\ f = "status" => authed[c]
      \/ /\ wire[c] = <<>> /\ stage[k] = "waiting"
         /\ inbox[c] = <<[to |-> k, form |-> "bulk"], [to |-> k, form |-> "body"]>>

InStep == \A k \in Active : Traffic(k)

RedisInv ==
  /\ RedisTypeOK /\ IsFiniteSet(pool)
  /\ Owned /\ NoLeak /\ Fresh /\ InStep
  /\ PooledIsClean /\ AuthComesFirst /\ RepliesAreOwn

-----------------------------------------------------------------------------
LEMMA InitEstablishes == RedisInit => RedisInv
<1> SUFFICES ASSUME RedisInit PROVE RedisInv  OBVIOUS
<1> USE DEF RedisInit
<1>1. IsFiniteSet(pool) /\ Cardinality(pool) = 0  BY FS_EmptySet
<1>2. Active = {}  BY DEF Active, InProgress
<1>3. RedisTypeOK
  <2>1. Cardinality(pool) <= Size  BY <1>1, ClientAssumption
  <2>2. wire \in [Conns -> Seq(Command)] /\ inbox \in [Conns -> Seq(Line)]  OBVIOUS
  <2> QED  BY <2>1, <2>2, ClientAssumption DEF RedisTypeOK, InProgress
<1>4. Owned /\ NoLeak /\ Fresh /\ InStep  BY <1>2 DEF Owned, NoLeak, Fresh, InStep
<1>5. PooledIsClean /\ AuthComesFirst /\ RepliesAreOwn
  BY ClientAssumption DEF PooledIsClean, AuthComesFirst, RepliesAreOwn
<1> QED  BY <1>1, <1>3, <1>4, <1>5 DEF RedisInv

-----------------------------------------------------------------------------
\* The pool stays within its size when a connection leaves it.
LEMMA PoolShrinks ==
  ASSUME NEW P, NEW c, IsFiniteSet(P), Cardinality(P) <= Size
  PROVE  IsFiniteSet(P \ {c}) /\ Cardinality(P \ {c}) <= Size
<1>1. IsFiniteSet(P \ {c})  BY FS_Subset
<1>2. Cardinality(P \ {c}) \in Nat /\ Cardinality(P) \in Nat  BY <1>1, FS_CardinalityType
<1>3. Cardinality(P \ {c}) <= Cardinality(P)  BY FS_Subset
<1> QED  BY <1>1, <1>2, <1>3, ClientAssumption

\* ... and when put finds room for one.
LEMMA PoolGrows ==
  ASSUME NEW P, NEW c, IsFiniteSet(P), Cardinality(P) < Size
  PROVE  IsFiniteSet(P \cup {c}) /\ Cardinality(P \cup {c}) <= Size
<1>1. /\ IsFiniteSet(P \cup {c})
      /\ Cardinality(P \cup {c}) = IF c \in P THEN Cardinality(P) ELSE Cardinality(P) + 1
  BY FS_AddElement
<1>2. Cardinality(P) \in Nat  BY FS_CardinalityType
<1> QED  BY <1>1, <1>2, ClientAssumption

\* A step that leaves a call and its connection alone keeps them in step.
LEMMA OthersInStep ==
  ASSUME RedisInv, NEW j \in Active,
         stage'[j] = stage[j], held'[j] = held[j],
         wire'[held[j]] = wire[held[j]], inbox'[held[j]] = inbox[held[j]],
         peer'[held[j]] = peer[held[j]], authed'[held[j]] = authed[held[j]]
  PROVE  Traffic(j)'
BY DEF RedisInv, InStep, Traffic, Expected, OneLine, NoRoom

LEMMA TakePooledPreserves ==
  ASSUME RedisInv, NEW k \in Calls, NEW c \in Conns, TakePooled(k, c)
  PROVE  RedisInv'
<1> USE DEF RedisInv
<1>1. k \notin Active /\ Active' = Active \cup {k}
  BY DEF TakePooled, Goto, Active, InProgress, RedisTypeOK
<1>2. IsFiniteSet(pool') /\ Cardinality(pool') <= Size
  BY PoolShrinks DEF TakePooled, RedisTypeOK
<1>3. state[c] = "open" /\ wire[c] = <<>> /\ inbox[c] = <<>> /\ (password => authed[c])
  BY DEF TakePooled, PooledIsClean
<1>4. \A j \in Active : held[j] # c  BY DEF Owned, TakePooled
<1>5. \A j \in Active : j # k /\ held'[j] = held[j] /\ stage'[j] = stage[j]
  BY <1>1 DEF TakePooled, Goto, RedisTypeOK, Active
<1>6. held'[k] = c /\ stage'[k] = "waiting"  BY DEF TakePooled, Goto, RedisTypeOK
<1>7. wire' = [wire EXCEPT ![c] = Append(@, [by |-> k, auth |-> FALSE])]
  BY DEF TakePooled, Write
<1>8. RedisTypeOK'
  <2>1. [by |-> k, auth |-> FALSE] \in Command  BY DEF Command
  <2>2. wire' \in [Conns -> Seq(Command)]  BY <1>7, <2>1 DEF RedisTypeOK
  <2> QED  BY <1>2, <2>2 DEF RedisTypeOK, TakePooled, Goto, InProgress
<1>9. Owned'
  BY <1>1, <1>3, <1>4, <1>5, <1>6 DEF Owned, TakePooled
<1>10. NoLeak'
  BY <1>1, <1>5, <1>6 DEF NoLeak, TakePooled
<1>11. Fresh'  BY <1>3, <1>7 DEF Fresh, TakePooled, RedisTypeOK
<1>12. InStep'
  <2>1. wire'[c] = Append(<<>>, [by |-> k, auth |-> FALSE])
    BY <1>3, <1>7 DEF RedisTypeOK
  <2>2. wire'[c] = <<[by |-> k, auth |-> FALSE]>> /\ inbox'[c] = <<>>
    BY <1>3, <2>1 DEF TakePooled
  <2>3. Traffic(k)'  BY <1>6, <2>2 DEF Traffic, Expected
  <2>4. ASSUME NEW j \in Active PROVE Traffic(j)'
    <3>1. held[j] \in Conns /\ held[j] # c  BY <1>4 DEF Owned
    <3>2. wire'[held[j]] = wire[held[j]]  BY <3>1, <1>7 DEF RedisTypeOK
    <3> QED  BY <1>5, <3>2, OthersInStep DEF TakePooled
  <2> QED  BY <1>1, <2>3, <2>4 DEF InStep
<1>13. PooledIsClean'  BY <1>7 DEF PooledIsClean, TakePooled, RedisTypeOK
<1>14. AuthComesFirst'  BY <1>3, <1>6 DEF AuthComesFirst, TakePooled, Goto, RedisTypeOK
<1>15. RepliesAreOwn'  BY DEF RepliesAreOwn, TakePooled
<1> QED  BY <1>2, <1>8, <1>9, <1>10, <1>11, <1>12, <1>13, <1>14, <1>15

\* The first answer a dialled connection may already carry, and its command.
LEMMA DialPreserves ==
  ASSUME RedisInv, NEW k \in Calls, NEW c \in Conns, Dial(k, c)
  PROVE  RedisInv'
<1> USE DEF RedisInv
<1>1. k \notin Active /\ Active' = Active \cup {k}
  BY DEF Dial, Goto, Active, InProgress, RedisTypeOK
<1>2. state[c] = "new" /\ wire[c] = <<>> /\ inbox[c] = <<>> /\ ~peer[c] /\ pool = {}
  BY DEF Dial, Fresh
<1>3. \A j \in Active : held[j] # c  BY <1>2 DEF Owned
<1>4. \A j \in Active : j # k /\ held'[j] = held[j] /\ stage'[j] = stage[j]
  BY <1>1 DEF Dial, Goto, RedisTypeOK, Active
<1>5. held'[k] = c /\ stage'[k] = IF password THEN "authing" ELSE "waiting"
  BY DEF Dial, Goto, RedisTypeOK
<1>6. PICK cmd \in Command :
        /\ wire' = [wire EXCEPT ![c] = Append(@, cmd)]
        /\ cmd = [by |-> k, auth |-> password]
  BY ClientAssumption DEF Dial, Write, Command, RedisTypeOK
<1>7. /\ state' = [state EXCEPT ![c] = "open"]
      /\ \/ peer' = [peer EXCEPT ![c] = TRUE] /\ inbox' = inbox
         \/ inbox' = [inbox EXCEPT ![c] = NoRoom] /\ peer' = peer
      /\ UNCHANGED <<password, pool, authed, got>>
  BY DEF Dial
<1>8. RedisTypeOK'
  <2>1. NoRoom \in Seq(Line)  BY DEF NoRoom, Line
  <2>2. wire' \in [Conns -> Seq(Command)]  BY <1>6 DEF RedisTypeOK
  <2>3. inbox' \in [Conns -> Seq(Line)] /\ peer' \in [Conns -> BOOLEAN]
    BY <1>7, <2>1 DEF RedisTypeOK
  <2>4. stage' \in [Calls -> InProgress \cup {"idle", "done"}]
    BY DEF Dial, Goto, RedisTypeOK, InProgress
  <2>5. held' \in [Calls -> Conns \cup {NoConn}]  BY DEF Dial, RedisTypeOK
  <2> QED  BY <1>7, <2>2, <2>3, <2>4, <2>5 DEF RedisTypeOK
<1>9. Owned'
  <2>1. state'[c] = "open" /\ c \notin pool'  BY <1>2, <1>7 DEF RedisTypeOK
  <2>2. \A j \in Active : held[j] \in Conns /\ state'[held[j]] = "open"
    BY <1>3, <1>7 DEF Owned, RedisTypeOK
  <2>3. \A j \in Active' : /\ held'[j] \in Conns
                          /\ state'[held'[j]] = "open"
                          /\ held'[j] \notin pool'
    BY <1>1, <1>2, <1>4, <1>5, <1>7, <2>1, <2>2
  <2>4. \A i, j \in Active' : held'[i] = held'[j] => i = j
    BY <1>1, <1>3, <1>4, <1>5 DEF Owned
  <2> QED  BY <2>3, <2>4 DEF Owned
<1>10. NoLeak'  BY <1>1, <1>4, <1>5, <1>7 DEF NoLeak, RedisTypeOK
<1>11. Fresh'
  <2>1. ASSUME NEW d \in Conns, state'[d] = "new"
        PROVE  /\ state[d] = "new" /\ peer'[d] = peer[d]
               /\ wire'[d] = wire[d] /\ inbox'[d] = inbox[d]
    <3>1. d # c  BY <2>1, <1>7 DEF RedisTypeOK
    <3> QED  BY <2>1, <3>1, <1>6, <1>7 DEF RedisTypeOK
  <2> QED  BY <2>1 DEF Fresh
<1>12. InStep'
  <2>1. wire'[c] = Append(<<>>, cmd)  BY <1>2, <1>6 DEF RedisTypeOK
  <2>2. wire'[c] = <<cmd>>  BY <2>1
  <2>3. inbox'[c] = <<>> \/ (inbox'[c] = NoRoom /\ ~peer'[c])
    BY <1>2, <1>7 DEF RedisTypeOK
  <2>4. cmd = IF password THEN [by |-> k, auth |-> TRUE] ELSE [by |-> k, auth |-> FALSE]
    BY <1>6, ClientAssumption DEF RedisTypeOK
  <2>5. ASSUME NEW j \in Active PROVE Traffic(j)'
    <3>1. held[j] \in Conns /\ held[j] # c  BY <1>3 DEF Owned
    <3>2. wire'[held[j]] = wire[held[j]]  BY <3>1, <1>6 DEF RedisTypeOK
    <3>3. inbox'[held[j]] = inbox[held[j]] /\ peer'[held[j]] = peer[held[j]]
      BY <3>1, <1>7 DEF RedisTypeOK
    <3> QED  BY <1>4, <1>7, <3>2, <3>3, OthersInStep
  <2>6. Traffic(k)'
    <3>1. cmd = Expected(k)'  BY <1>5, <2>4 DEF Expected
    <3> QED  BY <1>5, <2>2, <2>3, <3>1 DEF Traffic, NoRoom
  <2> QED  BY <1>1, <2>5, <2>6 DEF InStep
<1>13. PooledIsClean'  BY <1>2, <1>7 DEF PooledIsClean
<1>14. AuthComesFirst'
  <2>1. ASSUME NEW j \in Calls, password, stage'[j] = "waiting" PROVE authed[held'[j]]
    <3>1. j # k  BY <1>5, <2>1
    <3>2. stage[j] = "waiting" /\ held'[j] = held[j]
      BY <2>1, <3>1 DEF Dial, Goto, RedisTypeOK
    <3> QED  BY <2>1, <3>2 DEF AuthComesFirst
  <2> QED  BY <1>7, <2>1 DEF AuthComesFirst
<1>15. RepliesAreOwn' /\ IsFiniteSet(pool')  BY <1>7 DEF RepliesAreOwn
<1> QED  BY <1>8, <1>9, <1>10, <1>11, <1>12, <1>13, <1>14, <1>15

LEMMA DialFailsPreserves ==
  ASSUME RedisInv, NEW k \in Calls, DialFails(k)
  PROVE  RedisInv'
<1> USE DEF RedisInv
<1>1. k \notin Active /\ Active' = Active
  BY DEF DialFails, Goto, Active, InProgress, RedisTypeOK
<1>2. UNCHANGED <<password, pool, state, peer, wire, inbox, authed, held>>
  BY DEF DialFails, connVars
<1>3. \A j \in Active : stage'[j] = stage[j]  BY <1>1 DEF DialFails, Goto, RedisTypeOK, Active
<1>4. RedisTypeOK'  BY <1>2 DEF RedisTypeOK, DialFails, Goto, InProgress
<1>5. Owned' /\ NoLeak' /\ Fresh' /\ PooledIsClean'
  BY <1>1, <1>2 DEF Owned, NoLeak, Fresh, PooledIsClean
<1>6. InStep'  BY <1>1, <1>2, <1>3, OthersInStep DEF InStep
<1>7. AuthComesFirst'  BY <1>2 DEF AuthComesFirst, DialFails, Goto, RedisTypeOK
<1>8. RepliesAreOwn'  BY ClientAssumption DEF RepliesAreOwn, DialFails, RedisTypeOK
<1> QED  BY <1>2, <1>4, <1>5, <1>6, <1>7, <1>8

\* A call that fails takes its connection with it, read from or not.
LEMMA DropPreserves ==
  ASSUME RedisInv, NEW k \in Active, Drop(k),
         UNCHANGED <<password, pool, peer, wire, authed, held>>,
         inbox' \in [Conns -> Seq(Line)],
         \A d \in Conns \ {held[k]} : inbox'[d] = inbox[d]
  PROVE  RedisInv'
<1> USE DEF RedisInv
<1>1. k \in Calls /\ Active' = Active \ {k}
  BY DEF Drop, Goto, Active, InProgress, RedisTypeOK
<1>2. held[k] \in Conns /\ held[k] \notin pool /\ state[held[k]] = "open"
  BY DEF Owned
<1>3. state' = [state EXCEPT ![held[k]] = "closed"]  BY DEF Drop
<1>4. \A j \in Active' : j \in Active /\ held[j] # held[k] /\ stage'[j] = stage[j]
  BY <1>1 DEF Owned, Drop, Goto, RedisTypeOK, Active
<1>5. RedisTypeOK'  BY <1>1, <1>2 DEF RedisTypeOK, Drop, Goto, InProgress
<1>6. Owned'
  <2>1. \A j \in Active' : held[j] \in Conns /\ state'[held[j]] = "open" /\ held[j] \notin pool
    BY <1>3, <1>4 DEF Owned, RedisTypeOK
  <2> QED  BY <1>4, <2>1 DEF Owned
<1>7. NoLeak'
  <2>1. ASSUME NEW d \in Conns, state'[d] = "open"
        PROVE  state[d] = "open" /\ d # held[k]
    BY <2>1, <1>2, <1>3 DEF RedisTypeOK
  <2> QED  BY <1>1, <2>1 DEF NoLeak
<1>8. Fresh'
  <2>1. ASSUME NEW d \in Conns, state'[d] = "new"
        PROVE  state[d] = "new" /\ d # held[k]
    BY <2>1, <1>2, <1>3 DEF RedisTypeOK
  <2> QED  BY <2>1 DEF Fresh
<1>9. InStep'
  <2> SUFFICES ASSUME NEW j \in Active' PROVE Traffic(j)'  BY DEF InStep
  <2>1. held[j] \in Conns /\ held[j] # held[k]  BY <1>4 DEF Owned
  <2> QED  BY <1>4, <2>1, OthersInStep
<1>10. PooledIsClean'
  <2>1. \A d \in pool : d \in Conns /\ d # held[k]  BY <1>2 DEF RedisTypeOK
  <2> QED  BY <2>1, <1>3 DEF PooledIsClean, RedisTypeOK
<1>11. AuthComesFirst'  BY DEF AuthComesFirst, Drop, Goto, RedisTypeOK
<1>12. RepliesAreOwn'  BY ClientAssumption DEF RepliesAreOwn, Drop, RedisTypeOK
<1> QED  BY <1>5, <1>6, <1>7, <1>8, <1>9, <1>10, <1>11, <1>12

LEMMA GivesUpPreserves ==
  ASSUME RedisInv, NEW k \in Calls, GivesUp(k)
  PROVE  RedisInv'
<1>1. k \in Active  BY DEF GivesUp, Active
<1>2. inbox' = inbox /\ inbox \in [Conns -> Seq(Line)]  BY DEF GivesUp, RedisInv, RedisTypeOK
<1> QED  BY <1>1, <1>2, DropPreserves DEF GivesUp

\* Reading one line of a call's connection leaves every other one as it was.
LEMMA ReadLineReads ==
  ASSUME RedisInv, NEW k \in Active, inbox[held[k]] # <<>>, ReadLine(k)
  PROVE  /\ inbox' \in [Conns -> Seq(Line)]
         /\ inbox'[held[k]] = Tail(inbox[held[k]])
         /\ \A d \in Conns \ {held[k]} : inbox'[d] = inbox[d]
<1>1. held[k] \in Conns  BY DEF RedisInv, Owned
<1>2. inbox[held[k]] \in Seq(Line)  BY <1>1 DEF RedisInv, RedisTypeOK
<1>3. Tail(inbox[held[k]]) \in Seq(Line)  BY <1>2
<1> QED  BY <1>1, <1>3 DEF RedisInv, RedisTypeOK, ReadLine

\* What an unread line says of the connection it is on: an accepted AUTH or an
\* integer was the only thing on it.
LEMMA LineIsLast ==
  ASSUME RedisInv, NEW k \in Active, inbox[held[k]] # <<>>
  PROVE  /\ (stage[k] = "authing" /\ Head(inbox[held[k]]).form = "status") =>
              /\ wire[held[k]] = <<>> /\ Tail(inbox[held[k]]) = <<>>
              /\ authed[held[k]]
         /\ (stage[k] = "waiting" /\ Head(inbox[held[k]]).form = "int") =>
              /\ wire[held[k]] = <<>> /\ Tail(inbox[held[k]]) = <<>>
              /\ Head(inbox[held[k]]).to = k
<1> DEFINE c == held[k]
<1>1. \/ inbox[c] = NoRoom
      \/ /\ wire[c] = <<>>
         /\ \E f \in OneLine(k) : /\ inbox[c] = <<[to |-> k, form |-> f]>>
                                  /\ f = "status" => authed[c]
      \/ inbox[c] = <<[to |-> k, form |-> "bulk"], [to |-> k, form |-> "body"]>>
  BY DEF RedisInv, InStep, Traffic
<1>2. CASE inbox[c] = NoRoom
  <2>1. Head(inbox[c]).form = "error"  BY <1>2 DEF NoRoom
  <2> QED  BY <2>1
<1>3. ASSUME wire[c] = <<>>, NEW f \in OneLine(k),
             inbox[c] = <<[to |-> k, form |-> f]>>, f = "status" => authed[c]
      PROVE  /\ (stage[k] = "authing" /\ Head(inbox[c]).form = "status") =>
                  wire[c] = <<>> /\ Tail(inbox[c]) = <<>> /\ authed[c]
             /\ (stage[k] = "waiting" /\ Head(inbox[c]).form = "int") =>
                  wire[c] = <<>> /\ Tail(inbox[c]) = <<>> /\ Head(inbox[c]).to = k
  <2>1. Head(inbox[c]) = [to |-> k, form |-> f] /\ Tail(inbox[c]) = <<>>  BY <1>3
  <2>2. Head(inbox[c]).form = f /\ Head(inbox[c]).to = k  BY <2>1
  <2> QED  BY <1>3, <2>1, <2>2
<1>4. CASE inbox[c] = <<[to |-> k, form |-> "bulk"], [to |-> k, form |-> "body"]>>
  <2>1. Head(inbox[c]) = [to |-> k, form |-> "bulk"]  BY <1>4
  <2>2. Head(inbox[c]).form = "bulk"  BY <2>1
  <2> QED  BY <2>2
<1> QED  BY <1>1, <1>2, <1>3, <1>4

LEMMA AuthAnsweredPreserves ==
  ASSUME RedisInv, NEW k \in Calls, AuthAnswered(k)
  PROVE  RedisInv'
<1>1. k \in Active /\ inbox[held[k]] # <<>> /\ stage[k] = "authing"
  BY DEF AuthAnswered, Active, InProgress
<1>2. /\ inbox' \in [Conns -> Seq(Line)]
      /\ inbox'[held[k]] = Tail(inbox[held[k]])
      /\ \A d \in Conns \ {held[k]} : inbox'[d] = inbox[d]
  BY <1>1, ReadLineReads DEF AuthAnswered
<1>3. CASE Drop(k) /\ UNCHANGED wire
  BY <1>1, <1>2, <1>3, DropPreserves DEF AuthAnswered
<1>4. CASE /\ Head(inbox[held[k]]).form = "status"
           /\ Goto(k, "waiting") /\ Write(k, held[k], FALSE)
           /\ UNCHANGED <<state, got>>
  <2> USE DEF RedisInv
  <2> DEFINE cmd == [by |-> k, auth |-> FALSE]
  <2>1. /\ wire[held[k]] = <<>> /\ Tail(inbox[held[k]]) = <<>>
        /\ authed[held[k]]
    BY <1>1, <1>4, LineIsLast
  <2>2. UNCHANGED <<password, pool, state, peer, authed, held, got>>
    BY <1>4 DEF AuthAnswered
  <2>3. Active' = Active /\ stage'[k] = "waiting" /\ \A j \in Active \ {k} : stage'[j] = stage[j]
    BY <1>1, <1>4 DEF Goto, Active, InProgress, RedisTypeOK
  <2>4. held[k] \in Conns  BY <1>1 DEF Owned
  <2>5. wire' = [wire EXCEPT ![held[k]] = Append(@, cmd)]  BY <1>4 DEF Write
  <2>6. wire'[held[k]] = Append(<<>>, cmd)  BY <2>1, <2>4, <2>5 DEF RedisTypeOK
  <2>7. wire'[held[k]] = <<cmd>>  BY <2>6
  <2>8. RedisTypeOK'
    <3>1. cmd \in Command  BY DEF Command
    <3>2. Append(wire[held[k]], cmd) \in Seq(Command)  BY <2>4, <3>1 DEF RedisTypeOK
    <3>3. wire' \in [Conns -> Seq(Command)]  BY <2>4, <2>5, <3>2 DEF RedisTypeOK
    <3>4. stage' \in [Calls -> InProgress \cup {"idle", "done"}]
      BY <1>4 DEF Goto, RedisTypeOK, InProgress
    <3> QED  BY <1>2, <2>2, <3>3, <3>4 DEF RedisTypeOK
  <2>9. Owned' /\ NoLeak'  BY <2>2, <2>3 DEF Owned, NoLeak
  <2>10. Fresh' /\ PooledIsClean'
    <3>1. ASSUME NEW d \in Conns, d # held[k]
          PROVE  wire'[d] = wire[d] /\ inbox'[d] = inbox[d]
      BY <3>1, <1>2, <2>5 DEF RedisTypeOK
    <3>2. state[held[k]] = "open" /\ held[k] \notin pool  BY <1>1 DEF Owned
    <3> QED  BY <2>2, <3>1, <3>2 DEF Fresh, PooledIsClean, RedisTypeOK
  <2>11. InStep'
    <3>1. ASSUME NEW j \in Active, j # k PROVE Traffic(j)'
      <4>1. held[j] \in Conns /\ held[j] # held[k]  BY <1>1, <3>1 DEF Owned
      <4>2. wire'[held[j]] = wire[held[j]] /\ inbox'[held[j]] = inbox[held[j]]
        BY <4>1, <1>2, <2>5 DEF RedisTypeOK
      <4> QED  BY <2>2, <2>3, <3>1, <4>2, OthersInStep
    <3>2. Traffic(k)'  BY <1>2, <2>1, <2>2, <2>3, <2>7 DEF Traffic, Expected
    <3> QED  BY <2>3, <3>1, <3>2 DEF InStep
  <2>12. AuthComesFirst'
    BY <2>1, <2>2, <1>4 DEF AuthComesFirst, Goto, RedisTypeOK
  <2>13. RepliesAreOwn' /\ IsFiniteSet(pool')  BY <2>2 DEF RepliesAreOwn
  <2> QED  BY <2>8, <2>9, <2>10, <2>11, <2>12, <2>13
<1> QED  BY <1>3, <1>4 DEF AuthAnswered

LEMMA AnsweredPreserves ==
  ASSUME RedisInv, NEW k \in Calls, Answered(k)
  PROVE  RedisInv'
<1>1. k \in Active /\ inbox[held[k]] # <<>> /\ stage[k] = "waiting"
  BY DEF Answered, Active, InProgress
<1>2. /\ inbox' \in [Conns -> Seq(Line)]
      /\ inbox'[held[k]] = Tail(inbox[held[k]])
      /\ \A d \in Conns \ {held[k]} : inbox'[d] = inbox[d]
  BY <1>1, ReadLineReads DEF Answered
<1>3. CASE Drop(k) /\ UNCHANGED pool
  BY <1>1, <1>2, <1>3, DropPreserves DEF Answered
<1>4. CASE /\ Head(inbox[held[k]]).form = "int"
           /\ Put(held[k])
           /\ got' = [got EXCEPT ![k] = Head(inbox[held[k]]).to]
           /\ Goto(k, "done")
  <2> USE DEF RedisInv
  <2>1. /\ wire[held[k]] = <<>> /\ Tail(inbox[held[k]]) = <<>>
        /\ Head(inbox[held[k]]).to = k
    BY <1>1, <1>4, LineIsLast
  <2>2. UNCHANGED <<password, peer, wire, authed, held>>  BY DEF Answered
  <2>3. Active' = Active \ {k} /\ \A j \in Active' : j \in Active /\ stage'[j] = stage[j]
    BY <1>1, <1>4 DEF Goto, Active, InProgress, RedisTypeOK
  <2>4. held[k] \in Conns /\ held[k] \notin pool /\ state[held[k]] = "open"
    BY <1>1 DEF Owned
  <2>5. \A j \in Active' : held[j] # held[k]  BY <1>1, <2>3 DEF Owned
  <2>6. /\ IsFiniteSet(pool') /\ Cardinality(pool') <= Size
        /\ \/ pool' = pool \cup {held[k]} /\ state' = state
           \/ pool' = pool /\ state' = [state EXCEPT ![held[k]] = "closed"]
    <3>1. CASE Cardinality(pool) < Size /\ pool' = pool \cup {held[k]} /\ UNCHANGED state
      <4>1. /\ IsFiniteSet(pool \cup {held[k]})
            /\ Cardinality(pool \cup {held[k]}) <= Size
        BY <3>1, PoolGrows
      <4> QED  BY <3>1, <4>1
    <3>2. CASE state' = [state EXCEPT ![held[k]] = "closed"] /\ UNCHANGED pool
      BY <3>2 DEF RedisTypeOK
    <3> QED  BY <1>4, <3>1, <3>2 DEF Put
  <2>7. \A d \in Conns \ {held[k]} : state'[d] = state[d]  BY <2>4, <2>6 DEF RedisTypeOK
  <2>8. RedisTypeOK'
    <3>1. state' \in [Conns -> {"new", "open", "closed"}] /\ pool' \subseteq Conns
      BY <2>4, <2>6 DEF RedisTypeOK
    <3>2. got' \in [Calls -> Calls \cup {Nothing, Failure}]  BY <1>4, <2>1 DEF RedisTypeOK
    <3>3. stage' \in [Calls -> InProgress \cup {"idle", "done"}]
      BY <1>4 DEF Goto, RedisTypeOK, InProgress
    <3> QED  BY <1>2, <2>2, <2>6, <3>1, <3>2, <3>3 DEF RedisTypeOK
  <2>9. Owned'
    <3>1. \A j \in Active' : /\ held[j] \in Conns /\ state'[held[j]] = "open"
                            /\ held[j] \notin pool'
      BY <2>3, <2>5, <2>6, <2>7 DEF Owned
    <3> QED  BY <2>2, <2>3, <3>1 DEF Owned
  <2>10. NoLeak'
    <3> SUFFICES ASSUME NEW d \in Conns, state'[d] = "open"
                 PROVE  d \in pool' \/ \E j \in Active' : held'[j] = d
      BY DEF NoLeak
    <3>1. CASE d = held[k]  BY <3>1, <2>4, <2>6 DEF RedisTypeOK
    <3>2. CASE d # held[k]
      <4>1. d \in pool \/ \E j \in Active : held[j] = d  BY <3>2, <2>7 DEF NoLeak
      <4> QED  BY <3>2, <4>1, <2>2, <2>3, <2>6
    <3> QED  BY <3>1, <3>2
  <2>11. Fresh'
    <3>1. ASSUME NEW d \in Conns, state'[d] = "new" PROVE d # held[k] /\ state[d] = "new"
      BY <3>1, <2>4, <2>6, <2>7 DEF RedisTypeOK
    <3> QED  BY <1>2, <2>2, <3>1 DEF Fresh
  <2>12. InStep'
    <3> SUFFICES ASSUME NEW j \in Active' PROVE Traffic(j)'  BY DEF InStep
    <3>1. held[j] \in Conns  BY <2>3 DEF Owned
    <3> QED  BY <1>2, <2>2, <2>3, <2>5, <3>1, OthersInStep
  <2>13. PooledIsClean'
    <3>1. password => authed[held[k]]  BY <1>1 DEF AuthComesFirst
    <3>2. \A d \in pool : d \in Conns /\ d # held[k]  BY <2>4 DEF RedisTypeOK
    <3>3. ASSUME NEW d \in pool
          PROVE  /\ state'[d] = "open" /\ wire'[d] = <<>> /\ inbox'[d] = <<>>
                 /\ password' => authed'[d]
      BY <1>2, <2>2, <2>7, <3>2 DEF PooledIsClean
    <3>4. CASE pool' = pool  BY <3>3, <3>4 DEF PooledIsClean
    <3>5. CASE pool' = pool \cup {held[k]} /\ state' = state
      BY <1>2, <2>1, <2>2, <2>4, <3>1, <3>3, <3>5 DEF PooledIsClean
    <3> QED  BY <2>6, <3>4, <3>5
  <2>14. AuthComesFirst'  BY <2>2, <1>4 DEF AuthComesFirst, Goto, RedisTypeOK
  <2>15. RepliesAreOwn'  BY <1>4, <2>1 DEF RepliesAreOwn, RedisTypeOK
  <2> QED  BY <2>6, <2>8, <2>9, <2>10, <2>11, <2>12, <2>13, <2>14, <2>15
<1> QED  BY <1>3, <1>4 DEF Answered

LEMMA ClosePreserves ==
  ASSUME RedisInv, NEW c \in Conns, Close(c)
  PROVE  RedisInv'
<1> USE DEF RedisInv
<1>1. /\ c \in pool /\ pool' = pool \ {c}
      /\ state' = [state EXCEPT ![c] = "closed"]
      /\ UNCHANGED <<password, peer, wire, inbox, authed, stage, held, got>>
  BY DEF Close
<1>2. Active' = Active /\ \A j \in Active : held[j] # c
  BY <1>1 DEF Active, Owned
<1>3. IsFiniteSet(pool') /\ Cardinality(pool') <= Size
  BY <1>1, PoolShrinks DEF RedisTypeOK
<1>4. \A d \in Conns \ {c} : state'[d] = state[d]  BY <1>1 DEF RedisTypeOK
<1>5. RedisTypeOK'  BY <1>1, <1>3 DEF RedisTypeOK
<1>6. Owned'
  <2>1. \A j \in Active : held[j] \in Conns /\ state'[held[j]] = "open" /\ held[j] \notin pool'
    BY <1>1, <1>2, <1>4 DEF Owned
  <2> QED  BY <1>1, <1>2, <2>1 DEF Owned
<1>7. NoLeak' /\ Fresh'
  <2>1. state'[c] = "closed"  BY <1>1 DEF RedisTypeOK
  <2> QED  BY <1>1, <1>2, <1>4, <2>1 DEF NoLeak, Fresh
<1>8. InStep'  BY <1>1, <1>2, OthersInStep DEF InStep
<1>9. PooledIsClean'
  <2>1. \A d \in pool' : d \in pool /\ d \in Conns \ {c}  BY <1>1 DEF RedisTypeOK
  <2> QED  BY <1>1, <1>4, <2>1 DEF PooledIsClean
<1>10. AuthComesFirst' /\ RepliesAreOwn'  BY <1>1 DEF AuthComesFirst, RepliesAreOwn
<1> QED  BY <1>3, <1>5, <1>6, <1>7, <1>8, <1>9, <1>10

\* A server that hangs up takes nothing from what was already sent.
LEMMA PeerClosesPreserves ==
  ASSUME RedisInv, NEW c \in Conns, PeerCloses(c)
  PROVE  RedisInv'
<1> USE DEF RedisInv
<1>1. /\ peer' = [peer EXCEPT ![c] = FALSE]
      /\ UNCHANGED <<password, pool, state, wire, inbox, authed, stage, held, got>>
  BY DEF PeerCloses
<1>2. Active' = Active /\ \A d \in Conns : peer'[d] => peer[d]
  BY <1>1 DEF Active, RedisTypeOK
<1>3. RedisTypeOK' /\ Owned' /\ NoLeak' /\ PooledIsClean' /\ AuthComesFirst' /\ RepliesAreOwn'
  BY <1>1, <1>2 DEF RedisTypeOK, Owned, NoLeak, PooledIsClean, AuthComesFirst, RepliesAreOwn
<1>4. Fresh'  BY <1>1, <1>2 DEF Fresh
<1>5. InStep'
  <2> SUFFICES ASSUME NEW j \in Active PROVE Traffic(j)'  BY <1>2 DEF InStep
  <2>1. Traffic(j) /\ held[j] \in Conns  BY DEF InStep, Owned
  <2>2. ~peer[held[j]] => ~peer'[held[j]]  BY <1>2, <2>1
  <2> QED  BY <1>1, <2>1, <2>2 DEF Traffic, Expected, OneLine
<1> QED  BY <1>1, <1>3, <1>4, <1>5

LEMMA ServePreserves ==
  ASSUME RedisInv, NEW c \in Conns, Serve(c)
  PROVE  RedisInv'
<1> USE DEF RedisInv
<1> DEFINE cmd == Head(wire[c])
           Out(lines) == inbox' = [inbox EXCEPT ![c] = @ \o lines]
<1>1. /\ peer[c] /\ wire[c] # <<>>
      /\ wire' = [wire EXCEPT ![c] = Tail(@)]
      /\ UNCHANGED <<password, pool, state, peer, stage, held, got>>
  BY DEF Serve
<1>2. \/ /\ cmd.auth
         /\ authed' = [authed EXCEPT ![c] = TRUE]
         /\ Out(<<[to |-> cmd.by, form |-> "status"]>>)
      \/ /\ Out(<<[to |-> cmd.by, form |-> "error"]>>)
         /\ authed' = authed
      \/ /\ ~cmd.auth /\ (password => authed[c]) /\ authed' = authed
         /\ \/ Out(<<[to |-> cmd.by, form |-> "int"]>>)
            \/ Out(<<[to |-> cmd.by, form |-> "bulk"], [to |-> cmd.by, form |-> "body"]>>)
  BY DEF Serve, Replies
<1>3. Active' = Active  BY <1>1 DEF Active
<1>4. cmd \in Command /\ cmd.by \in Calls /\ Tail(wire[c]) \in Seq(Command)
  <2>1. wire[c] \in Seq(Command)  BY DEF RedisTypeOK
  <2>2. cmd \in Command /\ Tail(wire[c]) \in Seq(Command)  BY <1>1, <2>1
  <2> QED  BY <2>2 DEF Command
<1>5. PICK lines \in Seq(Line) : Out(lines)
  <2>1. \A f \in {"status", "int", "error", "bulk", "body"} : [to |-> cmd.by, form |-> f] \in Line
    BY <1>4 DEF Line
  <2>2. \A f \in {"status", "int", "error"} : <<[to |-> cmd.by, form |-> f]>> \in Seq(Line)
    BY <2>1
  <2>3. <<[to |-> cmd.by, form |-> "bulk"], [to |-> cmd.by, form |-> "body"]>> \in Seq(Line)
    BY <2>1
  <2> QED  BY <1>2, <2>2, <2>3
<1>6. /\ \A d \in Conns \ {c} : wire'[d] = wire[d] /\ inbox'[d] = inbox[d] /\ authed'[d] = authed[d]
      /\ authed[c] => authed'[c]
      /\ authed' \in [Conns -> BOOLEAN]
  BY <1>1, <1>2, <1>5 DEF RedisTypeOK
<1>7. RedisTypeOK'
  <2>1. inbox[c] \o lines \in Seq(Line)  BY <1>5 DEF RedisTypeOK
  <2>2. inbox' \in [Conns -> Seq(Line)]  BY <1>5, <2>1 DEF RedisTypeOK
  <2>3. wire' \in [Conns -> Seq(Command)]  BY <1>1, <1>4 DEF RedisTypeOK
  <2> QED  BY <1>1, <1>6, <2>2, <2>3 DEF RedisTypeOK
<1>8. Owned' /\ NoLeak' /\ RepliesAreOwn'
  BY <1>1, <1>3 DEF Owned, NoLeak, RepliesAreOwn
<1>9. c \notin pool /\ state[c] # "new"  BY <1>1 DEF PooledIsClean, Fresh
<1>10. Fresh' /\ PooledIsClean'
  BY <1>1, <1>6, <1>9 DEF Fresh, PooledIsClean, RedisTypeOK
<1>11. AuthComesFirst'
  <2> SUFFICES ASSUME NEW j \in Calls, password, stage[j] = "waiting" PROVE authed'[held[j]]
    BY <1>1 DEF AuthComesFirst
  <2>1. held[j] \in Conns  BY DEF Owned, Active, InProgress
  <2>2. authed[held[j]]  BY DEF AuthComesFirst
  <2> QED  BY <1>6, <2>1, <2>2
<1>12. InStep'
  <2> SUFFICES ASSUME NEW j \in Active PROVE Traffic(j)'  BY <1>3 DEF InStep
  <2>1. held[j] \in Conns /\ Traffic(j)  BY DEF Owned, InStep
  <2>2. CASE held[j] # c
    BY <1>1, <1>6, <2>1, <2>2, OthersInStep
  <2>3. CASE held[j] = c
    <3>1. wire[c] = <<Expected(j)>> /\ inbox[c] = <<>>
      BY <1>1, <2>1, <2>3 DEF Traffic
    <3>2. cmd = Expected(j) /\ Tail(wire[c]) = <<>>  BY <3>1
    <3>3. cmd.by = j /\ (cmd.auth <=> stage[j] = "authing")  BY <3>2 DEF Expected
    <3>4. wire'[c] = <<>>  BY <1>1, <3>2 DEF RedisTypeOK
    <3>5. \A x : inbox' = [inbox EXCEPT ![c] = @ \o x] => inbox'[c] = <<>> \o x
      BY <3>1 DEF RedisTypeOK
    <3>6. \A f \in {"status", "int", "error", "bulk", "body"} : [to |-> j, form |-> f] \in Line
      BY <1>4, <3>3 DEF Line
    <3>7. CASE /\ cmd.auth /\ authed' = [authed EXCEPT ![c] = TRUE]
               /\ Out(<<[to |-> cmd.by, form |-> "status"]>>)
      <4>0. inbox'[c] = <<>> \o <<[to |-> j, form |-> "status"]>>
        BY <3>3, <3>5, <3>7
      <4>1. inbox'[c] = <<[to |-> j, form |-> "status"]>>  BY <4>0, <3>6
      <4>2. authed'[c] /\ "status" \in OneLine(j)'
        BY <1>1, <3>3, <3>7 DEF OneLine, RedisTypeOK
      <4> QED  BY <1>1, <2>3, <3>4, <4>1, <4>2 DEF Traffic
    <3>8. CASE Out(<<[to |-> cmd.by, form |-> "error"]>>)
      <4>0. inbox'[c] = <<>> \o <<[to |-> j, form |-> "error"]>>
        BY <3>3, <3>5, <3>8
      <4>1. inbox'[c] = <<[to |-> j, form |-> "error"]>>  BY <4>0, <3>6
      <4>2. "error" \in OneLine(j)'  BY DEF OneLine
      <4> QED  BY <1>1, <2>3, <3>4, <4>1, <4>2 DEF Traffic
    <3>9. CASE ~cmd.auth /\ Out(<<[to |-> cmd.by, form |-> "int"]>>)
      <4>0. inbox'[c] = <<>> \o <<[to |-> j, form |-> "int"]>>
        BY <3>3, <3>5, <3>9
      <4>1. inbox'[c] = <<[to |-> j, form |-> "int"]>>  BY <4>0, <3>6
      <4>2. "int" \in OneLine(j)'  BY <1>1, <3>3, <3>9 DEF OneLine
      <4> QED  BY <1>1, <2>3, <3>4, <4>1, <4>2 DEF Traffic
    <3>10. CASE /\ ~cmd.auth
                /\ Out(<<[to |-> cmd.by, form |-> "bulk"], [to |-> cmd.by, form |-> "body"]>>)
      <4>0. inbox'[c] = <<>> \o <<[to |-> j, form |-> "bulk"], [to |-> j, form |-> "body"]>>
        BY <3>3, <3>5, <3>10
      <4>1. inbox'[c] = <<[to |-> j, form |-> "bulk"], [to |-> j, form |-> "body"]>>
        BY <4>0, <3>6
      <4>2. stage'[j] = "waiting"  BY <1>1, <3>3, <3>10 DEF Active, InProgress
      <4> QED  BY <1>1, <2>3, <3>4, <4>1, <4>2 DEF Traffic
    <3> QED  BY <1>2, <3>7, <3>8, <3>9, <3>10
  <2> QED  BY <2>2, <2>3
<1> QED  BY <1>1, <1>7, <1>8, <1>10, <1>11, <1>12

LEMMA NextPreserves == RedisInv /\ [RedisNext]_redisVars => RedisInv'
<1> SUFFICES ASSUME RedisInv, [RedisNext]_redisVars PROVE RedisInv'  OBVIOUS
<1>1. ASSUME NEW k \in Calls, NEW c \in Conns, TakePooled(k, c) PROVE RedisInv'
  BY <1>1, TakePooledPreserves
<1>2. ASSUME NEW k \in Calls, NEW c \in Conns, Dial(k, c) PROVE RedisInv'
  BY <1>2, DialPreserves
<1>3. ASSUME NEW k \in Calls, DialFails(k) PROVE RedisInv'  BY <1>3, DialFailsPreserves
<1>4. ASSUME NEW k \in Calls, AuthAnswered(k) PROVE RedisInv'  BY <1>4, AuthAnsweredPreserves
<1>5. ASSUME NEW k \in Calls, Answered(k) PROVE RedisInv'  BY <1>5, AnsweredPreserves
<1>6. ASSUME NEW k \in Calls, GivesUp(k) PROVE RedisInv'  BY <1>6, GivesUpPreserves
<1>7. ASSUME NEW c \in Conns, Close(c) PROVE RedisInv'  BY <1>7, ClosePreserves
<1>8. ASSUME NEW c \in Conns, Serve(c) PROVE RedisInv'  BY <1>8, ServePreserves
<1>9. ASSUME NEW c \in Conns, PeerCloses(c) PROVE RedisInv'  BY <1>9, PeerClosesPreserves
<1>10. CASE UNCHANGED redisVars
  <2>1. UNCHANGED <<password, pool, state, peer, wire, inbox, authed, stage, held, got>>
    BY <1>10 DEF redisVars, connVars
  <2>2. Active' = Active  BY <2>1 DEF Active
  <2>3. RedisTypeOK' /\ IsFiniteSet(pool')  BY <2>1 DEF RedisInv, RedisTypeOK
  <2>4. Owned' /\ NoLeak' /\ Fresh'  BY <2>1, <2>2 DEF RedisInv, Owned, NoLeak, Fresh
  <2>5. InStep'  BY <2>1, <2>2, OthersInStep DEF InStep
  <2>6. PooledIsClean' /\ AuthComesFirst' /\ RepliesAreOwn'
    BY <2>1 DEF RedisInv, PooledIsClean, AuthComesFirst, RepliesAreOwn
  <2> QED  BY <2>3, <2>4, <2>5, <2>6 DEF RedisInv
<1> QED
  BY <1>1, <1>2, <1>3, <1>4, <1>5, <1>6, <1>7, <1>8, <1>9, <1>10 DEF RedisNext

\* The inductive invariant: a call in progress has its connection to itself,
\* with nothing on it but its own command or the lines of its own answer
\* (client.go:96-120).
THEOREM ClientInvariant == RedisSpec => []RedisInv
<1>1. RedisInit => RedisInv  BY InitEstablishes
<1>2. RedisInv /\ [RedisNext]_redisVars => RedisInv'  BY NextPreserves
<1> QED  BY <1>1, <1>2, PTL DEF RedisSpec

\* The state of the client is typed, and the pool never exceeds its size
\* (client.go:93, 207-213).
THEOREM ClientTypeCorrect == RedisSpec => []RedisTypeOK
<1>1. RedisInv => RedisTypeOK  BY DEF RedisInv
<1> QED  BY <1>1, ClientInvariant, PTL

\* Int gives no call the count of another, whatever times out, fails or
\* restarts (client.go:96-120).
THEOREM ClientRepliesAreOwn == RedisSpec => []RepliesAreOwn
<1>1. RedisInv => RepliesAreOwn  BY DEF RedisInv
<1> QED  BY <1>1, ClientInvariant, PTL

\* What put gives back to the pool is ready for the next command
\* (client.go:207-213).
THEOREM ClientPooledIsClean == RedisSpec => []PooledIsClean
<1>1. RedisInv => PooledIsClean  BY DEF RedisInv
<1> QED  BY <1>1, ClientInvariant, PTL

\* No connection leaks, and none is shared or closed in use (client.go:99-120,
\* 207-213).
THEOREM ClientConnectionsAccounted == RedisSpec => []ConnectionsAccounted
<1>1. RedisInv => ConnectionsAccounted
  <2> SUFFICES ASSUME RedisInv PROVE ConnectionsAccounted  OBVIOUS
  <2>1. \A c \in Conns : state[c] = "open" => c \in pool \cup {held[k] : k \in Active}
    BY DEF RedisInv, NoLeak
  <2>2. pool \subseteq {c \in Conns : state[c] = "open"}
    BY DEF RedisInv, RedisTypeOK, PooledIsClean
  <2>3. {held[k] : k \in Active} \subseteq {c \in Conns : state[c] = "open"}
    BY DEF RedisInv, Owned
  <2>4. {c \in Conns : state[c] = "open"} = pool \cup {held[k] : k \in Active}
    BY <2>1, <2>2, <2>3
  <2> QED  BY <2>4 DEF RedisInv, Owned, ConnectionsAccounted
<1> QED  BY <1>1, ClientInvariant, PTL

\* No command runs ahead of its connection's AUTH (client.go:179-184).
THEOREM ClientAuthComesFirst == RedisSpec => []AuthComesFirst
<1>1. RedisInv => AuthComesFirst  BY DEF RedisInv
<1> QED  BY <1>1, ClientInvariant, PTL
=============================================================================
