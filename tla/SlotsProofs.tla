----------------------------- MODULE SlotsProofs -----------------------------
(***************************************************************************)
(* Slots for every set of apps, every limits and any number of callers.    *)
(* The counters are compared with the closures really held, so the         *)
(* inductive invariant carries, beside the two properties, that only       *)
(* finitely many closures were ever issued: without it Cardinality says    *)
(* nothing.  The guaranteed share follows from CeilingsHold by numbering   *)
(* each app's closures below its ceiling: what the other apps hold is then *)
(* mapped, one to one, into the places their ceilings allow.               *)
(***************************************************************************)
EXTENDS Slots, FiniteSetTheorems, FunctionTheorems, TLAPS

IInv ==
  /\ TypeOK
  /\ IsFiniteSet(issued)
  /\ CountersAreExact
  /\ CeilingsHold

\* The closures held by anyone, or by one app, are finitely many.
LEMMA HeldFinite ==
  ASSUME TypeOK, IsFiniteSet(issued)
  PROVE  /\ IsFiniteSet(Held)
         /\ \A a \in Apps : IsFiniteSet(HeldBy(a))
<1>1. IsFiniteSet(Held)
  BY FS_Subset DEF Held
<1>2. \A a \in Apps : HeldBy(a) \subseteq Held
  BY DEF HeldBy
<1>3. QED
  BY <1>1, <1>2, FS_Subset

\* New: no slot is held and every counter is zero.
LEMMA InitEstablishes == Init => IInv
<1> SUFFICES ASSUME Init PROVE IInv
  OBVIOUS
<1>1. Held = {} /\ \A a \in Apps : HeldBy(a) = {}
  BY DEF Init, Held, HeldBy
<1>2. IsFiniteSet({}) /\ Cardinality({}) = 0
  BY FS_EmptySet
<1>3. TypeOK
  BY LimitsAssumption DEF Init, TypeOK, NoAnswer
<1>4. CountersAreExact
  BY <1>1, <1>2 DEF Init, CountersAreExact
<1>5. CeilingsHold
  <2>1. global \in Nat /\ \A a \in Apps : ceilings[a] \in Nat
    BY <1>3, LimitsAssumption DEF TypeOK
  <2>2. Cardinality(Held) = 0 /\ \A a \in Apps : Cardinality(HeldBy(a)) = 0
    BY <1>1, <1>2
  <2>3. QED
    BY <2>1, <2>2 DEF CeilingsHold
<1>6. QED
  BY <1>2, <1>3, <1>4, <1>5 DEF Init, IInv

\* TryAcquire that grants adds one fresh closure to the slots held, of its app.
LEMMA GrantAdds ==
  ASSUME IInv, NEW a \in Apps, NEW id \in Ids, Grant(a, id)
  PROVE  /\ IsFiniteSet(issued')
         /\ Cardinality(Held') = Cardinality(Held) + 1
         /\ Cardinality(HeldBy(a)') = Cardinality(HeldBy(a)) + 1
         /\ \A b \in Apps \ {a} : HeldBy(b)' = HeldBy(b)
<1> DEFINE c == [id |-> id, app |-> a]
<1>1. c \notin issued /\ c \notin fired
  BY DEF Grant, IInv, TypeOK
<1>2. Held' = Held \cup {c}
  BY <1>1 DEF Grant, Held
<1>3. HeldBy(a)' = HeldBy(a) \cup {c}
  BY <1>2 DEF HeldBy
<1>4. \A b \in Apps \ {a} : HeldBy(b)' = HeldBy(b)
  BY <1>2 DEF HeldBy
<1>5. c \notin Held /\ c \notin HeldBy(a)
  BY <1>1 DEF Held, HeldBy
<1>6. IsFiniteSet(Held) /\ IsFiniteSet(HeldBy(a))
  BY HeldFinite DEF IInv
<1>7. Cardinality(Held \cup {c}) = Cardinality(Held) + 1
  BY <1>5, <1>6, FS_AddElement
<1>8. Cardinality(HeldBy(a) \cup {c}) = Cardinality(HeldBy(a)) + 1
  BY <1>5, <1>6, FS_AddElement
<1>9. IsFiniteSet(issued')
  BY FS_AddElement DEF Grant, IInv
<1>10. QED
  BY <1>2, <1>3, <1>4, <1>7, <1>8, <1>9

\* The first run of a closure removes it from the slots held, and only it.
LEMMA ReleaseRemoves ==
  ASSUME IInv, NEW c \in Held, ReleaseOnce(c)
  PROVE  /\ c.app \in Apps
         /\ Cardinality(Held) \in Nat /\ Cardinality(Held) > 0
         /\ Cardinality(HeldBy(c.app)) \in Nat /\ Cardinality(HeldBy(c.app)) > 0
         /\ Cardinality(Held') = Cardinality(Held) - 1
         /\ Cardinality(HeldBy(c.app)') = Cardinality(HeldBy(c.app)) - 1
         /\ \A b \in Apps \ {c.app} : HeldBy(b)' = HeldBy(b)
<1> DEFINE a == c.app
<1>1. a \in Apps
  BY DEF Held, IInv, TypeOK, Closure
<1>2. Held' = Held \ {c}
  BY DEF ReleaseOnce, Held
<1>3. HeldBy(a)' = HeldBy(a) \ {c}
  BY <1>2 DEF HeldBy
<1>4. \A b \in Apps \ {a} : HeldBy(b)' = HeldBy(b)
  BY <1>2 DEF HeldBy
<1>5. c \in HeldBy(a)
  BY DEF HeldBy
<1>6. IsFiniteSet(Held) /\ IsFiniteSet(HeldBy(a))
  BY <1>1, HeldFinite DEF IInv
<1>7. Cardinality(Held \ {c}) = Cardinality(Held) - 1
  BY <1>6, FS_RemoveElement
<1>8. Cardinality(HeldBy(a) \ {c}) = Cardinality(HeldBy(a)) - 1
  BY <1>5, <1>6, FS_RemoveElement
<1>9. Cardinality(Held) \in Nat /\ Cardinality(HeldBy(a)) \in Nat
  BY <1>6, FS_CardinalityType
<1>10. IsFiniteSet(Held \ {c}) /\ IsFiniteSet(HeldBy(a) \ {c})
  BY <1>6, FS_RemoveElement
<1>11. Cardinality(Held \ {c}) \in Nat /\ Cardinality(HeldBy(a) \ {c}) \in Nat
  BY <1>10, FS_CardinalityType
<1>12. Cardinality(Held) > 0 /\ Cardinality(HeldBy(a)) > 0
  BY <1>7, <1>8, <1>9, <1>11
<1>13. QED
  BY <1>1, <1>2, <1>3, <1>4, <1>7, <1>8, <1>9, <1>12

LEMMA GrantPreserves ==
  ASSUME IInv, NEW a \in Apps, NEW id \in Ids, Grant(a, id)
  PROVE  IInv'
<1>1. /\ IsFiniteSet(issued')
      /\ Cardinality(Held') = Cardinality(Held) + 1
      /\ Cardinality(HeldBy(a)') = Cardinality(HeldBy(a)) + 1
      /\ \A b \in Apps \ {a} : HeldBy(b)' = HeldBy(b)
  BY GrantAdds
<1>2. /\ TypeOK /\ CountersAreExact /\ CeilingsHold
      /\ global \in Nat /\ \A b \in Apps : ceilings[b] \in Nat
  BY LimitsAssumption DEF IInv, TypeOK
<1>3. TypeOK'
  <2>1. inFlight' \in [Apps -> Nat] /\ total' \in Nat
    BY <1>2 DEF Grant, TypeOK
  <2>2. issued' \subseteq Closure /\ fired' \subseteq issued'
    BY <1>2 DEF Grant, TypeOK, Closure
  <2>3. answer' \in [ok : BOOLEAN, ceiling : Nat]
    BY DEF Grant, NoAnswer
  <2>4. QED
    BY <1>2, <2>1, <2>2, <2>3 DEF Grant, TypeOK, limits
<1>4. CountersAreExact'
  <2>1. total' = Cardinality(Held')
    BY <1>1, <1>2 DEF Grant, CountersAreExact
  <2>2. inFlight'[a] = Cardinality(HeldBy(a)')
    BY <1>1, <1>2 DEF Grant, CountersAreExact, TypeOK
  <2>3. ASSUME NEW b \in Apps \ {a} PROVE inFlight'[b] = Cardinality(HeldBy(b)')
    BY <1>1, <1>2 DEF Grant, CountersAreExact, TypeOK
  <2>4. QED
    BY <2>1, <2>2, <2>3 DEF CountersAreExact
<1>5. CeilingsHold'
  <2>1. global' > 0 => Cardinality(Held') <= global'
    BY <1>1, <1>2 DEF Grant, GlobalCapRefuses, CountersAreExact, TypeOK, limits
  <2>2. ceilings'[a] > 0 => Cardinality(HeldBy(a)') <= ceilings'[a]
    BY <1>1, <1>2 DEF Grant, OwnCeilingRefuses, CountersAreExact, TypeOK, limits
  <2>3. ASSUME NEW b \in Apps \ {a}
        PROVE  ceilings'[b] > 0 => Cardinality(HeldBy(b)') <= ceilings'[b]
    BY <1>1, <1>2 DEF Grant, CeilingsHold, limits
  <2>4. QED
    BY <2>1, <2>2, <2>3 DEF CeilingsHold
<1>6. QED
  BY <1>1, <1>3, <1>4, <1>5 DEF IInv

LEMMA ReleasePreserves ==
  ASSUME IInv, NEW c \in Held, ReleaseOnce(c)
  PROVE  IInv'
<1> DEFINE a == c.app
<1>1. /\ a \in Apps
      /\ Cardinality(Held) \in Nat /\ Cardinality(Held) > 0
      /\ Cardinality(HeldBy(a)) \in Nat /\ Cardinality(HeldBy(a)) > 0
      /\ Cardinality(Held') = Cardinality(Held) - 1
      /\ Cardinality(HeldBy(a)') = Cardinality(HeldBy(a)) - 1
      /\ \A b \in Apps \ {a} : HeldBy(b)' = HeldBy(b)
  BY ReleaseRemoves
<1>2. /\ TypeOK /\ CountersAreExact /\ CeilingsHold /\ IsFiniteSet(issued)
      /\ global \in Nat /\ \A b \in Apps : ceilings[b] \in Nat
  BY LimitsAssumption DEF IInv, TypeOK
<1> HIDE DEF a
<1>3. inFlight' = [inFlight EXCEPT ![a] = Cardinality(HeldBy(a)')]
  <2>1. inFlight[a] = Cardinality(HeldBy(a))
    BY <1>1, <1>2 DEF CountersAreExact
  <2>2. inFlight' = [inFlight EXCEPT ![a] = IF inFlight[a] - 1 <= 0 THEN 0 ELSE inFlight[a] - 1]
    BY <1>1, <1>2 DEF ReleaseOnce, TypeOK, a
  <2>3. (IF inFlight[a] - 1 <= 0 THEN 0 ELSE inFlight[a] - 1) = Cardinality(HeldBy(a)')
    BY <1>1, <2>1
  <2>4. QED
    BY <2>2, <2>3
<1>4. TypeOK'
  <2>1. Cardinality(HeldBy(a)') \in Nat
    BY <1>1
  <2>2. inFlight' \in [Apps -> Nat]
    BY <1>2, <1>3, <2>1 DEF TypeOK
  <2>3. total' \in Nat
    BY <1>1, <1>2 DEF ReleaseOnce, CountersAreExact
  <2>4. fired' \subseteq issued'
    BY <1>2 DEF ReleaseOnce, Held, TypeOK
  <2>5. QED
    BY <1>2, <2>2, <2>3, <2>4 DEF ReleaseOnce, TypeOK, limits
<1>5. CountersAreExact'
  <2>1. total' = Cardinality(Held')
    BY <1>1, <1>2 DEF ReleaseOnce, CountersAreExact
  <2>2. inFlight'[a] = Cardinality(HeldBy(a)')
    BY <1>1, <1>2, <1>3 DEF TypeOK
  <2>3. ASSUME NEW b \in Apps \ {a} PROVE inFlight'[b] = Cardinality(HeldBy(b)')
    BY <1>1, <1>2, <1>3 DEF TypeOK, CountersAreExact
  <2>4. QED
    BY <2>1, <2>2, <2>3 DEF CountersAreExact
<1>6. CeilingsHold'
  <2>1. global' > 0 => Cardinality(Held') <= global'
    BY <1>1, <1>2 DEF ReleaseOnce, CeilingsHold, limits
  <2>2. ASSUME NEW b \in Apps
        PROVE  ceilings'[b] > 0 => Cardinality(HeldBy(b)') <= ceilings'[b]
    BY <1>1, <1>2 DEF ReleaseOnce, CeilingsHold, limits
  <2>3. QED
    BY <2>1, <2>2 DEF CeilingsHold
<1>7. IsFiniteSet(issued')
  BY <1>2 DEF ReleaseOnce
<1>8. QED
  BY <1>4, <1>5, <1>6, <1>7 DEF IInv

\* A step that leaves the counters, the limits and the closures alone keeps
\* the invariant as long as the answer stays well typed.
LEMMA AnswerOnlyPreserves ==
  ASSUME IInv, UNCHANGED <<limits, inFlight, total, issued, fired>>,
         answer' \in [ok : BOOLEAN, ceiling : Nat]
  PROVE  IInv'
<1>1. Held' = Held /\ \A a \in Apps : HeldBy(a)' = HeldBy(a)
  BY DEF Held, HeldBy
<1>2. TypeOK'
  BY DEF IInv, TypeOK, limits
<1>3. CountersAreExact' /\ CeilingsHold'
  BY <1>1 DEF IInv, CountersAreExact, CeilingsHold, limits
<1>4. QED
  BY <1>2, <1>3 DEF IInv

LEMMA NextPreserves == IInv /\ [Next]_vars => IInv'
<1> SUFFICES ASSUME IInv, [Next]_vars PROVE IInv'
  OBVIOUS
<1>1. ASSUME NEW a \in Apps, NEW id \in Ids, Grant(a, id) PROVE IInv'
  BY <1>1, GrantPreserves
<1>2. ASSUME NEW a \in Apps, Refuse(a) PROVE IInv'
  <2>1. global \in Nat /\ ceilings[a] \in Nat
    BY LimitsAssumption DEF IInv, TypeOK
  <2>2. answer' \in [ok : BOOLEAN, ceiling : Nat]
    <3>1. \/ answer' = [ok |-> FALSE, ceiling |-> ceilings[a]]
          \/ answer' = [ok |-> FALSE, ceiling |-> global]
      BY <1>2 DEF Refuse
    <3>2. \A n \in Nat : [ok |-> FALSE, ceiling |-> n] \in [ok : BOOLEAN, ceiling : Nat]
      OBVIOUS
    <3>3. QED
      BY <2>1, <3>1, <3>2
  <2>3. QED
    BY <1>2, <2>2, AnswerOnlyPreserves DEF Refuse
<1>3. ASSUME NEW c \in issued, Release(c) PROVE IInv'
  <2>1. CASE c \notin fired /\ ReleaseOnce(c)
    BY <2>1, ReleasePreserves DEF Held
  <2>2. CASE UNCHANGED vars
    BY <2>2, AnswerOnlyPreserves DEF vars, limits, IInv, TypeOK
  <2>3. QED
    BY <1>3, <2>1, <2>2 DEF Release
<1>4. CASE UNCHANGED vars
  BY <1>4, AnswerOnlyPreserves DEF vars, limits, IInv, TypeOK
<1>5. QED
  BY <1>1, <1>2, <1>3, <1>4 DEF Next, TryAcquire

\* The inductive invariant holds throughout.
THEOREM SlotsInvariant == Spec => []IInv
<1>1. QED
  BY InitEstablishes, NextPreserves, PTL DEF Spec

\* The limiter's variables keep their types: in particular no counter ever
\* goes negative, however often callers run their release closures.
THEOREM SlotsTypeCorrect == Spec => []TypeOK
<1>1. IInv => TypeOK
  BY DEF IInv
<1>2. QED
  BY <1>1, SlotsInvariant, PTL

\* The counters of limiter.go never drift from the slots really held.
THEOREM SlotsCountersAreExact == Spec => []CountersAreExact
<1>1. IInv => CountersAreExact
  BY DEF IInv
<1>2. QED
  BY <1>1, SlotsInvariant, PTL

\* No app ever holds more slots than its ceiling, nor all of them more than
\* the global cap, for every configuration and every interleaving.
THEOREM SlotsCeilingsHold == Spec => []CeilingsHold
<1>1. IInv => CeilingsHold
  BY DEF IInv
<1>2. QED
  BY <1>1, SlotsInvariant, PTL

-----------------------------------------------------------------------------
\* Finitely many apps at finite ceilings have finitely many places.
LEMMA PlacesFinite ==
  ASSUME TypeOK, NEW bs \in SUBSET Apps
  PROVE  IsFiniteSet(Places(bs))
<1> DEFINE Row(b) == {b} \X (1..ceilings[b])
           rows == {Row(b) : b \in bs}
<1>1. IsFiniteSet(bs)
  BY LimitsAssumption, FS_Subset
<1>2. IsFiniteSet(rows)
  <2> DEFINE f == [b \in bs |-> Row(b)]
  <2>1. f \in Surjection(bs, rows)
    BY DEF Surjection
  <2> HIDE DEF f, rows
  <2> QED
    BY <1>1, <2>1, FS_Surjection
<1>3. ASSUME NEW b \in bs PROVE IsFiniteSet(Row(b))
  <2>1. IsFiniteSet(1..ceilings[b])
    <3>1. ceilings[b] \in Int /\ 1 \in Int
      <4>1. b \in Apps /\ ceilings \in [Apps -> Limits] /\ Limits \subseteq Nat
        BY LimitsAssumption DEF TypeOK
      <4>2. ceilings[b] \in Limits
        BY <4>1
      <4>3. \A n \in Limits : n \in Int
        BY <4>1
      <4> QED
        BY <4>2, <4>3
    <3> QED
      BY <3>1, FS_Interval
  <2>2. IsFiniteSet({b})
    BY FS_Singleton
  <2> QED
    BY <2>1, <2>2, FS_Product
<1>4. \A T \in rows : IsFiniteSet(T)
  BY <1>3
<1>5. IsFiniteSet(UNION rows)
  <2> HIDE DEF rows
  <2> QED
    BY <1>2, <1>4, FS_UNION
<1> QED
  BY <1>5 DEF Places

\* An app's closures can be numbered within its ceiling.
LEMMA Numbering ==
  ASSUME IInv, NEW b \in Apps, ceilings[b] > 0
  PROVE  \E n \in [HeldBy(b) -> 1..ceilings[b]] : \A c, e \in HeldBy(b) : n[c] = n[e] => c = e
<1> DEFINE H == HeldBy(b)
           k == Cardinality(H)
<1>1. IsFiniteSet(H)
  BY HeldFinite DEF IInv
<1>2. k \in Nat /\ k <= ceilings[b] /\ ceilings[b] \in Nat
  BY <1>1, FS_CardinalityType, LimitsAssumption DEF IInv, CeilingsHold, TypeOK
<1> HIDE DEF H
<1>3. \E n : n \in Bijection(H, 1..k)
  <2>1. ExistsBijection(1..k, H)
    BY <1>1, FS_CardinalityType
  <2>2. ExistsBijection(H, 1..k)
    BY <2>1, Fun_ExistsBijSymmetric
  <2> QED
    BY <2>2 DEF ExistsBijection
<1>4. PICK n : n \in Bijection(H, 1..k)
  BY <1>3
<1>5. n \in [H -> 1..k] /\ \A c, e \in H : n[c] = n[e] => c = e
  BY <1>4 DEF Bijection, Injection, IsInjective
<1>6. n \in [H -> 1..ceilings[b]]
  BY <1>2, <1>5
<1> QED
  BY <1>5, <1>6 DEF H

\* What the others hold fits in their places.
LEMMA OthersFit ==
  ASSUME IInv, NEW a \in Apps, \A b \in Apps \ {a} : ceilings[b] > 0
  PROVE  /\ IsFiniteSet(Held \ HeldBy(a))
         /\ Cardinality(Held \ HeldBy(a)) <= Cardinality(Places(Apps \ {a}))
<1> DEFINE bs == Apps \ {a}
           O  == Held \ HeldBy(a)
           Fine(b, n) == /\ n \in [HeldBy(b) -> 1..ceilings[b]]
                         /\ \A c, e \in HeldBy(b) : n[c] = n[e] => c = e
           g == [b \in bs |-> CHOOSE n : Fine(b, n)]
           f == [c \in O |-> <<c.app, g[c.app][c]>>]
<1>1. \A c \in O : c.app \in bs /\ c \in HeldBy(c.app)
  BY DEF IInv, TypeOK, Held, HeldBy, Closure
<1>2. \A b \in bs : Fine(b, g[b])
  <2> TAKE b \in bs
  <2>1. \E n : Fine(b, n)
    BY Numbering
  <2> HIDE DEF Fine
  <2> QED
    BY <2>1
<1> HIDE DEF g
<1>3. \A c \in O : f[c] \in Places(bs)
  <2> TAKE c \in O
  <2> DEFINE b == c.app
  <2>1. b \in bs /\ c \in HeldBy(b) /\ g[b] \in [HeldBy(b) -> 1..ceilings[b]]
    BY <1>1, <1>2
  <2>2. g[b][c] \in 1..ceilings[b] /\ f[c] = <<b, g[b][c]>>
    BY <2>1
  <2> HIDE DEF b, f, bs
  <2> QED
    BY <2>1, <2>2 DEF Places
<1>4. ASSUME NEW c \in O, NEW e \in O, f[c] = f[e] PROVE c = e
  <2>1. f[c] = <<c.app, g[c.app][c]>> /\ f[e] = <<e.app, g[e.app][e]>>
    OBVIOUS
  <2> HIDE DEF f
  <2>2. <<c.app, g[c.app][c]>> = <<e.app, g[e.app][e]>>
    BY <1>4, <2>1, Zenon
  <2>3. c.app = e.app /\ g[c.app][c] = g[e.app][e]
    <3>1. \A x, y, z, w : <<x, y>> = <<z, w>> => x = z /\ y = w
      OBVIOUS
    <3> QED
      BY <2>2, <3>1, Zenon
  <2>4. g[c.app][c] = g[c.app][e]
    BY <2>3, Zenon
  <2> QED
    BY <1>1, <1>2, <2>3, <2>4
<1>5. f \in [O -> Places(bs)] /\ \A c, e \in DOMAIN f : f[c] = f[e] => c = e
  <2>1. DOMAIN f = O /\ f \in [O -> Places(bs)]
    BY <1>3
  <2> HIDE DEF f, O
  <2>2. \A c, e \in O : f[c] = f[e] => c = e
    BY <1>4, Zenon
  <2> QED
    BY <2>1, <2>2, Zenon
<1>6. IsFiniteSet(Places(bs))
  BY PlacesFinite DEF IInv
<1> HIDE DEF f, O, bs
<1>7. f \in Injection(O, Places(bs))
  BY <1>5 DEF Injection, IsInjective
<1>8. IsFiniteSet(O) /\ Cardinality(O) <= Cardinality(Places(bs))
  BY <1>6, <1>7, FS_Injection
<1> QED
  BY <1>8 DEF O, bs

\* Whatever the other apps do, the global cap turns an app away only while it
\* holds its share (limiter.go:6-13).
THEOREM SlotsGuaranteedShare == Spec => []GuaranteedShare
<1>1. IInv => GuaranteedShare
  <2> SUFFICES ASSUME IInv, NEW a \in Apps, \A b \in Apps \ {a} : ceilings[b] > 0,
                      GlobalCapRefuses
               PROVE  Cardinality(HeldBy(a)) >= Share(a)
    BY DEF GuaranteedShare
  <2> DEFINE O == Held \ HeldBy(a)
             H == HeldBy(a)
             P == Places(Apps \ {a})
  <2>1. IsFiniteSet(O) /\ Cardinality(O) <= Cardinality(P)
    BY OthersFit
  <2>2. IsFiniteSet(H) /\ IsFiniteSet(P)
    BY HeldFinite, PlacesFinite DEF IInv
  <2>3. Held = O \cup H /\ O \cap H = {}
    BY DEF HeldBy
  <2>4. total = Cardinality(Held) /\ total >= global /\ global \in Nat
    BY LimitsAssumption DEF IInv, CountersAreExact, GlobalCapRefuses, TypeOK
  <2> HIDE DEF O, H, P
  <2>5. Cardinality(O \cup H) = Cardinality(O) + Cardinality(H) - Cardinality(O \cap H)
    BY <2>1, <2>2, FS_Union
  <2>6. Cardinality(O) \in Nat /\ Cardinality(H) \in Nat /\ Cardinality(P) \in Nat
    BY <2>1, <2>2, FS_CardinalityType
  <2>7. Cardinality({}) = 0
    BY FS_EmptySet
  <2>8. total = Cardinality(O) + Cardinality(H) - 0
    BY <2>3, <2>4, <2>5, <2>7
  <2>9. Cardinality(H) >= global - Cardinality(P)
    BY <2>1, <2>4, <2>6, <2>8
  <2> QED
    BY <2>9 DEF H, P, Share
<1> QED
  BY <1>1, SlotsInvariant, PTL
=============================================================================
