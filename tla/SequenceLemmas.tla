----------------------------- MODULE SequenceLemmas -----------------------------
(***************************************************************************)
(* What FlattenSeq, and the selections built on it, return and preserve:   *)
(* the facts about sequences that the proofs of the gateway's plan and of  *)
(* the dialects share.  FlattenSeq is a recursive function, so each lemma  *)
(* about it is an induction on a number of pieces; the induction is made   *)
(* over a set of naturals, by way of the least element of its complement.  *)
(***************************************************************************)
EXTENDS Subsequences, SequenceTheorems, WellFoundedInduction, TLAPS

-----------------------------------------------------------------------------
LEMMA LessRelation == \A x, y \in Nat : <<x, y>> \in OpToRel(<, Nat) <=> x < y
  BY DEF OpToRel

\* A non-empty set of naturals has a least element.
LEMMA LeastElement ==
  ASSUME NEW T, T \subseteq Nat, T # {}
  PROVE  \E n \in T : \A m \in T : n <= m
<1> DEFINE R == OpToRel(<, Nat)
<1>1. IsWellFoundedOn(R, Nat)
  BY NatLessThanWellFounded, Zenon
<1>2. \A x, y \in Nat : <<x, y>> \in R <=> x < y
  BY LessRelation
<1> HIDE DEF R
<1>3. \E x \in T : \A y \in T : ~ (<<y, x>> \in R)
  BY <1>1, WFMin
<1>4. PICK x \in T : \A y \in T : ~ (<<y, x>> \in R)
  BY <1>3
<1>5. ASSUME NEW y \in T PROVE x <= y
  <2>1. x \in Nat /\ y \in Nat
    OBVIOUS
  <2>2. ~(y < x)
    BY <1>2, <1>4, <2>1
  <2>3. QED
    BY <2>1, <2>2
<1>6. QED
  BY <1>5

LEMMA MinIsLeast ==
  ASSUME NEW T \in SUBSET Nat, T # {}
  PROVE  Min(T) \in T /\ \A m \in T : Min(T) <= m
  BY LeastElement DEF Min

\* A non-empty set of places has a last one.
LEMMA GreatestElement ==
  ASSUME NEW T, NEW n \in Nat, T \subseteq 1..n, T # {}
  PROVE  \E x \in T : \A y \in T : x >= y
<1> DEFINE D == {n - t : t \in T}
<1>1. D \subseteq Nat /\ D # {}
  <2>1. \A t \in T : n - t \in Nat
    OBVIOUS
  <2>2. QED
    BY <2>1
<1>2. PICK d \in D : \A e \in D : d <= e
  BY <1>1, LeastElement
<1>3. PICK x \in T : d = n - x
  BY <1>2
<1>4. \A y \in T : x >= y
  <2> TAKE y \in T
  <2>1. n - y \in D
    OBVIOUS
  <2>2. n - x <= n - y
    BY <1>2, <1>3, <2>1
  <2>3. x \in Nat /\ y \in Nat
    OBVIOUS
  <2>4. QED
    BY <2>2, <2>3
<1>5. QED
  BY <1>4

\* The induction, over a set: what holds of 0 and passes from each number to
\* the next holds of them all.
LEMMA NatSetInduction ==
  ASSUME NEW T, 0 \in T, \A n \in Nat : n \in T => n + 1 \in T
  PROVE  Nat \subseteq T
<1>1. SUFFICES ASSUME Nat \ T # {} PROVE FALSE
  OBVIOUS
<1>2. PICK n \in Nat \ T : \A m \in Nat \ T : n <= m
  BY <1>1, LeastElement
<1>3. n # 0 /\ n - 1 \in Nat /\ n - 1 \in T
  BY <1>2
<1>4. QED
  BY <1>2, <1>3

-----------------------------------------------------------------------------
\* The running concatenations of the first n pieces of ss.
Flattens(g, ss, n) ==
  g = [i \in 1..n |-> IF i = 1 THEN ss[i] ELSE g[i - 1] \o ss[i]]

LEMMA FlattensAt ==
  ASSUME NEW g, NEW ss, NEW n \in Nat, Flattens(g, ss, n)
  PROVE  /\ DOMAIN g = 1..n
         /\ \A i \in 1..n : g[i] = IF i = 1 THEN ss[i] ELSE g[i - 1] \o ss[i]
<1> DEFINE e(i) == IF i = 1 THEN ss[i] ELSE g[i - 1] \o ss[i]
           F == [i \in 1..n |-> e(i)]
<1>1. g = F
  BY DEF Flattens
<1>2. DOMAIN F = 1..n /\ \A i \in 1..n : F[i] = e(i)
  <2> HIDE DEF e
  <2>1. QED
    OBVIOUS
<1> HIDE DEF F
<1>3. DOMAIN g = 1..n /\ \A i \in 1..n : g[i] = e(i)
  BY <1>1, <1>2, Zenon
<1>4. QED
  BY <1>3

LEMMA FlattensExists ==
  ASSUME NEW ss, NEW n \in Nat
  PROVE  \E g : Flattens(g, ss, n)
<1> DEFINE T == {k \in Nat : \E g : Flattens(g, ss, k)}
<1>1. 0 \in T
  <2> DEFINE g == [i \in 1..0 |-> ss[i]]
  <2>1. Flattens(g, ss, 0)
    BY DEF Flattens
  <2>2. QED
    BY <2>1
<1>2. ASSUME NEW k \in Nat, k \in T PROVE k + 1 \in T
  <2>1. PICK g : Flattens(g, ss, k)
    BY <1>2
  <2> DEFINE h == [i \in 1..(k + 1) |->
                     IF i <= k THEN g[i] ELSE IF i = 1 THEN ss[i] ELSE g[i - 1] \o ss[i]]
  <2>2. ASSUME NEW i \in 1..(k + 1)
        PROVE  h[i] = IF i = 1 THEN ss[i] ELSE h[i - 1] \o ss[i]
    <3>1. i # 1 => i - 1 \in 1..k /\ h[i - 1] = g[i - 1]
      OBVIOUS
    <3>2. i <= k => g[i] = IF i = 1 THEN ss[i] ELSE g[i - 1] \o ss[i]
      BY <2>1, FlattensAt
    <3>3. QED
      BY <3>1, <3>2
  <2>3. h = [i \in 1..(k + 1) |-> IF i = 1 THEN ss[i] ELSE h[i - 1] \o ss[i]]
    BY <2>2
  <2>4. Flattens(h, ss, k + 1)
    BY <2>3 DEF Flattens
  <2>5. QED
    BY <2>4
<1>3. QED
  <2> HIDE DEF T
  <2>1. Nat \subseteq T
    BY <1>1, <1>2, NatSetInduction
  <2>2. QED
    BY <2>1 DEF T

\* FlattenSeq conforms to the equation that defines it.
LEMMA FlattenSeqDef ==
  ASSUME NEW ss, Len(ss) \in Nat
  PROVE  \E g : /\ Flattens(g, ss, Len(ss))
                /\ FlattenSeq(ss) = IF Len(ss) = 0 THEN ss ELSE g[Len(ss)]
<1> DEFINE g == CHOOSE f : f = [i \in 1..Len(ss) |-> IF i = 1 THEN ss[i] ELSE f[i - 1] \o ss[i]]
<1>1. Flattens(g, ss, Len(ss))
  BY FlattensExists DEF Flattens
<1>2. FlattenSeq(ss) = IF Len(ss) = 0 THEN ss ELSE g[Len(ss)]
  BY DEF FlattenSeq
<1>3. QED
  BY <1>1, <1>2
-----------------------------------------------------------------------------
LEMMA ToSetConcat ==
  ASSUME NEW S, NEW s \in Seq(S), NEW t \in Seq(S)
  PROVE  s \o t \in Seq(S) /\ ToSet(s \o t) = ToSet(s) \cup ToSet(t)
<1>1. Range(s \o t) = Range(s) \cup Range(t)
  BY RangeConcatenation
<1>2. \A u : ToSet(u) = Range(u)
  BY DEF ToSet, Range
<1>3. QED
  BY <1>1, <1>2

\* The elements of the first k pieces.
ElementsUpTo(ss, k) == UNION {ToSet(ss[i]) : i \in 1..k}

\* Each running concatenation is a sequence over S, of the elements of the
\* pieces so far.
LEMMA FlattensTyped ==
  ASSUME NEW S, NEW ss \in Seq(Seq(S)), NEW g, Flattens(g, ss, Len(ss))
  PROVE  \A k \in 1..Len(ss) : g[k] \in Seq(S) /\ ToSet(g[k]) = ElementsUpTo(ss, k)
<1> DEFINE U(k) == ElementsUpTo(ss, k)
           Good(k) == g[k] \in Seq(S) /\ ToSet(g[k]) = U(k)
           T == {k \in Nat : k \in 1..Len(ss) => Good(k)}
<1>1. Len(ss) \in Nat /\ \A i \in 1..Len(ss) : g[i] = IF i = 1 THEN ss[i] ELSE g[i - 1] \o ss[i]
  BY FlattensAt
<1>2. \A k \in Nat : U(k + 1) = U(k) \cup ToSet(ss[k + 1])
  <2>1. \A k \in Nat : 1..(k + 1) = 1..k \cup {k + 1}
    OBVIOUS
  <2>2. QED
    BY <2>1 DEF ElementsUpTo
<1>3. U(0) = {}
  BY DEF ElementsUpTo
<1> HIDE DEF U
<1>4. ASSUME NEW k \in Nat, k \in 1..Len(ss) => Good(k), k + 1 \in 1..Len(ss) PROVE Good(k + 1)
  <2>1. ss[k + 1] \in Seq(S)
    BY <1>4
  <2>2. CASE k = 0
    <3>1. g[k + 1] = ss[k + 1]
      BY <1>1, <1>4, <2>2
    <3>2. U(k + 1) = ToSet(ss[k + 1])
      BY <1>2, <1>3, <2>2
    <3>3. QED
      BY <2>1, <3>1, <3>2
  <2>3. CASE k # 0
    <3>1. k \in 1..Len(ss)
      <4>1. Len(ss) \in Nat /\ k + 1 \in 1..Len(ss)
        BY <1>1, <1>4
      <4>2. QED
        BY <2>3, <4>1
    <3>2. g[k + 1] = g[k] \o ss[k + 1]
      <4>1. k + 1 # 1 /\ (k + 1) - 1 = k
        BY <2>3
      <4>2. QED
        BY <1>1, <1>4, <4>1
    <3>3. g[k] \in Seq(S) /\ ToSet(g[k]) = U(k)
      BY <1>4, <3>1
    <3>4. g[k] \o ss[k + 1] \in Seq(S) /\ ToSet(g[k] \o ss[k + 1]) = ToSet(g[k]) \cup ToSet(ss[k + 1])
      BY <2>1, <3>3, ToSetConcat
    <3>5. QED
      BY <1>2, <3>2, <3>3, <3>4
  <2>4. QED
    BY <2>2, <2>3
<1>5. \A k \in Nat : k \in T => k + 1 \in T
  BY <1>4
<1>6. 0 \in T
  BY <1>1
<1> HIDE DEF T
<1>7. Nat \subseteq T
  BY <1>5, <1>6, NatSetInduction
<1>8. \A k \in 1..Len(ss) : k \in T
  BY <1>1, <1>7
<1>9. QED
  BY <1>8 DEF T, U

\* FlattenSeq keeps every element of every piece and adds none.
LEMMA FlattenSeqTyped ==
  ASSUME NEW S, NEW ss \in Seq(Seq(S))
  PROVE  /\ FlattenSeq(ss) \in Seq(S)
         /\ ToSet(FlattenSeq(ss)) = ElementsUpTo(ss, Len(ss))
<1>1. PICK g : /\ Flattens(g, ss, Len(ss))
               /\ FlattenSeq(ss) = IF Len(ss) = 0 THEN ss ELSE g[Len(ss)]
  BY FlattenSeqDef
<1>2. CASE Len(ss) = 0
  <2>1. FlattenSeq(ss) = <<>>
    BY <1>1, <1>2
  <2>2. ToSet(<<>>) = {}
    BY DEF ToSet
  <2>3. QED
    BY <1>2, <2>1, <2>2 DEF ElementsUpTo
<1>3. CASE Len(ss) # 0
  <2>1. Len(ss) \in 1..Len(ss)
    BY <1>3
  <2>2. FlattenSeq(ss) = g[Len(ss)]
    BY <1>1, <1>3
  <2>3. \A k \in 1..Len(ss) : g[k] \in Seq(S) /\ ToSet(g[k]) = ElementsUpTo(ss, k)
    BY <1>1, FlattensTyped
  <2>4. QED
    BY <2>1, <2>2, <2>3
<1>4. QED
  BY <1>2, <1>3

\* The first n pieces of ss are those of tt.
Agree(ss, tt, n) == \A i \in 1..n : ss[i] = tt[i]

\* Pieces that agree have the same running concatenations.
LEMMA FlattensAgree ==
  ASSUME NEW ss, NEW tt, NEW n \in Nat, NEW m \in Nat, NEW g, NEW h,
         Flattens(g, ss, n), Flattens(h, tt, m), n <= m, Agree(ss, tt, n)
  PROVE  \A k \in 1..n : g[k] = h[k]
<1> DEFINE T == {k \in Nat : k \in 1..n => g[k] = h[k]}
<1>1. \A i \in 1..n : g[i] = IF i = 1 THEN ss[i] ELSE g[i - 1] \o ss[i]
  BY FlattensAt
<1>2. \A i \in 1..m : h[i] = IF i = 1 THEN tt[i] ELSE h[i - 1] \o tt[i]
  BY FlattensAt
<1>3. 0 \in T
  OBVIOUS
<1>4. ASSUME NEW k \in Nat, k \in T, k + 1 \in 1..n PROVE g[k + 1] = h[k + 1]
  BY <1>1, <1>2, <1>4 DEF Agree
<1>5. \A k \in Nat : k \in T => k + 1 \in T
  BY <1>4
<1> HIDE DEF T
<1>6. Nat \subseteq T
  BY <1>3, <1>5, NatSetInduction
<1>7. QED
  BY <1>6 DEF T

LEMMA FlattenSeqEmpty ==
  ASSUME NEW ss, Len(ss) = 0
  PROVE  FlattenSeq(ss) = ss
  BY DEF FlattenSeq

\* One more piece goes to the end.
LEMMA FlattenSeqLonger ==
  ASSUME NEW ss, NEW tt, NEW n \in Nat, NEW m \in Nat, Len(ss) = n, Len(tt) = m,
         n # 0, m = n + 1, Agree(ss, tt, n)
  PROVE  FlattenSeq(tt) = FlattenSeq(ss) \o tt[m]
<1>1. m # 0 /\ m # 1 /\ m - 1 = n /\ m \in 1..m /\ n \in 1..n /\ n <= m
  OBVIOUS
<1>2. PICK h : Flattens(h, tt, m) /\ FlattenSeq(tt) = h[m]
  BY <1>1, FlattenSeqDef
<1>3. PICK g : Flattens(g, ss, n) /\ FlattenSeq(ss) = g[n]
  BY FlattenSeqDef
<1>4. h[m] = h[n] \o tt[m]
  <2>1. \A i \in 1..m : h[i] = IF i = 1 THEN tt[i] ELSE h[i - 1] \o tt[i]
    BY <1>2, FlattensAt
  <2>2. QED
    BY <1>1, <2>1
<1>5. \A k \in 1..n : g[k] = h[k]
  BY <1>1, <1>2, <1>3, FlattensAgree
<1>6. QED
  BY <1>1, <1>2, <1>3, <1>4, <1>5

LEMMA FlattenSeqSingle ==
  ASSUME NEW ss, Len(ss) = 1
  PROVE  FlattenSeq(ss) = ss[1]
<1>1. PICK g : Flattens(g, ss, 1) /\ FlattenSeq(ss) = g[1]
  <2>1. Len(ss) \in Nat /\ Len(ss) # 0
    OBVIOUS
  <2>2. \E g : Flattens(g, ss, Len(ss)) /\ FlattenSeq(ss) = g[Len(ss)]
    BY <2>1, FlattenSeqDef
  <2>3. QED
    BY <2>2
<1>2. \A i \in 1..1 : g[i] = IF i = 1 THEN ss[i] ELSE g[i - 1] \o ss[i]
  BY <1>1, FlattensAt
<1>3. QED
  BY <1>1, <1>2

LEMMA FlattenSeqAppend ==
  ASSUME NEW S, NEW ss \in Seq(Seq(S)), NEW s \in Seq(S)
  PROVE  FlattenSeq(Append(ss, s)) = FlattenSeq(ss) \o s
<1> DEFINE tt == Append(ss, s)
           n == Len(ss)
           m == n + 1
<1>1. /\ n \in Nat /\ m \in Nat /\ m = n + 1 /\ Len(tt) = m /\ tt[m] = s
      /\ Agree(ss, tt, n)
  BY DEF Agree
<1> HIDE DEF tt, m
<1>2. CASE n = 0
  <2>1. FlattenSeq(tt) = s
    BY <1>1, <1>2, FlattenSeqSingle
  <2>2. ss = <<>> /\ FlattenSeq(ss) = ss /\ <<>> \o s = s
    BY <1>2, FlattenSeqEmpty
  <2>3. QED
    BY <2>1, <2>2 DEF tt
<1>3. CASE n # 0
  <2> HIDE DEF n
  <2>1. Len(ss) = n
    BY DEF n
  <2>2. FlattenSeq(tt) = FlattenSeq(ss) \o tt[m]
    BY <1>1, <1>3, <2>1, FlattenSeqLonger
  <2>3. QED
    BY <1>1, <2>2 DEF tt
<1>4. QED
  BY <1>2, <1>3

LEMMA ConcatEnd ==
  ASSUME NEW S, NEW s \in Seq(S), NEW t \in Seq(S), t # <<>>
  PROVE  /\ s \o t \in Seq(S)
         /\ s \o t # <<>>
         /\ (s \o t)[Len(s \o t)] = t[Len(t)]
  OBVIOUS

\* Empty pieces at the end add nothing: the result ends where the last piece
\* with an element in it does.
LEMMA FlattenSeqLast ==
  ASSUME NEW S, NEW ss \in Seq(Seq(S)), NEW k \in 1..Len(ss),
         ss[k] # <<>>, \A j \in (k + 1)..Len(ss) : ss[j] = <<>>
  PROVE  FlattenSeq(ss) # <<>> /\ Last(FlattenSeq(ss)) = Last(ss[k])
<1>1. PICK g : /\ Flattens(g, ss, Len(ss))
               /\ FlattenSeq(ss) = IF Len(ss) = 0 THEN ss ELSE g[Len(ss)]
  BY FlattenSeqDef
<1>2. \A i \in 1..Len(ss) : g[i] = IF i = 1 THEN ss[i] ELSE g[i - 1] \o ss[i]
  BY <1>1, FlattensAt
<1>3. \A i \in 1..Len(ss) : g[i] \in Seq(S) /\ ToSet(g[i]) = ElementsUpTo(ss, i)
  BY <1>1, FlattensTyped
<1> DEFINE Good(i) == g[i] \in Seq(S) /\ g[i] # <<>> /\ g[i][Len(g[i])] = ss[k][Len(ss[k])]
           T == {d \in Nat : k + d \in 1..Len(ss) => Good(k + d)}
<1>4. Len(ss) \in Nat /\ k \in Nat /\ k # 0 /\ k <= Len(ss)
  OBVIOUS
<1>5. ss[k] \in Seq(S)
  OBVIOUS
<1>6. Good(k)
  <2>1. CASE k = 1
    BY <1>2, <1>5, <2>1
  <2>2. CASE k # 1
    <3>1. k \in 1..Len(ss) /\ k - 1 \in 1..Len(ss)
      BY <1>4, <2>2
    <3>2. g[k] = g[k - 1] \o ss[k]
      BY <1>2, <2>2, <3>1
    <3>3. g[k - 1] \in Seq(S)
      BY <1>3, <3>1
    <3> DEFINE a == g[k - 1]
               b == ss[k]
    <3>4. a \in Seq(S) /\ b \in Seq(S) /\ b # <<>>
      BY <1>5, <3>3
    <3> HIDE DEF a, b
    <3>5. a \o b \in Seq(S) /\ a \o b # <<>> /\ (a \o b)[Len(a \o b)] = b[Len(b)]
      BY <3>4, ConcatEnd
    <3>6. QED
      BY <3>2, <3>5 DEF a, b
  <2>3. QED
    BY <2>1, <2>2
<1>7. ASSUME NEW d \in Nat, d \in T, k + (d + 1) \in 1..Len(ss) PROVE Good(k + (d + 1))
  <2>1. k + d \in 1..Len(ss) /\ k + (d + 1) # 1 /\ k + (d + 1) - 1 = k + d
        /\ k + (d + 1) \in (k + 1)..Len(ss)
    BY <1>4, <1>7
  <2>2. Good(k + d)
    BY <1>7, <2>1
  <2>3. g[k + (d + 1)] = g[k + d] \o ss[k + (d + 1)]
    <3> DEFINE i == k + (d + 1)
    <3>1. i \in 1..Len(ss) /\ i # 1 /\ i - 1 = k + d
      BY <1>7, <2>1
    <3> HIDE DEF i
    <3>2. g[i] = g[i - 1] \o ss[i]
      BY <1>2, <3>1
    <3>3. QED
      BY <3>1, <3>2 DEF i
  <2>4. ss[k + (d + 1)] = <<>>
    BY <2>1
  <2>5. g[k + d] \o <<>> = g[k + d]
    BY <2>2
  <2>6. QED
    BY <2>2, <2>3, <2>4, <2>5
<1> HIDE DEF Good
<1>8. 0 \in T
  BY <1>4, <1>6
<1>9. \A d \in Nat : d \in T => d + 1 \in T
  BY <1>7
<1>10. Len(ss) - k \in T
  <2> HIDE DEF T
  <2>1. Nat \subseteq T
    BY <1>8, <1>9, NatSetInduction
  <2>2. QED
    BY <1>4, <2>1
<1>11. Good(Len(ss))
  BY <1>4, <1>10
<1>12. QED
  BY <1>1, <1>4, <1>5, <1>11 DEF Good, Last

-----------------------------------------------------------------------------
LEMMA Singleton ==
  ASSUME NEW S, NEW x \in S
  PROVE  /\ <<x>> \in Seq(S)
         /\ <<x>> # <<>>
         /\ ToSet(<<x>>) = {x}
         /\ Last(<<x>>) = x
  BY DEF ToSet, Last

\* The pieces SubseqAt flattens.
Picks(s, I) == [i \in DOMAIN s |-> IF i \in I THEN <<s[i]>> ELSE <<>>]

LEMMA PicksTyped ==
  ASSUME NEW S, NEW s \in Seq(S), NEW I
  PROVE  /\ Picks(s, I) \in Seq(Seq(S))
         /\ Len(Picks(s, I)) = Len(s)
         /\ \A i \in DOMAIN s : Picks(s, I)[i] = IF i \in I THEN <<s[i]>> ELSE <<>>
         /\ SubseqAt(s, I) = FlattenSeq(Picks(s, I))
<1> DEFINE p(i) == IF i \in I THEN <<s[i]>> ELSE <<>>
           ss == [i \in 1..Len(s) |-> p(i)]
<1>1. Len(s) \in Nat /\ DOMAIN s = 1..Len(s)
  OBVIOUS
<1>2. Picks(s, I) = ss
  BY <1>1 DEF Picks
<1>3. \A i \in 1..Len(s) : p(i) \in Seq(S)
  BY Singleton
<1>4. \A i \in 1..Len(s) : ss[i] = p(i)
  OBVIOUS
<1>5. ss \in Seq(Seq(S)) /\ Len(ss) = Len(s)
  <2> HIDE DEF p
  <2>1. QED
    BY <1>1, <1>3
<1>6. SubseqAt(s, I) = FlattenSeq(Picks(s, I))
  BY DEF SubseqAt, Picks
<1> HIDE DEF ss
<1>7. QED
  BY <1>1, <1>2, <1>4, <1>5, <1>6

\* SubseqAt returns exactly the elements at the positions asked for.
LEMMA SubseqAtTyped ==
  ASSUME NEW S, NEW s \in Seq(S), NEW I
  PROVE  /\ SubseqAt(s, I) \in Seq(S)
         /\ ToSet(SubseqAt(s, I)) = {s[i] : i \in DOMAIN s \cap I}
<1> DEFINE ss == Picks(s, I)
<1>1. ss \in Seq(Seq(S)) /\ Len(ss) = Len(s)
  BY PicksTyped
<1>2. \A i \in DOMAIN s : ss[i] = IF i \in I THEN <<s[i]>> ELSE <<>>
  BY PicksTyped
<1>3. SubseqAt(s, I) = FlattenSeq(ss)
  BY PicksTyped
<1> HIDE DEF ss
<1>4. FlattenSeq(ss) \in Seq(S) /\ ToSet(FlattenSeq(ss)) = ElementsUpTo(ss, Len(ss))
  BY <1>1, FlattenSeqTyped
<1>5. \A i \in DOMAIN s : ToSet(ss[i]) = IF i \in I THEN {s[i]} ELSE {}
  <2>1. ToSet(<<>>) = {}
    BY DEF ToSet
  <2>2. \A i \in DOMAIN s : ToSet(<<s[i]>>) = {s[i]}
    BY Singleton
  <2>3. QED
    BY <1>2, <2>1, <2>2
<1>6. ElementsUpTo(ss, Len(ss)) = {s[i] : i \in DOMAIN s \cap I}
  <2>1. DOMAIN s = 1..Len(ss)
    BY <1>1
  <2>2. ElementsUpTo(ss, Len(ss)) = UNION {IF i \in I THEN {s[i]} ELSE {} : i \in DOMAIN s}
    BY <1>5, <2>1 DEF ElementsUpTo
  <2>3. QED
    BY <2>2
<1>7. QED
  BY <1>3, <1>4, <1>6

\* And its last element is the one at the last of them.
LEMMA SubseqAtLast ==
  ASSUME NEW S, NEW s \in Seq(S), NEW I, NEW k \in DOMAIN s \cap I,
         \A j \in DOMAIN s \cap I : j <= k
  PROVE  SubseqAt(s, I) # <<>> /\ Last(SubseqAt(s, I)) = s[k]
<1> DEFINE ss == Picks(s, I)
<1>1. ss \in Seq(Seq(S)) /\ Len(ss) = Len(s)
  BY PicksTyped
<1>2. \A i \in DOMAIN s : ss[i] = IF i \in I THEN <<s[i]>> ELSE <<>>
  BY PicksTyped
<1>3. SubseqAt(s, I) = FlattenSeq(ss)
  BY PicksTyped
<1> HIDE DEF ss
<1>4. DOMAIN s = 1..Len(ss) /\ Len(ss) \in Nat /\ k \in 1..Len(ss)
  BY <1>1
<1>5. ss[k] = <<s[k]>>
  BY <1>2
<1>6. ss[k] # <<>> /\ Last(ss[k]) = s[k]
  BY <1>5, Singleton
<1>7. \A j \in (k + 1)..Len(ss) : ss[j] = <<>>
  <2>1. ASSUME NEW j \in (k + 1)..Len(ss) PROVE j \in DOMAIN s /\ j \notin I
    BY <1>4, <2>1
  <2>2. QED
    BY <1>2, <2>1
<1>8. QED
  BY <1>1, <1>3, <1>4, <1>6, <1>7, FlattenSeqLast

-----------------------------------------------------------------------------
\* An element-wise change of a sequence, and of the pieces it is made of.
Mapped(f, s) == [k \in DOMAIN s |-> f[s[k]]]

MapsTo(tt, f, ss) == \A i \in 1..Len(ss) : tt[i] = Mapped(f, ss[i])

LEMMA ConcatAt ==
  ASSUME NEW S, NEW s \in Seq(S), NEW t \in Seq(S)
  PROVE  /\ s \o t \in Seq(S) /\ Len(s \o t) = Len(s) + Len(t)
         /\ Len(s) \in Nat /\ Len(t) \in Nat
         /\ \A k \in 1..Len(s) : (s \o t)[k] = s[k]
         /\ \A k \in 1..Len(t) : (s \o t)[Len(s) + k] = t[k]
  OBVIOUS

\* Named, so that the provers can take them as they are.
IsMap(f, S, T)  == f \in [S -> T]
IsPieces(S, ss) == ss \in Seq(Seq(S))

LEMMA MappedConcat ==
  ASSUME NEW S, NEW T, NEW f, IsMap(f, S, T), NEW s \in Seq(S), NEW t \in Seq(S)
  PROVE  Mapped(f, s \o t) = Mapped(f, s) \o Mapped(f, t)
<1> DEFINE u == s \o t
           v == Mapped(f, s)
           w == Mapped(f, t)
<1>1. /\ v \in Seq(T) /\ Len(v) = Len(s) /\ \A k \in 1..Len(s) : v[k] = f[s[k]]
      /\ w \in Seq(T) /\ Len(w) = Len(t) /\ \A k \in 1..Len(t) : w[k] = f[t[k]]
  BY DEF Mapped, IsMap
<1>2. /\ u \in Seq(S) /\ Len(u) = Len(s) + Len(t) /\ Len(s) \in Nat /\ Len(t) \in Nat
      /\ \A k \in 1..Len(s) : u[k] = s[k]
      /\ \A k \in 1..Len(t) : u[Len(s) + k] = t[k]
  BY ConcatAt
<1>3. /\ Mapped(f, u) \in Seq(T) /\ Len(Mapped(f, u)) = Len(u)
      /\ \A k \in 1..Len(u) : Mapped(f, u)[k] = f[u[k]]
  BY <1>2 DEF Mapped, IsMap
<1> HIDE DEF u, v, w
<1>4. /\ v \o w \in Seq(T) /\ Len(v \o w) = Len(v) + Len(w)
      /\ \A k \in 1..Len(v) : (v \o w)[k] = v[k]
      /\ \A k \in 1..Len(w) : (v \o w)[Len(v) + k] = w[k]
  <2>1. v \in Seq(T) /\ w \in Seq(T)
    BY <1>1
  <2> QED
    BY <2>1, ConcatAt
<1>5. \A k \in 1..Len(u) : Mapped(f, u)[k] = (v \o w)[k]
  <2> TAKE k \in 1..Len(u)
  <2>1. CASE k <= Len(s)
    <3>1. k \in 1..Len(s)
      BY <1>2, <2>1
    <3> QED
      BY <1>1, <1>2, <1>3, <1>4, <3>1
  <2>2. CASE ~(k <= Len(s))
    <3>1. PICK j \in 1..Len(t) : k = Len(s) + j
      <4>1. k - Len(s) \in 1..Len(t) /\ k = Len(s) + (k - Len(s))
        BY <1>2, <2>2
      <4> QED
        BY <4>1
    <3>2. Mapped(f, u)[k] = f[t[j]]
      BY <1>2, <1>3, <3>1
    <3>3. (v \o w)[k] = w[j]
      BY <1>1, <1>4, <3>1
    <3> QED
      BY <1>1, <3>2, <3>3
  <2> QED
    BY <2>1, <2>2
<1>6. Mapped(f, u) = v \o w
  BY <1>1, <1>2, <1>3, <1>4, <1>5
<1> QED
  BY <1>6 DEF u, v, w

LEMMA FlattensMaps ==
  ASSUME NEW S, NEW T, NEW f, NEW ss, NEW tt, IsMap(f, S, T), IsPieces(S, ss),
         NEW g, NEW h, NEW n \in Nat, n = Len(ss),
         Flattens(g, ss, n), Flattens(h, tt, n), MapsTo(tt, f, ss)
  PROVE  \A k \in 1..n : h[k] = Mapped(f, g[k])
<1> DEFINE N == {k \in Nat : k \in 1..n => h[k] = Mapped(f, g[k])}
<1>1. \A i \in 1..n : g[i] = IF i = 1 THEN ss[i] ELSE g[i - 1] \o ss[i]
  BY FlattensAt
<1>2. \A i \in 1..n : h[i] = IF i = 1 THEN tt[i] ELSE h[i - 1] \o tt[i]
  BY FlattensAt
<1>3. \A k \in 1..n : g[k] \in Seq(S)
  BY FlattensTyped DEF IsPieces
<1>4. ASSUME NEW k \in Nat, k \in N, k + 1 \in 1..n PROVE h[k + 1] = Mapped(f, g[k + 1])
  <2>1. ss[k + 1] \in Seq(S) /\ tt[k + 1] = Mapped(f, ss[k + 1])
    BY <1>4 DEF MapsTo, IsPieces
  <2>2. CASE k = 0
    BY <1>1, <1>2, <1>4, <2>1, <2>2
  <2>3. CASE k # 0
    <3>1. k \in 1..n /\ k + 1 # 1 /\ (k + 1) - 1 = k
      BY <1>4, <2>3
    <3>2. g[k + 1] = g[k] \o ss[k + 1] /\ h[k + 1] = h[k] \o tt[k + 1]
      BY <1>1, <1>2, <1>4, <3>1
    <3>3. h[k] = Mapped(f, g[k]) /\ g[k] \in Seq(S)
      BY <1>3, <1>4, <3>1
    <3> DEFINE a == g[k]
               b == ss[k + 1]
    <3>4. a \in Seq(S) /\ b \in Seq(S)
      BY <2>1, <3>3
    <3> HIDE DEF a, b
    <3>5. Mapped(f, a \o b) = Mapped(f, a) \o Mapped(f, b)
      BY <3>4, MappedConcat
    <3> QED
      BY <2>1, <3>2, <3>3, <3>5 DEF a, b
  <2> QED
    BY <2>2, <2>3
<1>5. \A k \in Nat : k \in N => k + 1 \in N
  BY <1>4
<1>6. 0 \in N
  OBVIOUS
<1> HIDE DEF N
<1>7. Nat \subseteq N
  BY <1>5, <1>6, NatSetInduction
<1> QED
  BY <1>7 DEF N

\* Changing every element of every piece changes every element of the whole.
LEMMA FlattenSeqMaps ==
  ASSUME NEW S, NEW T, NEW f \in [S -> T], NEW ss \in Seq(Seq(S)), NEW tt \in Seq(Seq(T)),
         Len(tt) = Len(ss), MapsTo(tt, f, ss)
  PROVE  FlattenSeq(tt) = Mapped(f, FlattenSeq(ss))
<1> DEFINE n == Len(ss)
<1>1. PICK g : Flattens(g, ss, n) /\ FlattenSeq(ss) = IF n = 0 THEN ss ELSE g[n]
  BY FlattenSeqDef
<1>2. PICK h : Flattens(h, tt, n) /\ FlattenSeq(tt) = IF n = 0 THEN tt ELSE h[n]
  BY FlattenSeqDef
<1>3. n \in Nat
  OBVIOUS
<1>4. CASE n = 0
  <2>1. ss = <<>> /\ tt = <<>>
    BY <1>4
  <2>2. Mapped(f, <<>>) = <<>>
    BY DEF Mapped
  <2> QED
    BY <1>1, <1>2, <1>4, <2>1, <2>2
<1>5. CASE n # 0
  <2>1. n \in 1..n
    BY <1>3, <1>5
  <2>2. \A k \in 1..n : h[k] = Mapped(f, g[k])
    <3> HIDE DEF n
    <3>1. n = Len(ss)
      BY DEF n
    <3>2. IsMap(f, S, T) /\ IsPieces(S, ss)
      BY DEF IsMap, IsPieces
    <3> QED
      BY <1>1, <1>2, <1>3, <3>1, <3>2, FlattensMaps
  <2> QED
    BY <1>1, <1>2, <1>5, <2>1, <2>2
<1> QED
  BY <1>4, <1>5

-----------------------------------------------------------------------------
\* No element, no sequence.
LEMMA EmptyHasNoElement ==
  ASSUME NEW S, NEW s \in Seq(S)
  PROVE  /\ s = <<>> <=> ToSet(s) = {}
         /\ s = <<>> <=> Len(s) = 0
         /\ ToSet(s) \subseteq S
         /\ DOMAIN s = 1..Len(s) /\ Len(s) \in Nat
         /\ \A x \in ToSet(s) : \E i \in DOMAIN s : s[i] = x
         /\ \A i \in DOMAIN s : s[i] \in ToSet(s)
<1>1. DOMAIN s = 1..Len(s) /\ Len(s) \in Nat
  OBVIOUS
<1>2. s = <<>> <=> Len(s) = 0
  OBVIOUS
<1>3. \A i \in DOMAIN s : s[i] \in ToSet(s)
  BY DEF ToSet
<1>4. \A x \in ToSet(s) : \E i \in DOMAIN s : s[i] = x
  BY DEF ToSet
<1>5. \A i \in DOMAIN s : s[i] \in S
  OBVIOUS
<1>6. ToSet(s) \subseteq S
  BY <1>4, <1>5
<1>7. ASSUME s # <<>> PROVE ToSet(s) # {}
  <2>1. 1 \in DOMAIN s
    BY <1>1, <1>2, <1>7
  <2> QED
    BY <2>1, <1>3
<1>8. ASSUME s = <<>> PROVE ToSet(s) = {}
  <2>1. DOMAIN s = {}
    BY <1>1, <1>2, <1>8
  <2> QED
    BY <2>1, <1>4
<1> QED
  BY <1>1, <1>2, <1>3, <1>4, <1>6, <1>7, <1>8
-----------------------------------------------------------------------------
\* Every element stands before every later one, in the sense of a set of pairs.
Ascending(s, B) == \A i, j \in DOMAIN s : i < j => <<s[i], s[j]>> \in B

\* Every element of one set stands before every element of another.
AllBefore(X, Y, B) == \A x \in X, y \in Y : <<x, y>> \in B

LEMMA ConcatAscending ==
  ASSUME NEW S, NEW B, NEW s \in Seq(S), NEW t \in Seq(S), Ascending(s, B), Ascending(t, B),
         AllBefore(ToSet(s), ToSet(t), B)
  PROVE  Ascending(s \o t, B)
<1> DEFINE u == s \o t
<1>1. /\ u \in Seq(S) /\ Len(u) = Len(s) + Len(t) /\ Len(s) \in Nat /\ Len(t) \in Nat
      /\ \A k \in 1..Len(s) : u[k] = s[k]
      /\ \A k \in 1..Len(t) : u[Len(s) + k] = t[k]
  BY ConcatAt
<1>2. DOMAIN s = 1..Len(s) /\ DOMAIN t = 1..Len(t) /\ DOMAIN u = 1..Len(u)
  BY <1>1
<1>3. /\ \A k \in DOMAIN s : s[k] \in ToSet(s)
      /\ \A k \in DOMAIN t : t[k] \in ToSet(t)
  BY DEF ToSet
<1> HIDE DEF u
<1>4. ASSUME NEW i \in DOMAIN u, NEW j \in DOMAIN u, i < j PROVE <<u[i], u[j]>> \in B
  <2>1. CASE j <= Len(s)
    <3>1. i \in DOMAIN s /\ j \in DOMAIN s
      BY <1>1, <1>2, <1>4, <2>1
    <3> QED
      BY <1>1, <1>2, <1>4, <3>1 DEF Ascending
  <2>2. CASE ~(j <= Len(s))
    <3>1. j - Len(s) \in DOMAIN t /\ u[j] = t[j - Len(s)]
      <4>1. j - Len(s) \in 1..Len(t) /\ Len(s) + (j - Len(s)) = j
        BY <1>1, <1>2, <2>2
      <4> QED
        BY <1>1, <1>2, <4>1
    <3>2. CASE i <= Len(s)
      <4>1. i \in DOMAIN s
        BY <1>1, <1>2, <3>2
      <4> QED
        BY <1>1, <1>2, <1>3, <3>1, <4>1 DEF AllBefore
    <3>3. CASE ~(i <= Len(s))
      <4>1. i - Len(s) \in DOMAIN t /\ u[i] = t[i - Len(s)]
        <5>1. i - Len(s) \in 1..Len(t) /\ Len(s) + (i - Len(s)) = i
          BY <1>1, <1>2, <3>3
        <5> QED
          BY <1>1, <1>2, <5>1
      <4>2. i - Len(s) < j - Len(s)
        BY <1>1, <1>2, <1>4
      <4> QED
        BY <3>1, <4>1, <4>2 DEF Ascending
    <3> QED
      BY <3>2, <3>3
  <2> QED
    BY <2>1, <2>2
<1> QED
  BY <1>4 DEF Ascending, u

\* Pieces in order, one before the other.
InOrder(ss, B) ==
  /\ \A i \in DOMAIN ss : Ascending(ss[i], B)
  /\ \A i, j \in DOMAIN ss : i < j => AllBefore(ToSet(ss[i]), ToSet(ss[j]), B)

LEMMA FlattenSeqAscending ==
  ASSUME NEW S, NEW B, NEW ss, IsPieces(S, ss), InOrder(ss, B)
  PROVE  Ascending(FlattenSeq(ss), B)
<1> DEFINE n == Len(ss)
<1>0. ss \in Seq(Seq(S)) /\ n \in Nat /\ DOMAIN ss = 1..n
  BY DEF IsPieces
<1>1. PICK g : Flattens(g, ss, n) /\ FlattenSeq(ss) = IF n = 0 THEN ss ELSE g[n]
  BY <1>0, FlattenSeqDef
<1>2. \A i \in 1..n : g[i] = IF i = 1 THEN ss[i] ELSE g[i - 1] \o ss[i]
  BY <1>0, <1>1, FlattensAt
<1>3. \A k \in 1..n : g[k] \in Seq(S) /\ ToSet(g[k]) = ElementsUpTo(ss, k)
  BY <1>0, <1>1, FlattensTyped
<1>4. \A i \in 1..n : ss[i] \in Seq(S)
  BY <1>0
<1> HIDE DEF n
<1> DEFINE T == {k \in Nat : k \in 1..n => Ascending(g[k], B)}
<1>5. ASSUME NEW k \in Nat, k \in T, k + 1 \in 1..n PROVE Ascending(g[k + 1], B)
  <2>1. CASE k = 0
    BY <1>0, <1>2, <1>5, <2>1 DEF InOrder
  <2>2. CASE k # 0
    <3>1. k \in 1..n /\ k + 1 # 1 /\ (k + 1) - 1 = k
      BY <1>0, <1>5, <2>2
    <3>2. g[k + 1] = g[k] \o ss[k + 1]
      <4> DEFINE i == k + 1
      <4>1. i \in 1..n /\ i # 1 /\ i - 1 = k
        BY <1>5, <3>1
      <4> HIDE DEF i
      <4>2. g[i] = g[i - 1] \o ss[i]
        BY <1>2, <4>1
      <4> QED
        BY <4>1, <4>2 DEF i
    <3>3. AllBefore(ToSet(g[k]), ToSet(ss[k + 1]), B)
      <4>1. \A i \in 1..k : AllBefore(ToSet(ss[i]), ToSet(ss[k + 1]), B)
        <5> TAKE i \in 1..k
        <5>1. i \in DOMAIN ss /\ k + 1 \in DOMAIN ss /\ i < k + 1
          BY <1>0, <1>5, <3>1
        <5> QED
          BY <5>1 DEF InOrder
      <4>2. ToSet(g[k]) = UNION {ToSet(ss[i]) : i \in 1..k}
        BY <1>3, <3>1 DEF ElementsUpTo
      <4> QED
        BY <4>1, <4>2 DEF AllBefore
    <3>4. Ascending(g[k], B) /\ Ascending(ss[k + 1], B)
      BY <1>0, <1>5, <3>1 DEF InOrder
    <3>5. g[k] \in Seq(S) /\ ss[k + 1] \in Seq(S)
      BY <1>3, <1>4, <1>5, <3>1
    <3> DEFINE a == g[k]
               b == ss[k + 1]
    <3>6. a \in Seq(S) /\ b \in Seq(S) /\ Ascending(a, B) /\ Ascending(b, B) /\ AllBefore(ToSet(a), ToSet(b), B)
      BY <3>3, <3>4, <3>5
    <3> HIDE DEF a, b
    <3>7. Ascending(a \o b, B)
      BY <3>6, ConcatAscending
    <3> QED
      BY <3>2, <3>7 DEF a, b
  <2> QED
    BY <2>1, <2>2
<1>6. \A k \in Nat : k \in T => k + 1 \in T
  BY <1>5
<1>7. 0 \in T
  OBVIOUS
<1> HIDE DEF T
<1>8. Nat \subseteq T
  BY <1>6, <1>7, NatSetInduction
<1>9. CASE n = 0
  <2>1. ss = <<>>
    BY <1>0, <1>9
  <2>2. DOMAIN ss = {}
    BY <2>1
  <2> QED
    BY <1>1, <1>9, <2>2 DEF Ascending
<1>10. CASE n # 0
  <2>1. n \in 1..n /\ n \in T
    BY <1>0, <1>8, <1>10
  <2> QED
    BY <1>1, <1>10, <2>1 DEF T
<1> QED
  BY <1>9, <1>10

\* A selection keeps the order of what it selects.
LEMMA SubseqAtAscending ==
  ASSUME NEW S, NEW B, NEW s \in Seq(S), NEW I,
         \A i, j \in DOMAIN s : i \in I /\ j \in I /\ i < j => <<s[i], s[j]>> \in B
  PROVE  Ascending(SubseqAt(s, I), B)
<1> DEFINE ss == Picks(s, I)
<1>1. ss \in Seq(Seq(S)) /\ Len(ss) = Len(s)
  BY PicksTyped
<1>2. \A i \in DOMAIN s : ss[i] = IF i \in I THEN <<s[i]>> ELSE <<>>
  BY PicksTyped
<1>3. SubseqAt(s, I) = FlattenSeq(ss)
  BY PicksTyped
<1> HIDE DEF ss
<1>4. DOMAIN ss = DOMAIN s
  BY <1>1
<1>5. \A i \in DOMAIN s : ToSet(ss[i]) = IF i \in I THEN {s[i]} ELSE {}
  <2>1. ToSet(<<>>) = {}
    BY DEF ToSet
  <2>2. \A i \in DOMAIN s : ToSet(<<s[i]>>) = {s[i]}
    BY Singleton
  <2> QED
    BY <1>2, <2>1, <2>2
<1>6. \A i \in DOMAIN s : Ascending(ss[i], B)
  <2>1. Ascending(<<>>, B)
    BY DEF Ascending
  <2>2. \A x : Ascending(<<x>>, B)
    <3>1. \A x : DOMAIN <<x>> = {1}
      OBVIOUS
    <3> QED
      BY <3>1 DEF Ascending
  <2> QED
    BY <1>2, <2>1, <2>2
<1>7. \A i, j \in DOMAIN s : i < j => AllBefore(ToSet(ss[i]), ToSet(ss[j]), B)
  BY <1>5 DEF AllBefore
<1>8. InOrder(ss, B)
  BY <1>4, <1>6, <1>7 DEF InOrder
<1> QED
  BY <1>1, <1>3, <1>8, FlattenSeqAscending DEF IsPieces

\* A selection from a changed sequence is the selection, changed.
LEMMA SubseqAtMaps ==
  ASSUME NEW S, NEW T, NEW f, IsMap(f, S, T), NEW s \in Seq(S), NEW I
  PROVE  SubseqAt(Mapped(f, s), I) = Mapped(f, SubseqAt(s, I))
<1> DEFINE t == Mapped(f, s)
           ss == Picks(s, I)
           tt == Picks(t, I)
<1>1. t \in Seq(T) /\ Len(t) = Len(s) /\ DOMAIN t = DOMAIN s /\ \A k \in DOMAIN s : t[k] = f[s[k]]
  BY DEF Mapped, IsMap
<1> HIDE DEF t
<1>2. /\ ss \in Seq(Seq(S)) /\ Len(ss) = Len(s) /\ SubseqAt(s, I) = FlattenSeq(ss)
      /\ \A i \in DOMAIN s : ss[i] = IF i \in I THEN <<s[i]>> ELSE <<>>
  BY PicksTyped
<1>3. /\ tt \in Seq(Seq(T)) /\ Len(tt) = Len(t) /\ SubseqAt(t, I) = FlattenSeq(tt)
      /\ \A i \in DOMAIN t : tt[i] = IF i \in I THEN <<t[i]>> ELSE <<>>
  BY <1>1, PicksTyped
<1> HIDE DEF ss, tt
<1>4. MapsTo(tt, f, ss)
  <2>1. Mapped(f, <<>>) = <<>>
    BY DEF Mapped
  <2>2. \A x \in S : Mapped(f, <<x>>) = <<f[x]>>
    <3> TAKE x \in S
    <3>1. DOMAIN <<x>> = {1} /\ DOMAIN <<f[x]>> = {1}
      OBVIOUS
    <3>2. <<f[x]>> = [k \in {1} |-> f[x]]
      OBVIOUS
    <3>3. Mapped(f, <<x>>) = [k \in {1} |-> f[x]]
      BY <3>1 DEF Mapped
    <3> QED
      BY <3>2, <3>3
  <2>3. ASSUME NEW i \in 1..Len(ss) PROVE tt[i] = Mapped(f, ss[i])
    <3>0. i \in DOMAIN s
      BY <1>2
    <3>1. i \in DOMAIN s /\ i \in DOMAIN t /\ s[i] \in S /\ t[i] = f[s[i]]
      BY <1>1, <3>0
    <3>2. ss[i] = IF i \in I THEN <<s[i]>> ELSE <<>>
      BY <1>2, <3>1
    <3>3. tt[i] = IF i \in I THEN <<t[i]>> ELSE <<>>
      BY <1>3, <3>1
    <3> HIDE DEF Mapped
    <3> QED
      BY <2>1, <2>2, <3>1, <3>2, <3>3
  <2> QED
    BY <2>3 DEF MapsTo
<1>5. FlattenSeq(tt) = Mapped(f, FlattenSeq(ss))
  <2>1. f \in [S -> T] /\ Len(tt) = Len(ss)
    BY <1>1, <1>2, <1>3 DEF IsMap
  <2> QED
    BY <1>2, <1>3, <1>4, <2>1, FlattenSeqMaps
<1> QED
  BY <1>2, <1>3, <1>5 DEF t
=============================================================================
