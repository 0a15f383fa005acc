-------------------------- MODULE ConversationProofs --------------------------
(***************************************************************************)
(* What a conversation keeps for any functions, any number of calls in a   *)
(* turn and any length: the gateway takes its own answers back, each tool  *)
(* result reaches the call it answers in every dialect, nothing said is    *)
(* lost or doubled, and no refusal is priced.                              *)
(***************************************************************************)
EXTENDS Conversation, SequenceLemmas

Roles   == {"system", "user", "assistant", "tool"}
CallRec == [id : Place, name : Names, args : {"object", "broken"}]
Msg     == [role : Roles, text : Int, calls : Seq(CallRec), answers : Place \cup {NoId}]

\* The i-th message of a transcript: a turn's calls have ids of their own, new
\* or minted; whatever anyone else says has a text and no call.
WellFormed(m, i) ==
  /\ m.role # "assistant" => m.text = i /\ m.calls = <<>>
  /\ m.role = "assistant" => m.text \in {0, i} \/ (m.text = -1 /\ m.calls # <<>>)
  /\ m.role = "tool" => m.answers # NoId
  /\ \A k \in DOMAIN m.calls : m.calls[k].id \in {Minted(k), <<i, k>>}

Shape ==
  /\ transcript \in Seq(Msg)
  /\ meant \in Seq(Place \cup {NoId})
  /\ Len(meant) = Len(transcript)
  /\ \A i \in DOMAIN transcript : WellFormed(transcript[i], i)

\* The i-th message of h answers the k-th call of its t-th, and no call came in
\* between: an id that is used again is used by the call itself, or earlier.
AnswersCall(h, i, t, k) ==
  /\ t \in 1..(i - 1) /\ k \in DOMAIN h[t].calls
  /\ h[i].role = "tool" /\ h[i].answers = h[t].calls[k].id
  /\ \A j \in (t + 1)..(i - 1) : h[j].calls = <<>>

ResultsAnswer ==
  \A i \in DOMAIN meant : meant[i] # NoId =>
    \E t, k \in Nat : meant[i] = <<t, k>> /\ AnswersCall(transcript, i, t, k)

IInv == Shape /\ ResultsAnswer /\ OnlyBillableIsPriced

-----------------------------------------------------------------------------
LEMMA ShapeLengths ==
  ASSUME Shape
  PROVE  /\ Len(transcript) \in Nat
         /\ DOMAIN transcript = 1..Len(transcript)
         /\ DOMAIN meant = 1..Len(transcript)
         /\ \A i \in DOMAIN transcript : transcript[i] \in Msg
  BY DEF Shape

LEMMA PlacesAreNot ==
  ASSUME NEW p \in Place
  PROVE  p # NoId
<1>1. PICK a \in Nat, b \in Nat : p = <<a, b>>
  BY DEF Place
<1>2. Len(<<a, b>>) = 2 /\ Len(NoId) = 0
  BY DEF NoId
<1> QED
  BY <1>1, <1>2

LEMMA CallsTyped ==
  ASSUME NEW m \in Msg, NEW k \in DOMAIN m.calls
  PROVE  k \in Nat /\ m.calls[k] \in CallRec /\ m.calls[k].id \in Place
<1> DEFINE cs == m.calls
<1>1. cs \in Seq(CallRec)
  BY DEF Msg
<1> HIDE DEF cs
<1>2. k \in DOMAIN cs
  BY DEF cs
<1>3. k \in Nat /\ cs[k] \in CallRec
  BY <1>1, <1>2
<1>4. cs[k].id \in Place
  BY <1>3 DEF CallRec
<1> QED
  BY <1>3, <1>4 DEF cs

\* One more message, and what it answers.
LEMMA SayKeeps ==
  ASSUME Shape, ResultsAnswer, NEW m \in Msg, NEW place \in Place \cup {NoId},
         Say(m, place), WellFormed(m, Len(transcript) + 1),
         place # NoId =>
           \E t \in 1..Len(transcript), k \in Nat :
             /\ place = <<t, k>> /\ k \in DOMAIN transcript[t].calls
             /\ m.role = "tool" /\ m.answers = transcript[t].calls[k].id
             /\ \A j \in (t + 1)..Len(transcript) : transcript[j].calls = <<>>
  PROVE  Shape' /\ ResultsAnswer'
<1> DEFINE n == Len(transcript)
<1>1. n \in Nat /\ DOMAIN transcript = 1..n /\ DOMAIN meant = 1..n /\ Len(meant) = n
  BY ShapeLengths DEF Shape
<1>2. transcript' = Append(transcript, m) /\ meant' = Append(meant, place)
  BY DEF Say
<1>3. transcript \in Seq(Msg) /\ meant \in Seq(Place \cup {NoId})
  BY DEF Shape
<1>4. /\ transcript' \in Seq(Msg) /\ Len(transcript') = n + 1
      /\ transcript'[n + 1] = m /\ \A i \in 1..n : transcript'[i] = transcript[i]
  BY <1>2, <1>3
<1>5. /\ meant' \in Seq(Place \cup {NoId}) /\ Len(meant') = n + 1
      /\ meant'[n + 1] = place /\ \A i \in 1..n : meant'[i] = meant[i]
  BY <1>1, <1>2, <1>3
<1>6. DOMAIN transcript' = 1..(n + 1) /\ DOMAIN meant' = 1..(n + 1)
  BY <1>4, <1>5
<1> HIDE DEF n
<1>7. Shape'
  <2>1. \A i \in 1..n : WellFormed(transcript[i], i)
    BY <1>1 DEF Shape
  <2>2. \A i \in 1..(n + 1) : WellFormed(transcript'[i], i)
    <3> TAKE i \in 1..(n + 1)
    <3>1. CASE i = n + 1
      BY <1>4, <3>1 DEF n
    <3>2. CASE i # n + 1
      <4>1. i \in 1..n
        BY <1>1, <3>2
      <4> QED
        BY <1>4, <2>1, <4>1
    <3> QED
      BY <3>1, <3>2
  <2> QED
    BY <1>4, <1>5, <1>6, <2>2 DEF Shape
<1>8. ResultsAnswer'
  <2> SUFFICES ASSUME NEW i \in 1..(n + 1), meant'[i] # NoId
               PROVE  \E t, k \in Nat : meant'[i] = <<t, k>> /\ AnswersCall(transcript', i, t, k)
    BY <1>6 DEF ResultsAnswer, AnswersCall
  <2>1. CASE i = n + 1
    <3>1. place # NoId
      BY <1>5, <2>1
    <3>2. PICK t \in 1..n, k \in Nat :
             /\ place = <<t, k>> /\ k \in DOMAIN transcript[t].calls
             /\ m.role = "tool" /\ m.answers = transcript[t].calls[k].id
             /\ \A j \in (t + 1)..n : transcript[j].calls = <<>>
      BY <3>1 DEF n
    <3>3. i - 1 = n /\ t \in Nat
      BY <1>1, <2>1
    <3>4. \A j \in (t + 1)..n : transcript'[j].calls = <<>>
      <4> TAKE j \in (t + 1)..n
      <4>1. j \in 1..n
        BY <1>1
      <4> QED
        BY <1>4, <3>2, <4>1
    <3>5. AnswersCall(transcript', i, t, k)
      BY <1>4, <2>1, <3>2, <3>3, <3>4 DEF AnswersCall
    <3> QED
      BY <1>5, <2>1, <3>2, <3>3, <3>5
  <2>2. CASE i # n + 1
    <3>1. i \in 1..n
      BY <1>1, <2>2
    <3>2. PICK t \in Nat, k \in Nat : meant[i] = <<t, k>> /\ AnswersCall(transcript, i, t, k)
      BY <1>1, <1>5, <3>1 DEF ResultsAnswer
    <3>3. t \in 1..n /\ \A j \in (t + 1)..(i - 1) : j \in 1..n
      BY <1>1, <3>1, <3>2 DEF AnswersCall
    <3>4. AnswersCall(transcript', i, t, k)
      BY <1>4, <3>1, <3>2, <3>3 DEF AnswersCall
    <3> QED
      BY <1>5, <3>1, <3>2, <3>4
  <2> QED
    BY <2>1, <2>2
<1> QED
  BY <1>7, <1>8

LEMMA AskKeeps ==
  ASSUME Shape, ResultsAnswer, NEW role \in {"system", "user"}, Ask(role)
  PROVE  Shape' /\ ResultsAnswer'
<1> DEFINE m == Message(role, Len(transcript) + 1, <<>>, NoId)
<1>1. Say(m, NoId)
  BY DEF Ask
<1>2. /\ m.role = role /\ m.text = Len(transcript) + 1 /\ m.calls = <<>>
      /\ m \in Msg
  BY ShapeLengths DEF Message, Msg, Roles
<1>3. DOMAIN m.calls = {}
  BY <1>2
<1> HIDE DEF m
<1>4. WellFormed(m, Len(transcript) + 1)
  BY <1>2, <1>3 DEF WellFormed
<1> QED
  BY <1>1, <1>2, <1>4, SayKeeps

\* The turn a result belongs to is the last one: nothing after it calls.
LEMMA TurnIsLast ==
  ASSUME Shape, Turn # 0
  PROVE  /\ Turn \in 1..Len(transcript)
         /\ \A j \in (Turn + 1)..Len(transcript) : transcript[j].calls = <<>>
<1> DEFINE turns == {i \in DOMAIN transcript : transcript[i].role = "assistant"}
<1>1. turns \subseteq 1..Len(transcript) /\ Len(transcript) \in Nat
  BY ShapeLengths
<1>2. Turn = IF turns = {} THEN 0 ELSE CHOOSE i \in turns : \A j \in turns : j <= i
  BY DEF Turn
<1>3. turns # {}
  BY <1>2
<1>4. \E i \in turns : \A j \in turns : i >= j
  <2> HIDE DEF turns
  <2> QED
    BY <1>1, <1>3, GreatestElement
<1>5. \E i \in turns : \A j \in turns : j <= i
  BY <1>1, <1>4
<1>6. Turn \in turns /\ \A j \in turns : j <= Turn
  BY <1>2, <1>3, <1>5
<1>7. ASSUME NEW j \in (Turn + 1)..Len(transcript) PROVE transcript[j].calls = <<>>
  <2>1. j \in 1..Len(transcript) /\ ~(j <= Turn)
    BY <1>1, <1>6
  <2>2. transcript[j].role # "assistant"
    BY <1>6, <2>1, ShapeLengths
  <2> QED
    BY <2>1, <2>2, ShapeLengths DEF Shape, WellFormed
<1> QED
  BY <1>1, <1>6, <1>7

LEMMA ReplyKeeps ==
  ASSUME Shape, ResultsAnswer, NEW place \in Pending, Reply(place)
  PROVE  Shape' /\ ResultsAnswer'
<1>1. Turn # 0 /\ \E k \in DOMAIN transcript[Turn].calls : place = <<Turn, k>>
  BY DEF Pending
<1>2. PICK k \in DOMAIN transcript[Turn].calls : place = <<Turn, k>>
  BY <1>1
<1> DEFINE t == Turn
           c == transcript[t].calls[k]
           m == Message("tool", Len(transcript) + 1, <<>>, c.id)
<1>3. t \in 1..Len(transcript) /\ \A j \in (t + 1)..Len(transcript) : transcript[j].calls = <<>>
  BY <1>1, TurnIsLast
<1>4. Say(m, place)
  BY <1>2 DEF Reply
<1> HIDE DEF t
<1>5. k \in DOMAIN transcript[t].calls /\ transcript[t] \in Msg
  BY <1>2, <1>3, ShapeLengths DEF t
<1>6. k \in Nat /\ c \in CallRec /\ c.id \in Place /\ t \in Nat
  BY <1>3, <1>5, CallsTyped, ShapeLengths
<1>7. c.id # NoId
  BY <1>6, PlacesAreNot
<1> HIDE DEF c
<1>8. /\ m.role = "tool" /\ m.text = Len(transcript) + 1 /\ m.calls = <<>> /\ m.answers = c.id
      /\ m \in Msg
  BY <1>6, ShapeLengths DEF Message, Msg, Roles
<1>9. DOMAIN m.calls = {}
  BY <1>8
<1> HIDE DEF m
<1>10. WellFormed(m, Len(transcript) + 1)
  BY <1>7, <1>8, <1>9 DEF WellFormed
<1>11. place = <<t, k>> /\ place \in Place
  BY <1>2, <1>6 DEF Place, t
<1>12. m.answers = transcript[t].calls[k].id
  BY <1>8 DEF c
<1> QED
  BY <1>3, <1>4, <1>5, <1>6, <1>8, <1>10, <1>11, <1>12, SayKeeps

-----------------------------------------------------------------------------
\* How an exchange may have gone: only a whole response has a body to read.
LEMMA ExchangeCases ==
  ASSUME NEW d, NEW x \in Exchanges(d)
  PROVE  /\ x.got \in {"nothing", "part", "all"}
         /\ x.deadline \in BOOLEAN
         /\ x.got = "all" => ~x.deadline
         /\ x.json => x.got = "all" /\ x.status = 200 /\ x.body \in Bodies(d)
<1> DEFINE E1 == {Exchange("nothing", dl, 0, FALSE, NoBody) : dl \in BOOLEAN}
           E2 == {Exchange("part", dl, 200, FALSE, NoBody) : dl \in BOOLEAN}
           E3 == {Exchange("all", FALSE, s, FALSE, NoBody) : s \in {200, 401, 403, 429, 500}}
           E4 == {Exchange("all", FALSE, 200, TRUE, b) : b \in Bodies(d)}
<1>1. x \in E1 \/ x \in E2 \/ x \in E3 \/ x \in E4
  BY Zenon DEF Exchanges
<1>2. CASE x \in E1
  <2>1. PICK dl \in BOOLEAN : x = Exchange("nothing", dl, 0, FALSE, NoBody)
    BY <1>2
  <2> QED
    BY <2>1 DEF Exchange
<1>3. CASE x \in E2
  <2>1. PICK dl \in BOOLEAN : x = Exchange("part", dl, 200, FALSE, NoBody)
    BY <1>3
  <2> QED
    BY <2>1 DEF Exchange
<1>4. CASE x \in E3
  <2>1. PICK s \in {200, 401, 403, 429, 500} : x = Exchange("all", FALSE, s, FALSE, NoBody)
    BY <1>4
  <2> QED
    BY <2>1 DEF Exchange
<1>5. CASE x \in E4
  <2>1. PICK b \in Bodies(d) : x = Exchange("all", FALSE, 200, TRUE, b)
    BY <1>5
  <2> QED
    BY <2>1 DEF Exchange
<1> QED
  BY <1>1, <1>2, <1>3, <1>4, <1>5

LEMMA CompleteCases ==
  ASSUME NEW d, NEW h, NEW x
  PROVE  /\ ~Marshals(d, h) => Complete(d, h, x) = BadResponse(FALSE)
         /\ Marshals(d, h) =>
              /\ x.got \in {"nothing", "part"} => Complete(d, h, x) = TransportFault(x.deadline)
              /\ x.got = "all" /\ x.status # 200 => Complete(d, h, x) = StatusFault(x.status)
              /\ x.got = "all" /\ x.status = 200 =>
                   /\ x.json => Complete(d, h, x) = toDomain(d, x.body)
                   /\ ~x.json => Complete(d, h, x) = BadResponse(FALSE)
  BY DEF Complete

LEMMA CompleteReads ==
  ASSUME NEW d, NEW h, NEW x, Marshals(d, h), x.got = "all", x.status = 200
  PROVE  \/ Complete(d, h, x) = toDomain(d, x.body) /\ x.json
         \/ Complete(d, h, x) = BadResponse(FALSE)
<1>1. x.got # "nothing" /\ x.got # "part" /\ ~(x.status # 200)
  OBVIOUS
<1>2. Complete(d, h, x) = IF x.json THEN toDomain(d, x.body) ELSE BadResponse(FALSE)
  BY <1>1, Zenon DEF Complete
<1> QED
  BY <1>2, Zenon

LEMMA FaultFields ==
  /\ \A kind, observed : ~Fault(kind, observed).ok /\ Fault(kind, observed).kind = kind
  /\ \A m, finish : Completed(m, finish).ok /\ Completed(m, finish).message = m
  BY DEF Fault, Completed

\* An exchange is billed when its fault is one of the two kinds.
LEMMA AttemptIsPriced ==
  ASSUME NEW d, NEW x \in Exchanges(d), Attempt(d, x)
  PROVE  OnlyBillableIsPriced'
<1> DEFINE h == decodeChatRequest(transcript).messages
           r == Complete(d, h, x)
<1>1. /\ last'.got = x.got /\ last'.deadline = x.deadline /\ last'.status = x.status
      /\ last'.outcome = IF r.ok THEN "ok" ELSE r.kind
      /\ last'.sent = Marshals(d, h)
      /\ last'.billed = billsDespiteFailure(r)
  BY DEF Attempt
<1>2. /\ x.got \in {"nothing", "part", "all"} /\ x.deadline \in BOOLEAN
      /\ x.got = "all" => ~x.deadline
  BY ExchangeCases
<1>3. Marshals(d, h) =>
        /\ x.got \in {"nothing", "part"} => r = TransportFault(x.deadline)
        /\ x.got = "all" /\ x.status # 200 => r = StatusFault(x.status)
        /\ x.got = "all" /\ x.status = 200 =>
             /\ x.json => r = toDomain(d, x.body)
             /\ ~x.json => r = BadResponse(FALSE)
  BY CompleteCases
<1> HIDE DEF r, h
<1> SUFFICES ASSUME Marshals(d, h), x.got = "part" => x.deadline
             PROVE  billsDespiteFailure(r) <=>
                      \/ x.deadline
                      \/ x.got = "all" /\ x.status = 200 /\ (IF r.ok THEN "ok" ELSE r.kind) # "ok"
  BY <1>1 DEF OnlyBillableIsPriced
<1>4. CASE x.got \in {"nothing", "part"}
  <2>1. r = Fault(IF x.deadline THEN "timeout" ELSE "unreachable", FALSE)
    BY <1>3, <1>4 DEF TransportFault
  <2>2. ~r.ok /\ r.kind = IF x.deadline THEN "timeout" ELSE "unreachable"
    BY <2>1, FaultFields
  <2> QED
    BY <1>4, <2>2 DEF billsDespiteFailure
<1>5. CASE x.got = "all" /\ x.status # 200
  <2>1. PICK kind \in {"throttled", "rejected", "server_error"} : r = Fault(kind, FALSE)
    <3>1. r = StatusFault(x.status)
      BY <1>3, <1>5
    <3>2. CASE x.status = 429
      BY <3>1, <3>2 DEF StatusFault
    <3>3. CASE x.status \in {401, 403} /\ x.status # 429
      BY <3>1, <3>3 DEF StatusFault
    <3>4. CASE x.status # 429 /\ x.status \notin {401, 403}
      BY <3>1, <3>4 DEF StatusFault
    <3> QED
      BY <3>2, <3>3, <3>4
  <2>2. ~r.ok /\ r.kind = kind
    BY <2>1 DEF Fault
  <2> QED
    BY <1>2, <1>5, <2>2 DEF billsDespiteFailure
<1>6. CASE x.got = "all" /\ x.status = 200
  <2>1. \/ \E observed : r = Fault("bad_response", observed)
        \/ \E m, finish : r = Completed(m, finish)
    BY <1>3, <1>6 DEF toDomain, BadResponse
  <2>2. (~r.ok /\ r.kind = "bad_response") \/ r.ok
    BY <2>1, FaultFields
  <2> QED
    BY <1>2, <1>6, <2>2 DEF billsDespiteFailure
<1> QED
  BY <1>2, <1>4, <1>5, <1>6

\* What a provider answers is whole, about nothing said before, and named anew.
LEMMA BodyCases ==
  ASSUME NEW d, NEW b \in Bodies(d), Len(transcript) \in Nat
  PROVE  /\ b.text \in {0, Len(transcript) + 1}
         /\ \/ b.calls = <<>>
            \/ \E cs \in CallsOf(d) : b.calls = Numbered(d, cs)
<1> DEFINE E2 == {Body(0, <<>>, s, TRUE) : s \in DOMAIN FinishReasons(d) \cup {"content_filter"}}
<1>1. \/ \E t \in {0, Len(transcript) + 1} : b \in Written(d, t)
      \/ b \in E2
      \/ b = NoBody
  BY Zenon DEF Bodies
<1>2. CASE \E t \in {0, Len(transcript) + 1} : b \in Written(d, t)
  <2>1. PICK t \in {0, Len(transcript) + 1}, cs \in CallsOf(d) :
           b = Body(t, Numbered(d, cs), Finished(d), TRUE)
    BY <1>2 DEF Written
  <2>2. b.text = t /\ b.calls = Numbered(d, cs)
    BY <2>1 DEF Body
  <2> QED
    BY <2>2
<1>3. CASE b \in E2
  <2>1. PICK s : b = Body(0, <<>>, s, TRUE)
    BY <1>3
  <2> QED
    BY <2>1 DEF Body
<1>4. CASE b = NoBody
  BY <1>4 DEF NoBody, Body
<1> HIDE DEF E2
<1> QED
  BY <1>1, <1>2, <1>3, <1>4

\* The ids of a turn are its own, new or minted.
LEMMA NumberedIs ==
  ASSUME NEW d \in Dialect, NEW cs \in CallsOf(d), Len(transcript) \in Nat
  PROVE  LET ids == IdsOf(d, Numbered(d, cs))
         IN  /\ ids \in Seq(CallRec)
             /\ \A k \in DOMAIN ids : ids[k].id \in {Minted(k), <<Len(transcript) + 1, k>>}
<1>1. PICK n \in 0..MaxCalls : cs \in [1..n -> Names \X ArgsOf(d)]
  BY DEF CallsOf
<1>2. n \in Nat /\ DOMAIN cs = 1..n
  BY <1>1
<1>3. \A k \in 1..n : k \in Nat /\ cs[k][1] \in Names /\ cs[k][2] \in {"object", "broken"}
  BY <1>1 DEF ArgsOf
<1> DEFINE id(k) == IF d = "ollama" THEN Minted(k) ELSE <<Len(transcript) + 1, k>>
           call(k) == [id |-> id(k), name |-> cs[k][1], args |-> cs[k][2]]
           ids == IdsOf(d, Numbered(d, cs))
<1>4. DOMAIN ids = 1..n /\ \A k \in 1..n : ids[k] = call(k)
  BY <1>2 DEF IdsOf, Numbered, Call
<1>5. \A k \in 1..n : id(k) \in Place /\ id(k) \in {Minted(k), <<Len(transcript) + 1, k>>}
  BY <1>3 DEF Place, Minted
<1> HIDE DEF id
<1>6. \A k \in 1..n : call(k) \in CallRec /\ call(k).id = id(k)
  BY <1>3, <1>5 DEF CallRec
<1>7. ids = [k \in 1..n |-> call(k)]
  BY <1>4 DEF IdsOf, Numbered
<1> HIDE DEF call, ids
<1>8. ids \in Seq(CallRec)
  BY <1>2, <1>6, <1>7
<1>9. \A k \in DOMAIN ids : ids[k].id \in {Minted(k), <<Len(transcript) + 1, k>>}
  BY <1>4, <1>5, <1>6
<1> QED
  BY <1>8, <1>9 DEF ids

\* The calls of an answer, as they will be sent back.
LEMMA IdsAreOwn ==
  ASSUME NEW d \in Dialect, NEW b \in Bodies(d), Len(transcript) \in Nat
  PROVE  LET ids == IdsOf(d, b.calls)
         IN  /\ ids \in Seq(CallRec)
             /\ \A k \in DOMAIN ids : ids[k].id \in {Minted(k), <<Len(transcript) + 1, k>>}
<1>1. CASE b.calls = <<>>
  <2>1. DOMAIN IdsOf(d, b.calls) = {} /\ IdsOf(d, b.calls) \in Seq(CallRec)
    BY <1>1 DEF IdsOf
  <2> QED
    BY <2>1
<1>2. CASE \E cs \in CallsOf(d) : b.calls = Numbered(d, cs)
  BY <1>2, NumberedIs
<1> QED
  BY <1>1, <1>2, BodyCases

\* Only a body that could be used makes a message.
LEMMA AnswerIs ==
  ASSUME NEW d, NEW h, NEW x \in Exchanges(d),
         \A kind, observed : Complete(d, h, x) # Fault(kind, observed)
  PROVE  \E b \in Bodies(d) :
           Complete(d, h, x).message = Message("assistant", b.text, IdsOf(d, b.calls), NoId)
<1> DEFINE r == Complete(d, h, x)
<1>1. \A kind, observed : r # Fault(kind, observed)
  OBVIOUS
<1>2. Marshals(d, h)
  BY <1>1, CompleteCases DEF BadResponse
<1>3. x.got = "all"
  <2>1. x.got \notin {"nothing", "part"}
    <3>1. r # TransportFault(x.deadline)
      BY <1>1 DEF TransportFault
    <3> QED
      BY <1>2, <3>1, CompleteCases
  <2> QED
    BY <2>1, ExchangeCases
<1>4. x.status = 200
  <2>1. SUFFICES ASSUME x.status # 200 PROVE FALSE
    OBVIOUS
  <2>2. r = StatusFault(x.status)
    BY <1>2, <1>3, <2>1, CompleteCases
  <2>3. r # StatusFault(x.status)
    <3>1. CASE x.status = 429
      BY <1>1, <3>1 DEF StatusFault
    <3>2. CASE x.status \in {401, 403} /\ x.status # 429
      <4>1. StatusFault(x.status) = Fault("rejected", FALSE)
        BY <3>2 DEF StatusFault
      <4> QED
        BY <1>1, <4>1
    <3>3. CASE x.status # 429 /\ x.status \notin {401, 403}
      BY <1>1, <3>3 DEF StatusFault
    <3> QED
      BY <3>1, <3>2, <3>3
  <2> QED
    BY <2>2, <2>3
<1>5. r # BadResponse(FALSE)
  BY <1>1 DEF BadResponse
<1>6. x.json /\ r = toDomain(d, x.body)
  BY <1>2, <1>3, <1>4, <1>5, CompleteReads
<1>7. ~Unusable(d, x.body)
  BY <1>1, <1>6 DEF toDomain, BadResponse
<1>8. r = Completed(Message("assistant", x.body.text, IdsOf(d, x.body.calls), NoId), FinishOf(d, x.body))
  BY <1>6, <1>7 DEF toDomain
<1>9. r.message = Message("assistant", x.body.text, IdsOf(d, x.body.calls), NoId)
  BY <1>8, FaultFields
<1> QED
  BY <1>6, <1>9, ExchangeCases

LEMMA AttemptKeeps ==
  ASSUME Shape, ResultsAnswer, NEW d \in Dialect, NEW x \in Exchanges(d), Attempt(d, x)
  PROVE  Shape' /\ ResultsAnswer'
<1> DEFINE h == decodeChatRequest(transcript).messages
           r == Complete(d, h, x)
<1>1. IF r.ok THEN Say(messageToWire(r.message), NoId) ELSE UNCHANGED <<transcript, meant>>
  BY DEF Attempt
<1>2. CASE ~r.ok
  BY <1>1, <1>2 DEF Shape, ResultsAnswer
<1>3. CASE r.ok
  <2>1. Len(transcript) \in Nat
    BY ShapeLengths
  <2>2. PICK b \in Bodies(d) :
           r.message = Message("assistant", b.text, IdsOf(d, b.calls), NoId)
    <3>1. \A kind, observed : r # Fault(kind, observed)
      BY <1>3, FaultFields
    <3> QED
      BY <3>1, AnswerIs
  <2> DEFINE calls == IdsOf(d, b.calls)
             n == Len(transcript) + 1
             m == messageToWire(r.message)
  <2>3. /\ calls \in Seq(CallRec)
        /\ \A k \in DOMAIN calls : calls[k].id \in {Minted(k), <<n, k>>}
    BY <2>1, IdsAreOwn
  <2>4. b.text \in {0, n} /\ n \in Nat
    BY <2>1, BodyCases
  <2> HIDE DEF calls, n, r
  <2>5. r.message = [role |-> "assistant", text |-> b.text, calls |-> calls, answers |-> NoId]
    BY <2>2 DEF Message, calls
  <2>6. m = [role |-> "assistant", text |-> IF b.text = 0 /\ calls # <<>> THEN -1 ELSE b.text,
             calls |-> calls, answers |-> NoId]
    BY <2>5 DEF messageToWire
  <2> HIDE DEF m
  <2>7. /\ m.role = "assistant" /\ m.calls = calls
        /\ m.text \in {0, n} \/ (m.text = -1 /\ m.calls # <<>>)
        /\ m \in Msg
    BY <2>3, <2>4, <2>6 DEF Msg, Roles
  <2>8. WellFormed(m, n)
    BY <2>3, <2>7 DEF WellFormed
  <2>9. Say(m, NoId)
    BY <1>1, <1>3 DEF m, r
  <2> QED
    BY <2>7, <2>8, <2>9, SayKeeps DEF n
<1> QED
  BY <1>2, <1>3

-----------------------------------------------------------------------------
LEMMA InvInit == Init => IInv
  <1> SUFFICES ASSUME Init PROVE IInv
    OBVIOUS
  <1>1. transcript = <<>> /\ meant = <<>> /\ last = NoAttempt
    BY DEF Init
  <1>2. Shape /\ ResultsAnswer
    BY <1>1 DEF Shape, ResultsAnswer
  <1>3. OnlyBillableIsPriced
    BY <1>1 DEF OnlyBillableIsPriced, NoAttempt
  <1> QED
    BY <1>2, <1>3 DEF IInv

LEMMA InvPreserved == IInv /\ [Next]_vars => IInv'
<1> SUFFICES ASSUME IInv, [Next]_vars PROVE IInv'
  OBVIOUS
<1>1. Shape /\ ResultsAnswer /\ OnlyBillableIsPriced
  BY DEF IInv
<1>2. CASE \E role \in {"system", "user"} : Ask(role)
  <2>1. PICK role \in {"system", "user"} : Ask(role)
    BY <1>2
  <2>2. Shape' /\ ResultsAnswer'
    BY <1>1, <2>1, AskKeeps
  <2>3. OnlyBillableIsPriced'
    BY <2>1 DEF Ask, OnlyBillableIsPriced, NoAttempt
  <2> QED
    BY <2>2, <2>3 DEF IInv
<1>3. CASE \E place \in Pending : Reply(place)
  <2>1. PICK place \in Pending : Reply(place)
    BY <1>3
  <2>2. Shape' /\ ResultsAnswer'
    BY <1>1, <2>1, ReplyKeeps
  <2>3. OnlyBillableIsPriced'
    BY <2>1 DEF Reply, OnlyBillableIsPriced, NoAttempt
  <2> QED
    BY <2>2, <2>3 DEF IInv
<1>4. CASE \E d \in Dialect : \E x \in Exchanges(d) : Attempt(d, x)
  <2> PICK d \in Dialect : \E x \in Exchanges(d) : Attempt(d, x)
    BY <1>4
  <2>1. PICK x \in Exchanges(d) : Attempt(d, x)
    OBVIOUS
  <2>2. Shape' /\ ResultsAnswer'
    BY <1>1, <2>1, AttemptKeeps
  <2>3. OnlyBillableIsPriced'
    BY <2>1, AttemptIsPriced
  <2> QED
    BY <2>2, <2>3 DEF IInv
<1>5. CASE UNCHANGED vars
  BY <1>1, <1>5 DEF vars, IInv, Shape, ResultsAnswer, OnlyBillableIsPriced
<1> QED
  BY <1>2, <1>3, <1>4, <1>5 DEF Next

\* Every transcript the gateway and its caller build (handler.go:12-37) is a
\* sequence of well-formed messages whose results answer calls still open.
THEOREM ConversationInvariant == Spec => []IInv
<1>1. Init => IInv
  BY InvInit
<1>2. IInv /\ [Next]_vars => IInv'
  BY InvPreserved
<1> QED
  BY <1>1, <1>2, PTL DEF Spec

\* What was sent is priced exactly when a provider may have billed it
\* (shared/utils.go:10-14, decision #6).
THEOREM ConversationOnlyBillableIsPriced == Spec => []OnlyBillableIsPriced
<1>1. IInv => OnlyBillableIsPriced
  BY DEF IInv
<1> QED
  BY <1>1, ConversationInvariant, PTL

-----------------------------------------------------------------------------
\* The gateway takes the transcript back: nothing in it is refused.
LEMMA NoneIsRefused ==
  ASSUME Shape
  PROVE  \A i \in DOMAIN transcript : ~Refused(transcript[i])
<1> TAKE i \in DOMAIN transcript
<1> DEFINE m == transcript[i]
<1>1. m \in Msg /\ WellFormed(m, i) /\ i # -1
  BY ShapeLengths DEF Shape
<1> HIDE DEF m
<1>2. m.role \in Roles
  BY <1>1 DEF Msg
<1>3. m.text = -1 => m.role = "assistant" /\ m.calls # <<>>
  BY <1>1 DEF WellFormed
<1> QED
  BY <1>1, <1>2, <1>3 DEF Refused, WellFormed, Roles, m

\* What is put to the providers: the transcript, its nulls become empty texts.
LEMMA SentIs ==
  ASSUME Shape
  PROVE  /\ Sent.ok
         /\ Sent.messages \in Seq(Msg)
         /\ DOMAIN Sent.messages = DOMAIN transcript
         /\ \A i \in DOMAIN transcript :
              /\ Sent.messages[i].role = transcript[i].role
              /\ Sent.messages[i].calls = transcript[i].calls
              /\ Sent.messages[i].answers = transcript[i].answers
              /\ Sent.messages[i].text \in {0, i}
              /\ transcript[i].role # "assistant" =>
                   Sent.messages[i].text = i /\ Sent.messages[i].calls = <<>>
<1> DEFINE taken(m) == [m EXCEPT !.text = IF @ = -1 THEN 0 ELSE @]
           h == [i \in DOMAIN transcript |-> taken(transcript[i])]
<1>1. Sent = [ok |-> TRUE, messages |-> h]
  BY NoneIsRefused DEF Sent, decodeChatRequest
<1>2. Sent.ok /\ Sent.messages = h
  BY <1>1
<1>3. \A i \in DOMAIN transcript : transcript[i] \in Msg /\ WellFormed(transcript[i], i) /\ i \in Nat /\ i # 0
  BY ShapeLengths DEF Shape
<1>4. \A m \in Msg : /\ taken(m) \in Msg /\ taken(m).role = m.role /\ taken(m).calls = m.calls
                     /\ taken(m).answers = m.answers
                     /\ taken(m).text = IF m.text = -1 THEN 0 ELSE m.text
  BY DEF Msg
<1> HIDE DEF taken
<1>5. h \in Seq(Msg) /\ DOMAIN h = DOMAIN transcript
  BY <1>3, <1>4, ShapeLengths
<1>6. \A i \in DOMAIN transcript : h[i] = taken(transcript[i])
  OBVIOUS
<1>7. ASSUME NEW i \in DOMAIN transcript
      PROVE  /\ h[i].text \in {0, i}
             /\ transcript[i].role # "assistant" => h[i].text = i /\ h[i].calls = <<>>
  <2> DEFINE m == transcript[i]
  <2>1. m \in Msg /\ WellFormed(m, i) /\ i \in Nat /\ i # 0 /\ h[i] = taken(m)
    BY <1>3, <1>6
  <2> HIDE DEF m, h
  <2>2. m.text \in {0, i} \/ m.text = -1
    BY <2>1 DEF WellFormed
  <2>3. m.role # "assistant" => m.text = i /\ m.calls = <<>>
    BY <2>1 DEF WellFormed
  <2>4. i # -1
    BY <2>1
  <2>5. h[i].text = IF m.text = -1 THEN 0 ELSE m.text
    BY <1>4, <2>1
  <2>6. h[i].calls = m.calls
    BY <1>4, <2>1
  <2>7. h[i].text \in {0, i}
    BY <2>2, <2>4, <2>5
  <2> QED
    BY <2>3, <2>4, <2>5, <2>6, <2>7 DEF m
<1> QED
  BY <1>2, <1>3, <1>4, <1>5, <1>6, <1>7

\* The transcript a caller builds from the gateway's own answers is one the
\* gateway accepts, at every turn (openapi.go, messageToWire).
THEOREM ConversationAnswersCanBeSentBack == Spec => []AnswersCanBeSentBack
<1>1. IInv => AnswersCanBeSentBack
  BY SentIs DEF IInv, AnswersCanBeSentBack
<1> QED
  BY <1>1, ConversationInvariant, PTL

-----------------------------------------------------------------------------
\* The parts of a message, with the ids of its calls and without.
Said    == [text : Int]
Asked   == [call : CallRec]
Bare    == [call : [id : {NoId}, name : Names, args : {"object", "broken"}]]
BareOf(m) == [k \in DOMAIN m.calls |-> [call |-> [m.calls[k] EXCEPT !.id = NoId]]]
NamelessOf == [p \in Said \cup Asked |-> Nameless(p)]

LEMMA PartsTyped ==
  ASSUME NEW m \in Msg
  PROVE  /\ TextPart(m) \in Seq(Said \cup Asked)
         /\ CallParts(m) \in Seq(Said \cup Asked)
         /\ DOMAIN CallParts(m) = DOMAIN m.calls
         /\ \A k \in DOMAIN m.calls : CallParts(m)[k] = [call |-> m.calls[k]]
<1>1. m.text \in Int /\ m.calls \in Seq(CallRec)
  BY DEF Msg
<1> DEFINE t == m.text
           cs == m.calls
<1>2. t \in Int /\ cs \in Seq(CallRec)
  BY <1>1
<1> HIDE DEF t, cs
<1>3. [text |-> t] \in Said \cup Asked
  BY <1>2 DEF Said
<1>4. TextPart(m) \in Seq(Said \cup Asked)
  <2>1. <<[text |-> t]>> \in Seq(Said \cup Asked)
    BY <1>3, Singleton
  <2>2. TextPart(m) = IF t = 0 THEN <<>> ELSE <<[text |-> t]>>
    BY DEF TextPart, t
  <2>3. \A S : <<>> \in Seq(S)
    OBVIOUS
  <2>4. CASE t = 0
    BY <2>2, <2>3, <2>4
  <2>5. CASE t # 0
    BY <2>1, <2>2, <2>5
  <2> QED
    BY <2>4, <2>5
<1>5. \A k \in DOMAIN cs : [call |-> cs[k]] \in Said \cup Asked
  BY <1>2 DEF Asked
<1>6. [k \in DOMAIN cs |-> [call |-> cs[k]]] \in Seq(Said \cup Asked)
  <2>1. Len(cs) \in Nat /\ DOMAIN cs = 1..Len(cs)
    BY <1>2
  <2> QED
    BY <1>5, <2>1
<1>7. CallParts(m) = [k \in DOMAIN cs |-> [call |-> cs[k]]]
  BY DEF CallParts, cs
<1> QED
  BY <1>4, <1>6, <1>7 DEF cs

\* Parts are compared piece by piece.
LEMMA SamePieces ==
  ASSUME NEW ms, NEW h, DOMAIN ms = DOMAIN h,
         \A i \in DOMAIN h : ms[i].parts = TextPart(h[i]) \o CallParts(h[i])
  PROVE  Parts(ms) = Full(h)
<1>1. [i \in DOMAIN ms |-> ms[i].parts] = [i \in DOMAIN h |-> TextPart(h[i]) \o CallParts(h[i])]
  OBVIOUS
<1> QED
  BY <1>1 DEF Parts, Full

\* A tool's message: a text and nothing else.
LEMMA AnswerHasOnePart ==
  ASSUME NEW m \in Msg, m.text # 0, m.calls = <<>>
  PROVE  TextPart(m) \o CallParts(m) = <<[text |-> m.text]>>
<1>1. TextPart(m) = <<[text |-> m.text]>>
  BY DEF TextPart
<1>2. CallParts(m) = <<>>
  BY PartsTyped
<1>3. TextPart(m) \in Seq(Said \cup Asked)
  BY PartsTyped
<1> HIDE DEF TextPart
<1>4. TextPart(m) \o <<>> = TextPart(m)
  BY <1>3
<1> QED
  BY <1>1, <1>2, <1>4

LEMMA OpenAIGetsAll ==
  ASSUME NEW h
  PROVE  Parts(Request("openai", h).messages) = Full(h)
<1> DEFINE ms == [i \in DOMAIN h |-> openaiRequestMessage(h[i])]
<1>1. Request("openai", h).messages = ms
  BY DEF Request, openaiRequest
<1>2. DOMAIN ms = DOMAIN h
  OBVIOUS
<1>3. \A i \in DOMAIN h : ms[i].parts = TextPart(h[i]) \o CallParts(h[i])
  BY DEF openaiRequestMessage, Wire
<1> HIDE DEF ms
<1> QED
  BY <1>1, <1>2, <1>3, SamePieces

Answering == {m \in Msg : m.role = "tool" => m.text # 0 /\ m.calls = <<>>}

LEMMA AnthropicGetsAll ==
  ASSUME NEW h \in Seq(Answering)
  PROVE  /\ Parts(Request("anthropic", h).messages) = Full(NotOfRole(h, "system"))
         /\ LET System == OfRole(h, "system")
            IN  Request("anthropic", h).system = [i \in DOMAIN System |-> System[i].text]
<1> DEFINE turns  == NotOfRole(h, "system")
           system == OfRole(h, "system")
           ms == [i \in DOMAIN turns |-> anthropicRequestMessage(turns[i])]
<1>1. /\ Request("anthropic", h).messages = ms
      /\ Request("anthropic", h).system = [i \in DOMAIN system |-> system[i].text]
  BY DEF Request, anthropicRequest
<1>2. turns \in Seq(Answering)
  BY SubseqAtTyped DEF NotOfRole
<1>3. DOMAIN ms = DOMAIN turns
  OBVIOUS
<1> HIDE DEF turns
<1>4. ASSUME NEW i \in DOMAIN turns
      PROVE  ms[i].parts = TextPart(turns[i]) \o CallParts(turns[i])
  <2> DEFINE m == turns[i]
  <2>1. m \in Answering
    BY <1>2
  <2>2. ms[i] = anthropicRequestMessage(m)
    OBVIOUS
  <2> HIDE DEF m, ms
  <2>3. CASE m.role = "tool"
    <3>1. ms[i].parts = <<[text |-> m.text]>>
      BY <2>2, <2>3 DEF anthropicRequestMessage, Wire
    <3>2. m \in Msg /\ m.text # 0 /\ m.calls = <<>>
      BY <2>1, <2>3 DEF Answering
    <3>3. TextPart(m) \o CallParts(m) = <<[text |-> m.text]>>
      BY <3>2, AnswerHasOnePart
    <3> QED
      BY <3>1, <3>3 DEF m
  <2>4. CASE m.role # "tool"
    <3>1. ms[i].parts = TextPart(m) \o CallParts(m)
      BY <2>2, <2>4 DEF anthropicRequestMessage, Wire
    <3> QED
      BY <3>1 DEF m
  <2> QED
    BY <2>3, <2>4
<1> HIDE DEF ms
<1>5. Parts(ms) = Full(turns)
  BY <1>3, <1>4, SamePieces
<1> QED
  BY <1>1, <1>5 DEF turns

\* What Ollama's wire leaves of a part.
LEMMA NamelessIs ==
  /\ NamelessOf \in [Said \cup Asked -> Said \cup Bare]
  /\ \A p \in Said : NamelessOf[p] = p
  /\ \A c \in CallRec : NamelessOf[[call |-> c]] = [call |-> [c EXCEPT !.id = NoId]]
<1>1. \A p \in Said : p \in Said \cup Asked /\ "call" \notin DOMAIN p
  <2> TAKE p \in Said
  <2>1. PICK t \in Int : p = [text |-> t]
    BY DEF Said
  <2> QED
    BY <2>1
<1>2. \A p \in Said : Nameless(p) = p
  BY <1>1 DEF Nameless
<1>3. \A c \in CallRec : /\ [call |-> c] \in Said \cup Asked
                         /\ Nameless([call |-> c]) = [call |-> [c EXCEPT !.id = NoId]]
  BY DEF Asked, Nameless
<1>4. \A c \in CallRec : [call |-> [c EXCEPT !.id = NoId]] \in Bare
  BY DEF CallRec, Bare
<1>5. \A p \in Asked : \E c \in CallRec : p = [call |-> c]
  BY DEF Asked
<1>6. ASSUME NEW p \in Said \cup Asked PROVE Nameless(p) \in Said \cup Bare
  <2>1. CASE p \in Said
    BY <1>2, <2>1
  <2>2. CASE p \in Asked
    <3>1. PICK c \in CallRec : p = [call |-> c]
      BY <1>5, <2>2
    <3>2. Nameless(p) = [call |-> [c EXCEPT !.id = NoId]]
      BY <1>3, <3>1
    <3>3. [call |-> [c EXCEPT !.id = NoId]] \in Bare
      BY <1>4
    <3> HIDE DEF Nameless
    <3> QED
      BY <3>2, <3>3
  <2> QED
    BY <2>1, <2>2
<1> HIDE DEF Nameless
<1> QED
  BY <1>1, <1>2, <1>3, <1>6 DEF NamelessOf

LEMMA MessageBecomesNameless ==
  ASSUME NEW m \in Msg
  PROVE  Mapped(NamelessOf, TextPart(m) \o CallParts(m)) = TextPart(m) \o BareOf(m)
<1> DEFINE S == Said \cup Asked
           T == Said \cup Bare
           tp == TextPart(m)
           cp == CallParts(m)
           bp == BareOf(m)
           f  == NamelessOf
<1>1. tp \in Seq(S) /\ cp \in Seq(S) /\ IsMap(f, S, T)
  BY PartsTyped, NamelessIs DEF IsMap
<1>2. Mapped(f, cp) = bp
  <2>1. DOMAIN cp = DOMAIN m.calls /\ \A k \in DOMAIN m.calls : cp[k] = [call |-> m.calls[k]]
    BY PartsTyped
  <2>2. \A k \in DOMAIN m.calls : f[cp[k]] = [call |-> [m.calls[k] EXCEPT !.id = NoId]]
    <3> TAKE k \in DOMAIN m.calls
    <3>1. m.calls[k] \in CallRec
      BY CallsTyped
    <3> QED
      BY <2>1, <3>1, NamelessIs
  <2> HIDE DEF cp, f
  <2> QED
    BY <2>1, <2>2 DEF Mapped, BareOf
<1>3. Mapped(f, tp) = tp
  <2>1. m.text \in Int
    BY DEF Msg
  <2>2. CASE m.text = 0
    <3>1. tp = <<>>
      BY <2>2 DEF TextPart
    <3> HIDE DEF tp, f
    <3> QED
      BY <3>1 DEF Mapped
  <2>3. CASE m.text # 0
    <3> DEFINE p == [text |-> m.text]
    <3>1. tp = <<p>>
      BY <2>3 DEF TextPart
    <3>2. p \in Said
      BY <2>1 DEF Said
    <3>3. f[p] = p
      BY <3>2, NamelessIs
    <3> HIDE DEF p, f, tp
    <3>4. Mapped(f, <<p>>) = <<p>>
      <4>1. DOMAIN <<p>> = {1} /\ <<p>>[1] = p
        OBVIOUS
      <4>2. Mapped(f, <<p>>) = [k \in {1} |-> p]
        BY <3>3, <4>1 DEF Mapped
      <4>3. <<p>> = [k \in {1} |-> p]
        OBVIOUS
      <4> QED
        BY <4>2, <4>3
    <3> QED
      BY <3>1, <3>4
  <2> QED
    BY <2>2, <2>3
<1> HIDE DEF S, T, tp, cp, bp, f
<1>4. Mapped(f, tp \o cp) = Mapped(f, tp) \o Mapped(f, cp)
  BY <1>1, MappedConcat
<1>5. Mapped(f, tp \o cp) = tp \o bp
  BY <1>2, <1>3, <1>4
<1> QED
  BY <1>5 DEF tp, cp, bp, f

LEMMA BareTyped ==
  ASSUME NEW m \in Msg
  PROVE  /\ TextPart(m) \o CallParts(m) \in Seq(Said \cup Asked)
         /\ TextPart(m) \o BareOf(m) \in Seq(Said \cup Bare)
<1> DEFINE S == Said \cup Asked
           s == TextPart(m) \o CallParts(m)
<1>1. s \in Seq(S)
  <2>1. TextPart(m) \in Seq(S) /\ CallParts(m) \in Seq(S)
    BY PartsTyped
  <2> HIDE DEF S
  <2> QED
    BY <2>1, ConcatAt
<1>2. Mapped(NamelessOf, s) = TextPart(m) \o BareOf(m)
  BY MessageBecomesNameless
<1>3. NamelessOf \in [S -> Said \cup Bare]
  BY NamelessIs
<1> HIDE DEF s, S
<1>4. Mapped(NamelessOf, s) \in Seq(Said \cup Bare)
  BY <1>1, <1>3 DEF Mapped
<1> QED
  BY <1>1, <1>2, <1>4 DEF s, S

LEMMA OllamaGetsAll ==
  ASSUME NEW h \in Seq(Msg)
  PROVE  Parts(Request("ollama", h).messages) = [k \in DOMAIN Full(h) |-> Nameless(Full(h)[k])]
<1> DEFINE n  == Len(h)
           S  == Said \cup Asked
           T  == Said \cup Bare
           f  == NamelessOf
           ms == [i \in DOMAIN h |-> ollamaRequestMessage(h, i)]
           ss == [i \in DOMAIN h |-> TextPart(h[i]) \o CallParts(h[i])]
           tt == [i \in DOMAIN ms |-> ms[i].parts]
<1>1. n \in Nat /\ DOMAIN h = 1..n /\ \A i \in 1..n : h[i] \in Msg
  OBVIOUS
<1>2. Request("ollama", h).messages = ms
  BY DEF Request, ollamaRequest
<1>3. \A i \in 1..n : /\ tt[i] = TextPart(h[i]) \o BareOf(h[i])
                      /\ ss[i] = TextPart(h[i]) \o CallParts(h[i])
  BY <1>1 DEF ollamaRequestMessage, Wire, BareOf
<1>4. DOMAIN ss = 1..n /\ DOMAIN tt = 1..n /\ ss = [i \in 1..n |-> ss[i]] /\ tt = [i \in 1..n |-> tt[i]]
  BY <1>1
<1> HIDE DEF ms, ss, tt
<1>5. \A i \in 1..n : ss[i] \in Seq(S) /\ tt[i] \in Seq(T)
  BY <1>1, <1>3, BareTyped
<1>6. \A i \in 1..n : tt[i] = Mapped(f, ss[i])
  BY <1>1, <1>3, MessageBecomesNameless
<1>7. f \in [S -> T]
  BY NamelessIs
<1> HIDE DEF S, T, f, n
<1>8. ss \in Seq(Seq(S)) /\ tt \in Seq(Seq(T)) /\ Len(ss) = n /\ Len(tt) = n
  <2>1. ASSUME NEW U, NEW s, s = [i \in 1..n |-> s[i]], \A i \in 1..n : s[i] \in U
        PROVE  s \in Seq(U) /\ Len(s) = n
    <3> DEFINE e(i) == s[i]
    <3>1. \A i \in 1..n : e(i) \in U
      BY <2>1
    <3> HIDE DEF e
    <3>2. [i \in 1..n |-> e(i)] \in Seq(U) /\ Len([i \in 1..n |-> e(i)]) = n
      BY <1>1, <3>1
    <3> QED
      BY <2>1, <3>2 DEF e
  <2> DEFINE SS == Seq(S)
             TT == Seq(T)
  <2>2. (\A i \in 1..n : ss[i] \in SS) /\ (\A i \in 1..n : tt[i] \in TT)
    BY <1>5
  <2> HIDE DEF SS, TT
  <2>3. ss \in Seq(SS) /\ Len(ss) = n
    BY <1>4, <2>1, <2>2
  <2>4. tt \in Seq(TT) /\ Len(tt) = n
    BY <1>4, <2>1, <2>2
  <2> QED
    BY <2>3, <2>4 DEF SS, TT
<1>9. MapsTo(tt, f, ss)
  BY <1>6, <1>8 DEF MapsTo
<1>10. FlattenSeq(tt) = Mapped(f, FlattenSeq(ss))
  BY <1>7, <1>8, <1>9, FlattenSeqMaps
<1>11. FlattenSeq(tt) = Parts(ms) /\ FlattenSeq(ss) = Full(h)
  BY DEF Parts, Full, ss, tt
<1>12. Full(h) \in Seq(S)
  BY <1>8, <1>11, FlattenSeqTyped
<1>13. \A k \in DOMAIN Full(h) : f[Full(h)[k]] = Nameless(Full(h)[k])
  <2> TAKE k \in DOMAIN Full(h)
  <2>1. Full(h)[k] \in S
    BY <1>12
  <2> HIDE DEF Nameless, Full
  <2> QED
    BY <2>1 DEF f, S, NamelessOf
<1>14. Mapped(f, Full(h)) = [k \in DOMAIN Full(h) |-> Nameless(Full(h)[k])]
  BY <1>13 DEF Mapped
<1> QED
  BY <1>2, <1>10, <1>11, <1>14

\* Every text and every call of the transcript is in the request of every
\* dialect, in order and once (openai_req.go, anthropic_req.go, ollama_req.go).
THEOREM ConversationNothingIsLost == Spec => []NothingIsLost
<1>1. IInv => NothingIsLost
  <2> SUFFICES ASSUME Shape PROVE NothingIsLost
    BY DEF IInv
  <2> DEFINE h == Sent.messages
  <2>1. /\ h \in Seq(Msg) /\ DOMAIN h = DOMAIN transcript
        /\ \A i \in DOMAIN transcript :
             /\ h[i].role = transcript[i].role
             /\ transcript[i].role # "assistant" => h[i].text = i /\ h[i].calls = <<>>
    BY SentIs
  <2>2. \A i \in DOMAIN transcript : i # 0
    BY ShapeLengths
  <2> HIDE DEF h
  <2>3. \A i \in DOMAIN h : h[i] \in Answering
    BY <2>1, <2>2 DEF Answering
  <2>4. h \in Seq(Answering)
    BY <2>1, <2>3
  <2>5. /\ Parts(Request("openai", h).messages) = Full(h)
        /\ Parts(Request("anthropic", h).messages) = Full(NotOfRole(h, "system"))
        /\ LET System == OfRole(h, "system")
           IN  Request("anthropic", h).system = [i \in DOMAIN System |-> System[i].text]
        /\ Parts(Request("ollama", h).messages)
             = [k \in DOMAIN Full(h) |-> Nameless(Full(h)[k])]
    BY <2>1, <2>4, OpenAIGetsAll, AnthropicGetsAll, OllamaGetsAll
  <2> QED
    BY <2>5 DEF NothingIsLost, h
<1> QED
  BY <1>1, ConversationInvariant, PTL

-----------------------------------------------------------------------------
\* The calls a reader has seen grow by those of the next message.
SeenPieces(h, n) == [i \in 1..n |-> h[i].calls]

LEMMA CallsAreCalls ==
  ASSUME NEW h \in Seq(Msg), NEW i \in 1..Len(h)
  PROVE  h[i].calls \in Seq(CallRec)
<1>1. h[i] \in Msg
  OBVIOUS
<1>2. \A m \in Msg : m.calls \in Seq(CallRec)
  BY DEF Msg
<1> QED
  BY <1>1, <1>2

LEMMA PiecesTyped ==
  ASSUME NEW h \in Seq(Msg), NEW n \in 0..Len(h)
  PROVE  /\ SeenPieces(h, n) \in Seq(Seq(CallRec)) /\ Len(SeenPieces(h, n)) = n
         /\ n \in Nat /\ CallsSeen(h, n) \in Seq(CallRec)
         /\ CallsSeen(h, n) = FlattenSeq(SeenPieces(h, n))
<1>1. Len(h) \in Nat /\ n \in Nat /\ \A i \in 1..n : h[i] \in Msg
  OBVIOUS
<1> DEFINE e(i) == h[i].calls
           SC == Seq(CallRec)
<1>2. \A i \in 1..n : e(i) \in SC
  BY <1>1 DEF Msg
<1> HIDE DEF e, SC
<1>3. [i \in 1..n |-> e(i)] \in Seq(SC) /\ Len([i \in 1..n |-> e(i)]) = n
  BY <1>1, <1>2
<1>4. SeenPieces(h, n) = [i \in 1..n |-> e(i)]
  BY DEF SeenPieces, e
<1>5. SeenPieces(h, n) \in Seq(Seq(CallRec)) /\ Len(SeenPieces(h, n)) = n
  BY <1>3, <1>4 DEF SC
<1>6. CallsSeen(h, n) = FlattenSeq(SeenPieces(h, n))
  BY DEF CallsSeen, SeenPieces
<1>7. FlattenSeq(SeenPieces(h, n)) \in Seq(CallRec)
  BY <1>5, FlattenSeqTyped
<1> QED
  BY <1>1, <1>5, <1>6, <1>7

LEMMA SeenGrows ==
  ASSUME NEW h \in Seq(Msg), NEW n \in Nat, n + 1 \in 1..Len(h)
  PROVE  \E before \in Seq(CallRec) :
           /\ CallsSeen(h, n + 1) = before \o h[n + 1].calls
           /\ n # 0 => before = CallsSeen(h, n)
<1> DEFINE m == n + 1
<1>1. m \in 0..Len(h) /\ n \in 0..Len(h) /\ m \in Nat
  OBVIOUS
<1>2. /\ SeenPieces(h, n) \in Seq(Seq(CallRec)) /\ Len(SeenPieces(h, n)) = n
      /\ SeenPieces(h, m) \in Seq(Seq(CallRec)) /\ Len(SeenPieces(h, m)) = m
      /\ CallsSeen(h, n) = FlattenSeq(SeenPieces(h, n)) /\ CallsSeen(h, n) \in Seq(CallRec)
      /\ CallsSeen(h, m) = FlattenSeq(SeenPieces(h, m))
  BY <1>1, PiecesTyped
<1>3. SeenPieces(h, m)[m] = h[m].calls
  BY <1>1 DEF SeenPieces
<1>4. CASE n = 0
  <2>1. Len(SeenPieces(h, m)) = 1 /\ m = 1
    BY <1>2, <1>4
  <2>2. CallsSeen(h, m) = h[m].calls
    BY <1>2, <1>3, <2>1, FlattenSeqSingle
  <2>3. h[m].calls \in Seq(CallRec)
    BY CallsAreCalls
  <2>4. <<>> \in Seq(CallRec) /\ <<>> \o h[m].calls = h[m].calls
    BY <2>3
  <2> QED
    BY <1>4, <2>2, <2>4
<1>5. CASE n # 0
  <2>1. Agree(SeenPieces(h, n), SeenPieces(h, m), n)
    BY <1>1 DEF Agree, SeenPieces
  <2>2. FlattenSeq(SeenPieces(h, m)) = FlattenSeq(SeenPieces(h, n)) \o SeenPieces(h, m)[m]
    BY <1>1, <1>2, <1>5, <2>1, FlattenSeqLonger
  <2> QED
    BY <1>2, <1>3, <2>2
<1> QED
  BY <1>4, <1>5

LEMMA SeenStays ==
  ASSUME NEW h \in Seq(Msg), NEW t \in 1..Len(h), NEW m \in t..Len(h),
         \A j \in (t + 1)..m : h[j].calls = <<>>
  PROVE  CallsSeen(h, m) = CallsSeen(h, t)
<1> DEFINE T == {n \in Nat : n \in t..m => CallsSeen(h, n) = CallsSeen(h, t)}
<1>1. t \in Nat /\ t # 0 /\ m \in Nat /\ Len(h) \in Nat
  OBVIOUS
<1>2. 0 \in T
  BY <1>1
<1>3. ASSUME NEW n \in Nat, n \in T PROVE n + 1 \in T
  <2> SUFFICES ASSUME n + 1 \in t..m PROVE CallsSeen(h, n + 1) = CallsSeen(h, t)
    OBVIOUS
  <2>1. CASE n + 1 = t
    BY <2>1
  <2>2. CASE n + 1 # t
    <3>1. n \in t..m /\ n # 0 /\ n + 1 \in 1..Len(h) /\ n \in 0..Len(h) /\ n + 1 \in (t + 1)..m
      BY <1>1, <2>2
    <3>2. CallsSeen(h, n) = CallsSeen(h, t)
      BY <1>3, <3>1
    <3>3. CallsSeen(h, n + 1) = CallsSeen(h, n) \o h[n + 1].calls
      BY <3>1, SeenGrows
    <3>4. CallsSeen(h, n) \in Seq(CallRec)
      BY <3>1, PiecesTyped
    <3>5. CallsSeen(h, n) \o <<>> = CallsSeen(h, n)
      BY <3>4
    <3> QED
      BY <3>1, <3>2, <3>3, <3>5
  <2> QED
    BY <2>1, <2>2
<1> HIDE DEF T
<1>4. m \in T
  BY <1>1, <1>2, <1>3, NatSetInduction
<1>5. m \in t..m
  BY <1>1
<1> QED
  BY <1>4, <1>5 DEF T

\* Whatever the ids of earlier turns were, the last call under an id of the
\* last turn is that turn's.
LEMMA LastUnderId ==
  ASSUME NEW h \in Seq(Msg), NEW i \in DOMAIN h, NEW t \in 1..(i - 1),
         NEW k \in DOMAIN h[t].calls,
         \A j \in DOMAIN h[t].calls : h[t].calls[j].id \in {Minted(j), <<t, j>>},
         \A j \in (t + 1)..(i - 1) : h[j].calls = <<>>
  PROVE  LET seen == CallsUnder(h, i - 1, h[t].calls[k].id)
         IN  seen # <<>> /\ Last(seen) = h[t].calls[k]
<1> DEFINE cs == h[t].calls
           id == h[t].calls[k].id
           s  == CallsSeen(h, i - 1)
           I  == {p \in DOMAIN s : s[p].id = id}
<1>1. /\ Len(h) \in Nat /\ i \in Nat /\ t \in Nat /\ t \in 1..Len(h) /\ i - 1 \in t..Len(h)
      /\ t - 1 \in Nat /\ (t - 1) + 1 = t
  OBVIOUS
<1>2. s = CallsSeen(h, t)
  BY <1>1, SeenStays
<1>3. PICK before \in Seq(CallRec) : CallsSeen(h, t) = before \o cs
  <2>1. \E before \in Seq(CallRec) : CallsSeen(h, (t - 1) + 1) = before \o h[(t - 1) + 1].calls
    BY <1>1, SeenGrows
  <2> QED
    BY <1>1, <2>1
<1>4. cs \in Seq(CallRec)
  BY <1>1, CallsAreCalls
<1>5. cs[k].id = id /\ cs[k] = h[t].calls[k] /\ k \in DOMAIN cs
  OBVIOUS
<1>6. \A j \in DOMAIN cs : cs[j].id \in {Minted(j), <<t, j>>}
  OBVIOUS
<1> HIDE DEF cs, id, s
<1>7. s = before \o cs
  BY <1>2, <1>3
<1>8. /\ s \in Seq(CallRec) /\ Len(s) = Len(before) + Len(cs) /\ Len(before) \in Nat /\ Len(cs) \in Nat
      /\ \A j \in 1..Len(cs) : s[Len(before) + j] = cs[j]
  BY <1>4, <1>7, ConcatAt
<1> DEFINE p == Len(before) + k
<1>9. DOMAIN cs = 1..Len(cs) /\ DOMAIN s = 1..Len(s) /\ k \in Nat
  BY <1>4, <1>5, <1>8
<1>10. p \in DOMAIN s /\ s[p] = cs[k]
  BY <1>5, <1>8, <1>9
<1>11. ASSUME NEW q \in DOMAIN s \cap I PROVE q <= p
  <2>1. SUFFICES ASSUME ~(q <= p) PROVE FALSE
    OBVIOUS
  <2> DEFINE j == q - Len(before)
  <2>2. j \in 1..Len(cs) /\ j # k /\ q = Len(before) + j /\ j \in Nat
    BY <1>5, <1>8, <1>9, <2>1
  <2> HIDE DEF j, p
  <2>3. cs[j].id = id
    BY <1>8, <2>2
  <2>4. cs[j].id \in {Minted(j), <<t, j>>} /\ cs[k].id \in {Minted(k), <<t, k>>}
    BY <1>5, <1>6, <1>9, <2>2
  <2>5. cs[j].id = cs[k].id
    BY <1>5, <2>3
  <2>6. \A a, b \in {Minted(j), <<t, j>>} : a[2] = j
    BY <2>2 DEF Minted
  <2>7. \A a \in {Minted(k), <<t, k>>} : a[2] = k
    BY <1>9 DEF Minted
  <2>8. cs[j].id[2] = j /\ cs[k].id[2] = k
    BY <2>4, <2>6, <2>7
  <2> QED
    BY <2>2, <2>5, <2>8
<1>12. p \in DOMAIN s \cap I
  BY <1>5, <1>10
<1> HIDE DEF I, p
<1>13. SubseqAt(s, I) # <<>> /\ Last(SubseqAt(s, I)) = s[p]
  BY <1>8, <1>11, <1>12, SubseqAtLast
<1>14. CallsUnder(h, i - 1, id) = SubseqAt(s, I)
  BY DEF CallsUnder, s, I
<1> QED
  BY <1>5, <1>10, <1>13, <1>14 DEF id

\* Every message the caller put in that reads <<[text |-> i]>> is the i-th.
LEMMA OnlyOneReads ==
  ASSUME NEW m \in Msg, NEW i \in Nat, NEW j \in Nat, m.text \in {0, j},
         TextPart(m) \o CallParts(m) = <<[text |-> i]>>
  PROVE  i = j
<1> DEFINE S == Said \cup Asked
           tp == TextPart(m)
           cp == CallParts(m)
<1>1. /\ tp \in Seq(S) /\ cp \in Seq(S)
      /\ DOMAIN cp = DOMAIN m.calls
      /\ \A k \in DOMAIN cp : cp[k] = [call |-> m.calls[k]]
  BY PartsTyped
<1>2. \A c : [call |-> c] # [text |-> i]
  <2> TAKE c
  <2>1. DOMAIN [call |-> c] = {"call"} /\ DOMAIN [text |-> i] = {"text"}
    OBVIOUS
  <2>2. "call" # "text"
    OBVIOUS
  <2> QED
    BY <2>1, <2>2
<1>3. /\ tp = IF m.text = 0 THEN <<>> ELSE <<[text |-> m.text]>>
      /\ tp \o cp = <<[text |-> i]>>
  BY DEF TextPart
<1> HIDE DEF S, tp, cp
<1>4. CASE m.text = 0
  <2>1. tp = <<>> /\ <<>> \o cp = cp
    BY <1>1, <1>3, <1>4
  <2>2. cp = <<[text |-> i]>>
    BY <1>3, <2>1
  <2>3. 1 \in DOMAIN cp /\ cp[1] = [text |-> i]
    BY <2>2
  <2> QED
    BY <1>1, <1>2, <2>3
<1>5. CASE m.text # 0
  <2> DEFINE x == [text |-> m.text]
             y == [text |-> i]
  <2>1. tp = <<x>>
    BY <1>3, <1>5
  <2> HIDE DEF x, y
  <2>2. (tp \o cp)[1] = x
    BY <1>1, <2>1
  <2>3. tp \o cp = <<y>>
    BY <1>3 DEF y
  <2>4. x = y
    BY <2>2, <2>3
  <2>5. x.text = m.text /\ y.text = i
    BY DEF x, y
  <2> QED
    BY <1>5, <2>4, <2>5
<1> QED
  BY <1>4, <1>5

\* In both dialects that name a call by its id, the text of a tool's message
\* goes out once, with the id that came with it.
LEMMA ReferencesAreKept ==
  ASSUME Shape, NEW i \in DOMAIN transcript, transcript[i].role = "tool",
         NEW d \in {"openai", "anthropic"},
         NEW w \in ToSet(Request(d, Sent.messages).messages), w.parts = <<[text |-> i]>>
  PROVE  w.ref = transcript[i].answers
<1> DEFINE h == Sent.messages
<1>1. /\ h \in Seq(Msg) /\ DOMAIN h = DOMAIN transcript
      /\ \A j \in DOMAIN transcript :
           /\ h[j].role = transcript[j].role /\ h[j].answers = transcript[j].answers
           /\ h[j].text \in {0, j}
           /\ transcript[j].role # "assistant" => h[j].text = j
  BY SentIs
<1>2. \A j \in DOMAIN transcript : j \in Nat /\ j # 0
  BY ShapeLengths
<1>3. w \in ToSet(Request(d, h).messages)
  OBVIOUS
<1> HIDE DEF h
<1>4. CASE d = "openai"
  <2>1. Request(d, h).messages = [j \in DOMAIN h |-> openaiRequestMessage(h[j])]
    BY <1>4 DEF Request, openaiRequest
  <2>2. PICK j \in DOMAIN h : w = openaiRequestMessage(h[j])
    BY <1>3, <2>1 DEF ToSet
  <2>3. w.parts = TextPart(h[j]) \o CallParts(h[j]) /\ w.ref = h[j].answers
    BY <2>2 DEF openaiRequestMessage, Wire
  <2>4. h[j] \in Msg /\ j \in Nat /\ i \in Nat /\ h[j].text \in {0, j}
    BY <1>1, <1>2, <2>2
  <2>5. i = j
    BY <2>3, <2>4, OnlyOneReads
  <2> QED
    BY <1>1, <2>3, <2>5
<1>5. CASE d = "anthropic"
  <2> DEFINE turns == NotOfRole(h, "system")
  <2>1. Request(d, h).messages = [x \in DOMAIN turns |-> anthropicRequestMessage(turns[x])]
    BY <1>5 DEF Request, anthropicRequest
  <2>2. turns \in Seq(Msg) /\ ToSet(turns) \subseteq {h[j] : j \in DOMAIN h}
    BY <1>1, SubseqAtTyped DEF NotOfRole
  <2> HIDE DEF turns
  <2>3. PICK x \in DOMAIN turns : w = anthropicRequestMessage(turns[x])
    BY <1>3, <2>1 DEF ToSet
  <2>4. turns[x] \in ToSet(turns)
    BY <2>3 DEF ToSet
  <2>5. PICK j \in DOMAIN h : turns[x] = h[j]
    BY <2>2, <2>4
  <2> DEFINE m == h[j]
  <2>6. m \in Msg /\ j \in Nat /\ j # 0 /\ i \in Nat /\ m.text \in {0, j}
    BY <1>1, <1>2, <2>5
  <2>7. w = anthropicRequestMessage(m)
    BY <2>3, <2>5
  <2>8. m.role # "assistant" => m.text = j
    BY <1>1, <2>5
  <2> HIDE DEF m
  <2>9. CASE m.role = "tool"
    <3>1. w.parts = <<[text |-> m.text]>> /\ w.ref = m.answers
      BY <2>7, <2>9 DEF anthropicRequestMessage, Wire
    <3>2. m.text = i
      <4>1. <<[text |-> m.text]>>[1] = [text |-> m.text] /\ <<[text |-> i]>>[1] = [text |-> i]
        OBVIOUS
      <4>2. [text |-> m.text] = [text |-> i]
        BY <3>1, <4>1
      <4>3. [text |-> m.text].text = m.text /\ [text |-> i].text = i
        OBVIOUS
      <4> QED
        BY <4>2, <4>3
    <3>3. i = j
      BY <2>8, <2>9, <3>2
    <3> QED
      BY <1>1, <3>1, <3>3 DEF m
  <2>10. CASE m.role # "tool"
    <3>1. w.parts = TextPart(m) \o CallParts(m)
      BY <2>7, <2>10 DEF anthropicRequestMessage, Wire
    <3>2. i = j
      BY <2>6, <3>1, OnlyOneReads
    <3> QED
      BY <1>1, <2>10, <3>2 DEF m
  <2> QED
    BY <2>9, <2>10
<1> QED
  BY <1>4, <1>5

\* Whichever dialect a transcript is put in, each tool result names the call it
\* answers, though ids come from three mints and one of them starts again with
\* every turn (ollama_req.go:76-81, ollama_resp.go:49-53).
THEOREM ConversationResultsReachTheirCalls == Spec => []ResultsReachTheirCalls
<1>1. IInv => ResultsReachTheirCalls
  <2> SUFFICES ASSUME Shape, ResultsAnswer, NEW i \in DOMAIN meant, meant[i] # NoId
               PROVE  LET place == meant[i]
                          call  == transcript[place[1]].calls[place[2]]
                          h     == Sent.messages
                          refs  == [d \in {"openai", "anthropic"} |->
                                      {w \in ToSet(Request(d, h).messages) : w.parts = <<[text |-> i]>>}]
                          seen  == CallsUnder(h, i - 1, call.id)
                      IN  /\ \A d \in DOMAIN refs : \A w \in refs[d] : w.ref = call.id
                          /\ Last(seen) = call
                          /\ Request("ollama", h).messages[i].ref = call.name
    BY DEF IInv, ResultsReachTheirCalls
  <2> DEFINE h    == Sent.messages
             refs == [d \in {"openai", "anthropic"} |->
                        {w \in ToSet(Request(d, h).messages) : w.parts = <<[text |-> i]>>}]
  <2>1. PICK t \in Nat, k \in Nat : meant[i] = <<t, k>> /\ AnswersCall(transcript, i, t, k)
    BY DEF ResultsAnswer
  <2> DEFINE call == transcript[t].calls[k]
  <2>2. /\ i \in DOMAIN transcript /\ i \in Nat /\ DOMAIN transcript = 1..Len(transcript)
        /\ Len(transcript) \in Nat
    BY ShapeLengths
  <2>3. /\ t \in 1..(i - 1) /\ k \in DOMAIN transcript[t].calls
        /\ transcript[i].role = "tool" /\ transcript[i].answers = call.id
        /\ \A j \in (t + 1)..(i - 1) : transcript[j].calls = <<>>
    BY <2>1 DEF AnswersCall
  <2>4. /\ h \in Seq(Msg) /\ DOMAIN h = DOMAIN transcript
        /\ \A j \in DOMAIN transcript :
             /\ h[j].role = transcript[j].role /\ h[j].answers = transcript[j].answers
             /\ h[j].calls = transcript[j].calls
    BY SentIs
  <2>5. ASSUME NEW d \in DOMAIN refs, NEW w \in refs[d] PROVE w.ref = call.id
    <3>1. d \in {"openai", "anthropic"} /\ w \in ToSet(Request(d, Sent.messages).messages)
          /\ w.parts = <<[text |-> i]>>
      OBVIOUS
    <3> QED
      BY <2>2, <2>3, <3>1, ReferencesAreKept
  <2> HIDE DEF h
  <2>6. t \in DOMAIN transcript /\ \A j \in (t + 1)..(i - 1) : j \in DOMAIN transcript
    BY <2>2, <2>3
  <2>7. h[t].calls = transcript[t].calls /\ \A j \in (t + 1)..(i - 1) : h[j].calls = <<>>
    BY <2>3, <2>4, <2>6
  <2>8. \A j \in DOMAIN transcript[t].calls : transcript[t].calls[j].id \in {Minted(j), <<t, j>>}
    BY <2>6 DEF Shape, WellFormed
  <2> DEFINE seen == CallsUnder(h, i - 1, call.id)
  <2>9. seen # <<>> /\ Last(seen) = call
    <3>1. /\ i \in DOMAIN h /\ t \in 1..(i - 1) /\ k \in DOMAIN h[t].calls
          /\ \A j \in DOMAIN h[t].calls : h[t].calls[j].id \in {Minted(j), <<t, j>>}
          /\ h[t].calls[k] = call
      BY <2>2, <2>3, <2>4, <2>7, <2>8
    <3> HIDE DEF call
    <3> QED
      BY <2>4, <2>7, <3>1, LastUnderId
  <2>10. Request("ollama", h).messages[i].ref = call.name
    <3>1. Request("ollama", h).messages[i] = ollamaRequestMessage(h, i)
      BY <2>2, <2>4 DEF Request, ollamaRequest
    <3>2. h[i].role = "tool" /\ h[i].answers = call.id
      BY <2>2, <2>3, <2>4
    <3>3. ollamaRequestMessage(h, i).ref = toolName(h, i - 1, call.id)
      BY <3>2 DEF ollamaRequestMessage, Wire
    <3>4. toolName(h, i - 1, call.id) = Last(seen).name
      BY <2>9 DEF toolName
    <3> QED
      BY <2>9, <3>1, <3>3, <3>4
  <2>11. meant[i][1] = t /\ meant[i][2] = k
    BY <2>1
  <2> QED
    BY <2>5, <2>9, <2>10, <2>11 DEF h
<1> QED
  BY <1>1, ConversationInvariant, PTL
=============================================================================
