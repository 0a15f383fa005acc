----------------------------- MODULE Conversation -----------------------------
(***************************************************************************)
(* A caller's conversation over many requests, each of which may be served *)
(* by another provider: routing and failover choose per request, and what  *)
(* one dialect answered is put to the next.  The gateway keeps nothing     *)
(* between requests (handler.go:15-37); the caller's transcript is the     *)
(* state.  A caller answers the calls of one turn, in any order, before it *)
(* goes on.                                                                *)
(***************************************************************************)
EXTENDS Dialects

CONSTANTS MaxLen,      \* longest transcript
          MaxCalls     \* most calls in one turn

ASSUME ConversationAssumption == MaxLen \in Nat /\ MaxCalls \in Nat

VARIABLES transcript,  \* what the caller will send: messages as on the wire
          meant,       \* history: the call each of its tool messages answers
          last         \* the attempt just made: how its exchange went, what came of it

vars == <<transcript, meant, last>>

\* The identity of a call is where it stands.
Place == Nat \X Nat
NoAttempt == [dialect |-> "none", sent |-> FALSE]

TypeOK ==
  /\ Len(transcript) <= MaxLen /\ Len(meant) = Len(transcript)
  /\ \A i \in DOMAIN meant : meant[i] = NoId \/ meant[i] \in Place
  /\ last = NoAttempt \/ last.dialect \in Dialect

Init ==
  /\ transcript = <<>>
  /\ meant = <<>>
  /\ last = NoAttempt

\* The calls of the last turn that have no result yet.
Turn == LET turns == {i \in DOMAIN transcript : transcript[i].role = "assistant"}
        IN  IF turns = {} THEN 0 ELSE CHOOSE i \in turns : \A j \in turns : j <= i

Pending ==
  IF Turn = 0 THEN {}
  ELSE {<<Turn, k>> : k \in DOMAIN transcript[Turn].calls} \ ToSet(meant)

Say(m, place) ==
  /\ transcript' = Append(transcript, m)
  /\ meant' = Append(meant, place)

\* Anything a caller may add before it asks; texts are all different.
Ask(role) ==
  /\ Len(transcript) < MaxLen
  /\ Pending = {}
  /\ Say(Message(role, Len(transcript) + 1, <<>>, NoId), NoId)
  /\ last' = NoAttempt

Reply(place) ==
  /\ Len(transcript) < MaxLen
  /\ place \in Pending
  /\ Say(Message("tool", Len(transcript) + 1, <<>>, transcript[place[1]].calls[place[2]].id),
         place)
  /\ last' = NoAttempt

-----------------------------------------------------------------------------
\* What a provider may answer.  Ids of its own are new; Ollama has none, and
\* only OpenAI's arguments are a string that may hold anything.
ArgsOf(d)  == IF d = "openai" THEN {"object", "broken"} ELSE {"object"}
CallsOf(d) == UNION {[1..n -> Names \X ArgsOf(d)] : n \in 0..MaxCalls}

Numbered(d, cs) ==
  [k \in DOMAIN cs |->
     Call(IF d = "ollama" THEN NoId ELSE <<Len(transcript) + 1, k>>, cs[k][1], cs[k][2])]

Body(text, calls, stopped, whole) ==
  [text |-> text, calls |-> calls, stopped |-> stopped, whole |-> whole]

NoBody == Body(0, <<>>, "stop", FALSE)

\* Why a model stops says nothing of what it wrote, so any body has one reason
\* and one body has them all.
Finished(d) == IF d = "anthropic" THEN "end_turn" ELSE "stop"

Written(d, text) == {Body(text, Numbered(d, cs), Finished(d), TRUE) : cs \in CallsOf(d)}

Bodies(d) ==
  Written(d, 0) \cup Written(d, Len(transcript) + 1)
  \cup {Body(0, <<>>, s, TRUE) : s \in DOMAIN FinishReasons(d) \cup {"content_filter"}}
  \cup {NoBody}

Exchange(got, deadline, status, json, body) ==
  [got |-> got, deadline |-> deadline, status |-> status, json |-> json, body |-> body]

Exchanges(d) ==
  {Exchange("nothing", dl, 0, FALSE, NoBody) : dl \in BOOLEAN}
  \cup {Exchange("part", dl, 200, FALSE, NoBody) : dl \in BOOLEAN}
  \cup {Exchange("all", FALSE, s, FALSE, NoBody) : s \in {200, 401, 403, 429, 500}}
  \cup {Exchange("all", FALSE, 200, TRUE, b) : b \in Bodies(d)}

\* handleChat, as far as the dialects go: the transcript is decoded and put to
\* a provider; an answer is written out and joins the transcript, a fault
\* leaves it.
Attempt(d, x) ==
  /\ Len(transcript) < MaxLen
  /\ transcript # <<>> /\ Pending = {}
  /\ transcript[Len(transcript)].role # "assistant"
  /\ decodeChatRequest(transcript).ok
  /\ LET r == Complete(d, decodeChatRequest(transcript).messages, x)
     IN  /\ last' = [dialect |-> d, got |-> x.got, deadline |-> x.deadline,
                     status |-> x.status, outcome |-> IF r.ok THEN "ok" ELSE r.kind,
                     sent |-> Marshals(d, decodeChatRequest(transcript).messages),
                     billed |-> billsDespiteFailure(r)]
         /\ IF r.ok THEN Say(messageToWire(r.message), NoId)
                    ELSE UNCHANGED <<transcript, meant>>

Next ==
  \/ \E role \in {"system", "user"} : Ask(role)
  \/ \E place \in Pending : Reply(place)
  \/ \E d \in Dialect : \E x \in Exchanges(d) : Attempt(d, x)

Spec == Init /\ [][Next]_vars

-----------------------------------------------------------------------------
Sent == decodeChatRequest(transcript)

\* The transcript a caller builds from the gateway's own answers is one the
\* gateway accepts, at every turn (openapi.go, messageToWire: "mirroring what
\* the schema accepts inbound").
AnswersCanBeSentBack == Sent.ok

\* Whichever dialect a transcript is put in, each tool result names the call it
\* answers, though ids come from three mints and one of them starts again with
\* every turn (ollama_req.go:76-81, ollama_resp.go:49-53, architecture-brief.md
\* "Tool calling crosses unchanged").
ResultsReachTheirCalls ==
  \A i \in DOMAIN meant : meant[i] # NoId =>
    LET place == meant[i]
        call  == transcript[place[1]].calls[place[2]]
        h     == Sent.messages
        refs  == [d \in {"openai", "anthropic"} |->
                    {w \in ToSet(Request(d, h).messages) : w.parts = <<[text |-> i]>>}]
        seen  == CallsUnder(h, i - 1, call.id)
    IN  /\ \A d \in DOMAIN refs : \A w \in refs[d] : w.ref = call.id
        /\ Last(seen) = call
        /\ Request("ollama", h).messages[i].ref = call.name

\* Every text and every call of the transcript is in the request, in order and
\* once: system texts apart where the dialect wants them apart, ids where it
\* has them (openai_req.go, anthropic_req.go, ollama_req.go).
Parts(ms)   == FlattenSeq([i \in DOMAIN ms |-> ms[i].parts])
Full(ms)    == FlattenSeq([i \in DOMAIN ms |-> TextPart(ms[i]) \o CallParts(ms[i])])
Nameless(p) == IF "call" \in DOMAIN p THEN [call |-> [p.call EXCEPT !.id = NoId]] ELSE p

NothingIsLost ==
  LET h      == Sent.messages
      System == OfRole(h, "system")
  IN  /\ Parts(Request("openai", h).messages) = Full(h)
      /\ Parts(Request("anthropic", h).messages) = Full(NotOfRole(h, "system"))
      /\ Request("anthropic", h).system = [i \in DOMAIN System |-> System[i].text]
      /\ Parts(Request("ollama", h).messages)
           = [k \in DOMAIN Full(h) |-> Nameless(Full(h)[k])]

\* What was sent is priced exactly when a provider may have billed it: a
\* deadline that passed, or a 200 read to its end and not understood; never a
\* refusal (shared/utils.go:10-14, decision #6).  A 200 whose body breaks off
\* is left out: the code calls it unreachable, and so free.
OnlyBillableIsPriced ==
  last.sent /\ (last.got = "part" => last.deadline) =>
    (last.billed <=> \/ last.deadline
                     \/ last.got = "all" /\ last.status = 200 /\ last.outcome # "ok")
=============================================================================
