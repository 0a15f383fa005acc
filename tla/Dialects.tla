------------------------------- MODULE Dialects -------------------------------
(***************************************************************************)
(* internal/openai, internal/anthropic and internal/ollama, with the edge  *)
(* (internal/api/openapi.go) in front of them: how one conversation is put *)
(* to each provider, and what each provider's answer becomes.  A text is a *)
(* number (0: empty), a call id a pair, a call's arguments what json makes *)
(* of them: an object's bytes, or bytes that are no JSON.                  *)
(***************************************************************************)
EXTENDS Integers, Subsequences

CONSTANTS Names        \* functions the caller declares

Dialect == {"openai", "anthropic", "ollama"}
NoId    == <<>>        \* the empty tool_call_id

Call(id, name, args) == [id |-> id, name |-> name, args |-> args]

\* gateway.Message; answers is its ToolCallID.
Message(role, text, calls, answers) ==
  [role |-> role, text |-> text, calls |-> calls, answers |-> answers]

-----------------------------------------------------------------------------
\* The edge: a message decoded from the wire, null content being -1, is
\* refused or taken over; reject stops at the first refusal.
Refused(m) ==
  \/ m.role \notin {"system", "user", "assistant", "tool"}
  \/ m.text = -1 /\ ~(m.role = "assistant" /\ m.calls # <<>>)
  \/ m.role = "tool" /\ m.answers = NoId
  \/ m.role # "assistant" /\ m.calls # <<>>

decodeChatRequest(wire) ==
  IF \E i \in DOMAIN wire : Refused(wire[i]) THEN [ok |-> FALSE]
  ELSE [ok |-> TRUE,
        messages |-> [i \in DOMAIN wire |->
                        [wire[i] EXCEPT !.text = IF @ = -1 THEN 0 ELSE @]]]

messageToWireMutNullContent(m) == [m EXCEPT !.text = IF @ = 0 THEN -1 ELSE @]

\* The answer on its way out: content is null when there is none and calls
\* stand in for it.
messageToWire(m) == [m EXCEPT !.text = IF @ = 0 /\ m.calls # <<>> THEN -1 ELSE @]

-----------------------------------------------------------------------------
\* The requests.  A wire message is its role, its parts in their order, and
\* how a tool's result says which call it answers: by id, or by name.
Wire(role, parts, ref) == [role |-> role, parts |-> parts, ref |-> ref]

TextPart(m)   == IF m.text = 0 THEN <<>> ELSE <<[text |-> m.text]>>
CallParts(m)  == [k \in DOMAIN m.calls |-> [call |-> m.calls[k]]]

openaiRequestMessage(m) == Wire(m.role, TextPart(m) \o CallParts(m), m.answers)

openaiRequest(h) ==
  [system |-> <<>>, messages |-> [i \in DOMAIN h |-> openaiRequestMessage(h[i])]]

\* A result is a block of a user's message; a call keeps the caller's id.
anthropicRequestMessage(m) ==
  IF m.role = "tool"
  THEN Wire("user", <<[text |-> m.text]>>, m.answers)
  ELSE Wire(m.role, TextPart(m) \o CallParts(m), NoId)

\* The messages of a role, and the others, in their order.
OfRole(h, role)    == SubseqAt(h, {i \in DOMAIN h : h[i].role = role})
NotOfRole(h, role) == SubseqAt(h, {i \in DOMAIN h : h[i].role # role})

anthropicRequestMutLastSystem(h) ==
  LET system == OfRole(h, "system")
      turns  == NotOfRole(h, "system")
  IN  [system   |-> IF system = <<>> THEN <<>> ELSE <<Last(system).text>>,
       messages |-> [i \in DOMAIN turns |-> anthropicRequestMessage(turns[i])]]

\* System messages, wherever they stand, are joined into the top-level field.
anthropicRequest(h) ==
  LET system == OfRole(h, "system")
      turns  == NotOfRole(h, "system")
  IN  [system   |-> [i \in DOMAIN system |-> system[i].text],
       messages |-> [i \in DOMAIN turns |-> anthropicRequestMessage(turns[i])]]

\* The calls a reader of the first n messages has seen, in order.
CallsSeen(h, n) == FlattenSeq([i \in 1..n |-> h[i].calls])

\* Those of them under one id.
CallsUnder(h, n, id) ==
  LET calls == CallsSeen(h, n)
  IN  SubseqAt(calls, {k \in DOMAIN calls : calls[k].id = id})

toolNameMutFirst(h, n, id) ==
  IF CallsUnder(h, n, id) = <<>> THEN "" ELSE Head(CallsUnder(h, n, id)).name

\* toolNames: a call's name replaces that of an earlier call of the same id.
toolName(h, n, id) ==
  IF CallsUnder(h, n, id) = <<>> THEN "" ELSE Last(CallsUnder(h, n, id)).name

\* This wire has no ids: calls lose theirs, and a result names its function.
ollamaRequestMessage(h, i) ==
  Wire(h[i].role,
       TextPart(h[i]) \o [k \in DOMAIN h[i].calls |->
                            [call |-> [h[i].calls[k] EXCEPT !.id = NoId]]],
       IF h[i].role = "tool" THEN toolName(h, i - 1, h[i].answers) ELSE "")

ollamaRequest(h) ==
  [system |-> <<>>, messages |-> [i \in DOMAIN h |-> ollamaRequestMessage(h, i)]]

\* json.Marshal writes arguments into these two wires as they are, and fails
\* on what is no JSON; the third has them in a string.
Marshals(d, h) ==
  d = "openai" \/ \A i \in DOMAIN h : \A k \in DOMAIN h[i].calls : h[i].calls[k].args = "object"

Request(d, h) ==
  CASE d = "openai"    -> openaiRequest(h)
    [] d = "anthropic" -> anthropicRequest(h)
    [] d = "ollama"    -> ollamaRequest(h)

-----------------------------------------------------------------------------
\* The answers.  A 200's body as the provider means it: its texts and calls,
\* why it stopped, and whether it is whole (choices present; done).
FinishReasons(d) ==
  CASE d = "openai"    -> [stop |-> "stop", length |-> "length", tool_calls |-> "tool_calls"]
    [] d = "anthropic" -> [end_turn |-> "stop", stop_sequence |-> "stop",
                           max_tokens |-> "length", tool_use |-> "tool_calls"]
    [] d = "ollama"    -> [stop |-> "stop", length |-> "length"]

\* A completion, or a fault with or without the usage it could still read.
Completed(m, finish)  == [ok |-> TRUE, message |-> m, finish |-> finish]
Fault(kind, observed) == [ok |-> FALSE, kind |-> kind, observed |-> observed]
BadResponse(observed) == Fault("bad_response", observed)

\* Ollama's calls come without ids: the adapter mints one for each, unique
\* within the message.
Minted(k) == <<0, k>>

IdsOf(d, calls) ==
  IF d = "ollama" THEN [k \in DOMAIN calls |-> [calls[k] EXCEPT !.id = Minted(k)]]
                  ELSE calls

FinishOf(d, body) ==
  CASE d = "ollama" /\ body.calls # <<>> -> "tool_calls"
    [] d = "ollama" /\ body.calls = <<>> -> IF body.stopped = "length" THEN "length" ELSE "stop"
    [] OTHER -> FinishReasons(d)[body.stopped]

\* No choices, not done, or a stop no one knows.
Unusable(d, body) ==
  \/ d # "anthropic" /\ ~body.whole
  \/ d # "ollama" /\ body.stopped \notin DOMAIN FinishReasons(d)

toDomain(d, body) ==
  IF Unusable(d, body) THEN BadResponse(TRUE)
  ELSE Completed(Message("assistant", body.text, IdsOf(d, body.calls), NoId),
                 FinishOf(d, body))

-----------------------------------------------------------------------------
\* One exchange with the provider: no response came, a status did, and the
\* body after it could be read, decoded, or neither.
TransportFault(deadline) ==
  Fault(IF deadline THEN "timeout" ELSE "unreachable", FALSE)

StatusFaultMutBills(status) ==
  CASE status = 429 -> Fault("throttled", FALSE)
    [] status \in {401, 403} -> Fault("rejected", FALSE)
    [] OTHER -> BadResponse(FALSE)

StatusFault(status) ==
  CASE status = 429 -> Fault("throttled", FALSE)
    [] status \in {401, 403} -> Fault("rejected", FALSE)
    [] OTHER -> Fault("server_error", FALSE)

\* Complete, alike in the three adapters: encode, send, read, judge, decode.
Complete(d, h, x) ==
  CASE ~Marshals(d, h)                -> BadResponse(FALSE)
    [] Marshals(d, h) /\ x.got = "nothing" -> TransportFault(x.deadline)
    [] Marshals(d, h) /\ x.got = "part"    -> TransportFault(x.deadline)
    [] Marshals(d, h) /\ x.got = "all" /\ x.status # 200 -> StatusFault(x.status)
    [] Marshals(d, h) /\ x.got = "all" /\ x.status = 200 ->
         IF x.json THEN toDomain(d, x.body) ELSE BadResponse(FALSE)

\* gateway/errors.go: the kinds that are priced.
billsDespiteFailure(r) == ~r.ok /\ r.kind \in {"timeout", "bad_response"}
=============================================================================
