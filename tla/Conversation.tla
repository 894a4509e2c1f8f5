---------------------------- MODULE Conversation ----------------------------
(***************************************************************************)
(* A conversation that goes from model to model, and the requests that     *)
(* could be made of it whenever a user or a tool has spoken. It grows by   *)
(* what agents and users of the library do: answers that finish or break   *)
(* off, tools whose results arrive in the order of the calls               *)
(* (agent_loop.rs) and may stop arriving when a run is dropped, failure    *)
(* reports, and user messages whenever somebody writes one.                *)
(***************************************************************************)
EXTENDS RequestPayloads, FiniteSets

CONSTANTS
  Models,      \* models a request may be for: records, see ModelType
  Authors,     \* models that answer
  MaxMessages

ModelType ==
  [name : STRING, provider : STRING, api : {"anthropic", "completions", "responses"},
   images : BOOLEAN,          \* model.input has images
   openAiIds : BOOLEAN,       \* provider is one of OPENAI_TOOL_CALL_PROVIDERS
   grammars : BOOLEAN,        \* supports_openai_grammar_tools
   loads : BOOLEAN,           \* tools may be loaded by the conversation
   bridge : BOOLEAN,          \* requires_assistant_after_tool_result
   thinkingAsText : BOOLEAN]  \* requires_thinking_as_text

ASSUME ConversationAssumption == Authors \subseteq Models /\ MaxMessages \in Nat

VARIABLES
  messages,
  requests,  \* what each model would be asked now
  before     \* what it was asked last, by a run that had its tools answered

vars == <<messages, requests, before>>

RequestFor(history, m) ==
  CASE m.api = "anthropic" -> AnthropicMessages(history, m)
    [] m.api = "completions" -> CompletionsMessages(history, m)
    [] m.api = "responses" -> ResponsesMessages(history, m)

\* The tools that are declared with the request itself.
UpfrontFor(history, m) ==
  Tools \ CASE m.api = "anthropic" -> AnthropicDeferred(history, m)
            [] m.api = "completions" -> CompletionsDeferred(history, m)
            [] m.api = "responses" -> Deferred(history, m.loads)

RequestsOf(history) ==
  [m \in Models |-> [messages |-> RequestFor(history, m), upfront |-> UpfrontFor(history, m),
                     added |-> Added(history) \cap Tools]]
NoRequests == [m \in Models |-> [messages |-> <<>>, upfront |-> Tools, added |-> {}]]

Init == messages = <<>> /\ requests = NoRequests /\ before = NoRequests

-----------------------------------------------------------------------------
\* Calls of the last answer that have no result yet.
OpenCalls ==
  LET results == {k \in 0..Len(messages) : \A i \in (Len(messages) - k + 1)..Len(messages) :
                    messages[i].role = "toolResult"}
      behind == CHOOSE k \in results : \A l \in results : l <= k
      at == Len(messages) - behind
  IN IF at = 0 \/ messages[at].role # "assistant" \/ messages[at].stop = "error" THEN <<>>
     ELSE SubSeq(CallsOf(messages[at].content), behind + 1, Len(CallsOf(messages[at].content)))

\* An answer can be asked for when the user or a tool has spoken; the loop asks
\* when all tools have run.
Asked == messages # <<>> /\ Last(messages).role # "assistant"
LoopAsks == Asked /\ OpenCalls = <<>>

Room(n) == Len(messages) + n <= MaxMessages
Say(msg) ==
  /\ Room(1)
  /\ messages' = Append(messages, msg)
  /\ requests' = IF msg.role = "assistant" THEN NoRequests ELSE RequestsOf(messages')
  /\ before' = IF LoopAsks THEN requests ELSE before

\* A server that numbers its calls gives no number twice.
Numbered ==
  FoldLeft(LAMBDA n, msg : IF msg.role = "assistant" THEN n + Len(CallsOf(msg.content)) ELSE n,
           0, messages)

NewCall(m, name, k) ==
  Call([n |-> Numbered + k, by |-> m.name,
        tail |-> IF m.api # "responses" THEN None
                 ELSE IF m.grammars /\ name \in GrammarTools THEN "ctc" ELSE "fc"],
       name, m.name)

\* What an answer may be made of.
Contents(m) ==
  {<<Thinking(m.name, TRUE)>>, <<Thinking(None, FALSE), Text(m.name)>>}
  \cup {<<Thinking(m.name, FALSE), NewCall(m, t, 1)>> : t \in Tools}
  \cup {<<NewCall(m, t, 1), NewCall(m, u, 2)>> : t \in Tools \ GrammarTools, u \in GrammarTools}
  \cup (IF m.api = "anthropic" THEN {<<Redacted(m.name)>>} ELSE {})

Prompt ==
  \E parts \in {<<"text">>, <<"blank">>, <<"image", "image">>} : Say(User(parts))

Respond ==
  /\ LoopAsks /\ Room(2)
  /\ \E m \in Authors : \E content \in Contents(m) : Say(Assistant(m, content, "stop"))

\* One result, of a tool that may make another one available or show an image.
RunTool ==
  /\ OpenCalls # <<>>
  /\ \E adds \in {<<>>} \cup {<<t>> : t \in GrammarTools}, image \in BOOLEAN :
       /\ adds = <<>> \/ ~image
       /\ Say(ToolResult(OpenCalls[1].id, OpenCalls[1].name, adds, image))

\* emit_run_failure, or an answer that broke off, perhaps in a tool call.
Fail ==
  /\ messages # <<>> /\ Room(2)
  /\ \E m \in Authors : \E content \in {<<>>, <<Thinking(m.name, FALSE), NewCall(m, CHOOSE t \in GrammarTools : TRUE, 1)>>} :
       Say(Assistant(m, content, "error"))

Full == Len(messages) = MaxMessages /\ UNCHANGED vars

Next == Prompt \/ Respond \/ RunTool \/ Fail \/ Full

Spec == Init /\ [][Next]_vars

-----------------------------------------------------------------------------
CallTypes == {"call", "custom"}
ResultTypes == {"result", "customResult"}
Only(msg, types) == SelectSeq(msg.blocks, LAMBDA b : b.type \in types)

\* The tool results that follow message i, before anybody else speaks.
ResultsAfter(request, i) ==
  LET spoken == {j \in (i + 1)..Len(request) :
                   request[j].role # "search" /\ Only(request[j], ResultTypes) = <<>>}
      last == IF spoken = {} THEN Len(request) ELSE (CHOOSE j \in spoken : \A l \in spoken : j <= l) - 1
  IN FlattenSeq([k \in 1..(last - i) |-> Only(request[i + k], ResultTypes)])

\* The calls of an answer and the results after it: the same ids, in the same
\* form, of the same kind, each once.
Match(calls, results) ==
  /\ Len(results) = Len(calls)
  /\ \A c \in Names(calls) : \E r \in Names(results) :
       r.id = c.id /\ r.name = c.name /\ (c.type = "custom") = (r.type = "customResult")

\* Holds(request, model) of every request there could be now.
OfEveryRequest(Holds(_, _)) == \A m \in Models : Holds(requests[m].messages, m)

\* Providers refuse a request in which a call has no result next to it, or a
\* result no call.  Whatever broke off, whichever models had the conversation
\* before and whatever became of their ids, each call of each request has its
\* result right behind it, and there are no others.
Speaks(msg) == msg.role # "search" /\ Only(msg, ResultTypes) = <<>>
CallsAnswered(request, m) ==
  /\ \A i \in DOMAIN request : Speaks(request[i]) =>
       Match(Only(request[i], CallTypes), ResultsAfter(request, i))
  /\ request # <<>> => Speaks(request[1])

\* No message is without content, none shows an image to a model without
\* eyes, and where a model wants to speak between its tools and its user, it does.
SpokenInTurn(request, m) ==
  \A i \in DOMAIN request :
    /\ request[i].blocks # <<>>
    /\ m.images \/ \A b \in Names(request[i].blocks) : b.type # "image" /\ ~b.shows
    /\ m.bridge /\ request[i].role = "user" =>
         \A j \in 1..(i - 1) :
           request[j].role = "tool" => \E k \in j..i : request[k].role = "assistant"

\* What only its author understands goes to nobody else: signatures, redacted
\* thinking and item ids, which a provider would refuse; and an item id of a
\* custom call never comes with a function call.
Understood(request, m) ==
  \A i \in DOMAIN request : \A b \in Names(request[i].blocks) :
    /\ b.sig \in {None, m.name}
    /\ b.item = NoItem \/ b.item.by = m.name \/ b.item.tail = "fcHash"
    /\ b.type = "call" => b.item.tail # "ctc"

\* The three together: no provider has a reason to refuse a request for its form.
ProvidersAccept ==
  OfEveryRequest(LAMBDA request, m :
    CallsAnswered(request, m) /\ SpokenInTurn(request, m) /\ Understood(request, m))

\* A result named the tool only after it had been called: it had been there
\* all along.
CalledThenNamed(t) ==
  /\ t \in Added(messages)
  /\ \E i \in {k \in DOMAIN messages : messages[k].role = "assistant"} :
       /\ \E c \in Names(CallsOf(messages[i].content)) : c.name = t
       /\ t \notin Added(SubSeq(messages, 1, i))

\* Every tool is declared, up front or by a result that made it available, and
\* before every call to it.  Anthropic and Responses declare none twice, and
\* leave a tool up front that has been called before a result names it.
\* Completions does not look at the calls: with CalledThenNamed, and only then,
\* an earlier call is left before the declaration, which has moved to the result.
LoadedBy(msg) == UNION {Names(b.loads) : b \in Names(msg.blocks)}
Declared(request, m, upfront) ==
  \A t \in Tools :
    LET loading == {i \in DOMAIN request : t \in LoadedBy(request[i])}
    IN /\ t \in upfront \/ loading # {}
       /\ m.api # "completions" => t \notin upfront \/ loading = {}
       /\ m.api # "completions" => Cardinality(loading) <= 1
       /\ \A i \in DOMAIN request : \A c \in Names(Only(request[i], CallTypes)) :
            c.name = t => \/ t \in upfront
                          \/ \E j \in loading : j < i
                          \/ m.api = "completions" /\ CalledThenNamed(t)
ToolsLoadBeforeUse == OfEveryRequest(LAMBDA request, m : Declared(request, m, requests[m].upfront))

\* Providers keep what they have read of a prompt for the next request that
\* begins with it.  A model that is asked again, whoever answered in between
\* and whatever broke off, gets all messages of its earlier request unchanged
\* and new ones behind them; and a tool that a result had made available by
\* then is declared in the same place again, up front or by that result,
\* although it may have been called since.
GrowsFrom(earlier, request) ==
  /\ IsPrefix(earlier.messages, request.messages)
  /\ earlier.upfront \cap earlier.added = request.upfront \cap earlier.added
RequestsOnlyGrow == LoopAsks => \A m \in Models : GrowsFrom(before[m], requests[m])

=============================================================================
