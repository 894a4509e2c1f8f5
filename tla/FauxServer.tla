----------------------------- MODULE FauxServer -----------------------------
(***************************************************************************)
(* providers/faux.rs: a registered faux provider as a server of scripted   *)
(* responses, for several calls at a time, while its user queues others or *)
(* unregisters it.  A call takes its response and is counted at once; its  *)
(* task resolves it later, in any order, and charges the prompt against    *)
(* what was last cached for the session.  How an answer is streamed is     *)
(* FauxStream.                                                             *)
(***************************************************************************)
EXTENDS Naturals, Sequences, SequencesExt

CONSTANTS
  Requests,   \* calls a user makes: [model, api, context, session, caches]
  Scripts,    \* steps queued at a time: sequences of
              \* [kind : {"message", "factory"}, content]
  MaxCalls,   \* bound on calls
  MaxEdits    \* bound on changes of the queue

VARIABLES
  queue,   \* pending_responses
  active,  \* FALSE once unregistered
  count,   \* the call count that a factory can look at
  calls,   \* the calls made, with their tasks
  cache,   \* prompt_cache: the prompt last sent per session, <<>> when none
  past     \* what the user did with the queue, in order

vars == <<queue, active, count, calls, cache, past>>

OwnApi == "faux"
NoSession == "no session"
UnitsPerToken == 4

-----------------------------------------------------------------------------
\* Texts are sequences of symbols that stand for one unit each.
Joined(parts, separator) ==
  FoldLeft(LAMBDA text, part : IF text = <<>> THEN part ELSE text \o <<separator>> \o part,
           <<>>, parts)
Lines(content) == Joined([n \in DOMAIN content |-> <<content[n]>>], "newline")

MessageText(message) ==
  CASE message.role = "custom" -> <<>>
    [] message.role = "toolResult" -> Lines(<<message.name>> \o message.content)
    [] OTHER -> Lines(message.content)

\* serialize_context: a system prompt and tools when there are any.
SerializeContext(context) ==
  Joined((IF context.system = "" THEN <<>> ELSE << <<"system", context.system>> >>)
         \o [n \in DOMAIN context.messages |->
               <<context.messages[n].role>> \o MessageText(context.messages[n])]
         \o (IF context.tools = <<>> THEN <<>> ELSE << <<"tools">> \o context.tools >>),
         "paragraph")

EstimateTokens(units) == (units + UnitsPerToken - 1) \div UnitsPerToken
CommonPrefix(a, b) == Len(LongestCommonPrefix({a, b}))

Caches(request) == request.session # NoSession /\ request.caches

\* with_usage_estimate: the whole prompt is written to the cache at first, and
\* after that what the last one did not begin with.
UsageEstimate(request, content) ==
  LET prompt == SerializeContext(request.context)
      tokens == EstimateTokens(Len(prompt))
      output == EstimateTokens(Len(Lines(content)))
      last == cache[request.session]
      common == CommonPrefix(last, prompt)
      read == EstimateTokens(common)
  IN IF ~Caches(request)
     THEN [input |-> tokens, output |-> output, cacheRead |-> 0, cacheWrite |-> 0]
     ELSE IF last = <<>>
     THEN [input |-> tokens, output |-> output, cacheRead |-> 0, cacheWrite |-> tokens]
     ELSE [input |-> tokens - read, output |-> output, cacheRead |-> read,
           cacheWrite |-> EstimateTokens(Len(prompt) - common)]

NoUsage == [input |-> 0, output |-> 0, cacheRead |-> 0, cacheWrite |-> 0]
NoAnswer == [kind |-> "none", content |-> <<>>, model |-> "none", usage |-> NoUsage]

Init ==
  /\ queue = <<>> /\ active = TRUE /\ count = 0 /\ calls = <<>> /\ past = <<>>
  /\ cache = [s \in {r.session : r \in Requests} |-> <<>>]

-----------------------------------------------------------------------------
Edits == Len(SelectSeq(past, LAMBDA p : p.did # "called"))

SetResponses(steps) ==
  /\ Edits < MaxEdits
  /\ queue' = steps
  /\ past' = Append(past, [did |-> "set", steps |-> steps])
  /\ UNCHANGED <<active, count, calls, cache>>

AppendResponses(steps) ==
  /\ Edits < MaxEdits
  /\ queue' = queue \o steps
  /\ past' = Append(past, [did |-> "appended", steps |-> steps])
  /\ UNCHANGED <<active, count, calls, cache>>

Unregister ==
  /\ active' = FALSE
  /\ UNCHANGED <<queue, count, calls, cache, past>>

Started(request, step, stage) ==
  Append(calls, [request |-> request, step |-> step, stage |-> stage, answer |-> NoAnswer])

\* The mutant takes the response that was queued last.
PoppedLast(q) ==
  IF q = <<>> THEN [step |-> <<>>, rest |-> <<>>]
  ELSE [step |-> <<Last(q)>>, rest |-> Front(q)]
Popped(q) ==
  IF q = <<>> THEN [step |-> <<>>, rest |-> <<>>]
  ELSE [step |-> <<Head(q)>>, rest |-> Tail(q)]

\* LanguageModelApi::stream: refused, or the response is taken and a task spawned.
Stream(request) ==
  /\ Len(calls) < MaxCalls
  /\ IF ~active \/ request.api # OwnApi
     THEN calls' = Started(request, <<>>, "refused") /\ UNCHANGED <<queue, count, past>>
     ELSE /\ calls' = Started(request, Popped(queue).step, "spawned")
          /\ queue' = Popped(queue).rest
          /\ count' = count + 1
          /\ past' = Append(past, [did |-> "called", steps |-> <<>>])
  /\ UNCHANGED <<active, cache>>

\* The terminal message of a task: it names the model that was asked.
Ends(n, kind, content, usage) ==
  calls' = [calls EXCEPT ![n].stage = "done",
                         ![n].answer = [kind |-> kind, content |-> content,
                                        model |-> calls[n].request.model, usage |-> usage]]

\* An answer with its usage; the prompt takes the place of the session's last.
Charged(n, kind, content) ==
  /\ Ends(n, kind, content, UsageEstimate(calls[n].request, content))
  /\ cache' = IF Caches(calls[n].request)
              THEN [cache EXCEPT ![calls[n].request.session] =
                      SerializeContext(calls[n].request.context)]
              ELSE cache

\* The hook or a factory returned an error.
Fails(n, why) == Ends(n, why, <<>>, NoUsage) /\ UNCHANGED cache

\* The task is polled and its hook, if there is one, returns.
Begin(n) ==
  /\ calls[n].stage = "spawned"
  /\ \/ Fails(n, "hook failed")
     \/ calls[n].step = <<>> /\ Charged(n, "no response", <<>>)
     \/ /\ calls[n].step # <<>> /\ calls[n].step[1].kind = "message"
        /\ Charged(n, "message", calls[n].step[1].content)
     \/ /\ calls[n].step # <<>> /\ calls[n].step[1].kind = "factory"
        /\ calls' = [calls EXCEPT ![n].stage = "factory"]
        /\ UNCHANGED cache
  /\ UNCHANGED <<queue, active, count, past>>

\* A factory is awaited; others go on meanwhile.
FactoryReturns(n) ==
  /\ calls[n].stage = "factory"
  /\ \/ Fails(n, "factory failed")
     \/ Charged(n, "message", calls[n].step[1].content)
  /\ UNCHANGED <<queue, active, count, past>>

Next ==
  \/ \E steps \in Scripts : SetResponses(steps) \/ AppendResponses(steps)
  \/ Unregister
  \/ \E request \in Requests : Stream(request)
  \/ \E n \in DOMAIN calls : Begin(n) \/ FactoryReturns(n)

Spec == Init /\ [][Next]_vars

-----------------------------------------------------------------------------
\* The responses that calls take when they are answered one after the other.
Replayed ==
  FoldLeft(LAMBDA state, p :
             CASE p.did = "set" -> [state EXCEPT !.left = p.steps]
               [] p.did = "appended" -> [state EXCEPT !.left = @ \o p.steps]
               [] OTHER -> IF state.left = <<>>
                           THEN [state EXCEPT !.taken = Append(@, <<>>)]
                           ELSE [left |-> Tail(state.left),
                                 taken |-> Append(state.taken, <<Head(state.left)>>)],
           [left |-> <<>>, taken |-> <<>>], past)

\* Calls that run beside each other get the responses that they would get one
\* after the other, whatever is queued meanwhile and in whatever order they are
\* resolved; a refused call takes none and is not counted.
InCallOrder ==
  LET accepted == SelectSeq(calls, LAMBDA c : c.stage # "refused") IN
  /\ count = Len(accepted) /\ Len(Replayed.taken) = count /\ queue = Replayed.left
  /\ \A n \in DOMAIN accepted :
       LET answer == accepted[n].answer
           step == Replayed.taken[n]
       IN /\ answer.kind = "no response" => step = <<>>
          /\ answer.kind = "message" => step # <<>> /\ answer.content = step[1].content
          /\ answer.kind = "factory failed" => step # <<>> /\ step[1].kind = "factory"

\* What an answer claims to have read from the cache begins a prompt that was
\* sent in the session before, and it counts the prompt once.
CacheIsTrue ==
  \A n \in DOMAIN calls :
    LET usage == calls[n].answer.usage
        prompt == SerializeContext(calls[n].request.context)
    IN /\ usage.input + usage.cacheRead \in {0, EstimateTokens(Len(prompt))}
       /\ usage.cacheRead > 0 =>
            \E m \in DOMAIN calls \ {n} :
              /\ calls[m].stage = "done" /\ calls[m].answer.kind \in {"message", "no response"}
              /\ calls[m].request.session = calls[n].request.session
              /\ Caches(calls[m].request) /\ Caches(calls[n].request)
              /\ usage.cacheRead <=
                   EstimateTokens(CommonPrefix(SerializeContext(calls[m].request.context), prompt))

\* A scripted provider answers as a real one would, however it is used.
AnswersAsScripted == InCallOrder /\ CacheIsTrue

=============================================================================
