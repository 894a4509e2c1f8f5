----------------------------- MODULE TokenBudget -----------------------------
(***************************************************************************)
(* utils/estimate.rs, providers/simple_options.rs and the providers that   *)
(* read usage and ask for max_tokens: how many tokens a request leaves for *)
(* its answer.  The size of the context is taken from the usage that the   *)
(* last answer reported, as long as that still says something of the       *)
(* messages before it, and from a count of the characters for the rest.    *)
(*                                                                         *)
(* Sizes are tokens; a server counts a message as estimate_message_tokens  *)
(* does.  A window of 0 is one that is not known.                          *)
(***************************************************************************)
EXTENDS Integers, SequencesExt, FiniteSetsExt

CONSTANTS
  Prompt,      \* size of the system prompt
  Tools,       \* tools there can be
  ToolSize,    \* size of each
  Sizes,       \* sizes of messages
  Windows,     \* context windows of models
  MaxTokens,   \* the most a model answers with
  Requests,    \* max_tokens a caller asks for
  Budgets,     \* thinking budgets; 0: no budget is sent
  Safety,      \* CONTEXT_SAFETY_TOKENS
  Reserve,     \* tokens of an answer that are not for thinking
  Floor,       \* OPENAI_RESPONSES_MIN_OUTPUT_TOKENS
  MaxClock,    \* bound on the clock
  MaxMessages  \* bound on the messages of a context

VARIABLES
  window,      \* of the model
  tools,       \* tools of the context
  messages,
  clock,
  request,     \* the request under way, if any
  dropped      \* messages went without a summary since the last usage

vars == <<window, tools, messages, clock, request, dropped>>

Positive == Nat \ {0}

\* Limits are positive: a max_tokens of 0 is none to the OpenAI providers.
Fit ==
  /\ Prompt \in Nat /\ IsFiniteSet(Tools) /\ ToolSize \in Nat
  /\ Sizes \subseteq Nat /\ Windows \subseteq Nat
  /\ MaxTokens \in Positive /\ Requests \subseteq Positive /\ Budgets \subseteq Nat
  /\ Safety \in Nat /\ Reserve \in Nat /\ Floor \in Positive

Apis == {"anthropic", "completions", "responses"}

None == [api |-> "anthropic", size |-> 0, estimate |-> 0, max |-> 1, budget |-> 0]
Sent == request # None

Atop(a, b) == IF a < b THEN b ELSE a
Least(a, b) == IF a < b THEN a ELSE b
Less(a, b) == Atop(a - b, 0)   \* saturating_sub

Message(role, size, at) ==
  [role |-> role, size |-> size, at |-> at, usage |-> 0, good |-> TRUE, adds |-> {}]

\* The tokens of some messages, each with the place of its message.
TokensOf(ms, places) == UNION {{k} \X (1..ms[k].size) : k \in places}
SizeOf(ms) == Cardinality(TokensOf(ms, DOMAIN ms))
ToolTokens(ts) == ToolSize * Cardinality(ts)

\* What the server counts.
ContextSize == Prompt + ToolTokens(tools) + SizeOf(messages)

-----------------------------------------------------------------------------
(* Usage, as a server tells it.  Anthropic counts what was read from its   *)
(* cache and what was written to it beside the rest of the prompt, the     *)
(* others as parts of the prompt, from which they are taken out again.     *)
AnthropicInput(u) == u.fresh
OpenAiInput(u) == Less(Less(u.prompt, u.read), u.written)

Parts(api, u) ==
  (IF api = "anthropic" THEN AnthropicInput(u) ELSE OpenAiInput(u)) + u.read + u.written + u.answer

\* usage.total_tokens: added up, or as told by a Responses server, if it tells.
TotalTokens(api, u) == IF api = "responses" THEN u.total ELSE Parts(api, u)

\* calculate_context_tokens
ContextTokens(api, u) == IF TotalTokens(api, u) > 0 THEN TotalTokens(api, u) ELSE Parts(api, u)

-----------------------------------------------------------------------------
(* get_last_assistant_usage_info: the answers whose usage counts are those *)
(* to the messages before them.  The mutant lets any answer count.         *)
CountsStale(ms, k) == ms[k].role = "assistant" /\ ms[k].good /\ ms[k].usage > 0
Counts(ms, k) ==
  /\ ms[k].role = "assistant" /\ ms[k].good /\ ms[k].usage > 0
  /\ \A j \in 1..(k - 1) : ms[j].at <= ms[k].at

\* estimate_context_tokens
Estimate(ms, ts) ==
  LET counted == {k \in DOMAIN ms : Counts(ms, k)}
      last == Max(counted)
      trailing == SubSeq(ms, last + 1, Len(ms))
      added == {t \in ts : \E m \in ToSet(trailing) : t \in m.adds}
  IN IF counted = {} THEN Prompt + ToolTokens(ts) + SizeOf(ms)
     ELSE ms[last].usage + SizeOf(trailing) + ToolTokens(added)

\* clamp_max_tokens_to_context
Clamp(max, estimate) ==
  IF window = 0 THEN Atop(max, 1)
  ELSE Least(max, Atop(Less(Less(window, estimate), Safety), 1))

\* adjust_max_tokens_for_thinking
Adjusted(max, budget) ==
  LET sum == Least(max + budget, MaxTokens)
  IN [max |-> sum, budget |-> IF sum <= budget THEN Less(sum, Reserve) ELSE budget]

\* What is asked for; the mutant does not clamp what the budget was added to.
AskUnclamped(requested, budget) ==
  LET estimate == Estimate(messages, tools)
      base == Clamp(requested, estimate)
      adjusted == Adjusted(base, budget)
  IN IF budget = 0 THEN [estimate |-> estimate, max |-> base, budget |-> 0]
     ELSE [estimate |-> estimate, max |-> adjusted.max,
           budget |-> Least(adjusted.budget, Less(adjusted.max, Reserve))]
Ask(requested, budget) ==
  LET estimate == Estimate(messages, tools)
      base == Clamp(requested, estimate)
      adjusted == Adjusted(base, budget)
      max == Clamp(adjusted.max, estimate)
  IN IF budget = 0 THEN [estimate |-> estimate, max |-> base, budget |-> 0]
     ELSE [estimate |-> estimate, max |-> max,
           budget |-> Least(adjusted.budget, Less(max, Reserve))]

-----------------------------------------------------------------------------
Init ==
  /\ window \in Windows
  /\ tools = {}
  /\ messages = <<>>
  /\ clock = 1
  /\ request = None
  /\ dropped = FALSE

\* A message of the user.  One that was queued is dated earlier, which only
\* makes it older than the answers after it, as it is anyway.
User ==
  /\ ~Sent /\ Len(messages) < MaxMessages
  /\ \E size \in Sizes : messages' = Append(messages, Message("user", size, clock))
  /\ UNCHANGED <<window, tools, clock, request, dropped>>

\* A tool result, which may bring tools the context did not have.
Result ==
  /\ ~Sent /\ Len(messages) < MaxMessages
  /\ messages # <<>> /\ Last(messages).role = "assistant"
  /\ \E size \in Sizes, more \in SUBSET (Tools \ tools) :
       /\ messages' = Append(messages, [Message("result", size, clock) EXCEPT !.adds = more])
       /\ tools' = tools \cup more
  /\ UNCHANGED <<window, clock, request, dropped>>

Send ==
  /\ ~Sent /\ messages # <<>> /\ Len(messages) < MaxMessages
  /\ clock < MaxClock
  /\ clock' = clock + 1
  /\ \E api \in Apis, requested \in Requests \cup {MaxTokens}, budget \in Budgets :
       LET ask == Ask(requested, budget)
       IN /\ budget > 0 => api = "anthropic"
          /\ request' = [api |-> api, estimate |-> ask.estimate, budget |-> ask.budget,
                         max |-> IF api = "responses" THEN Atop(ask.max, Floor) ELSE ask.max,
                         size |-> ContextSize]
  /\ UNCHANGED <<window, tools, messages, dropped>>

\* The answer, dated from when it was asked for.  One that breaks off has
\* reported what it was sent, or nothing.  The server may have had the system
\* prompt in its cache and have written the rest to it; then it gives no total.
Answer ==
  /\ Sent
  /\ \E size \in {s \in Sizes \cup {0} : s <= request.max}, good \in BOOLEAN, told \in BOOLEAN,
        cached \in BOOLEAN :
       LET usage == [prompt |-> request.size, fresh |-> IF cached THEN 0 ELSE request.size,
                     answer |-> IF good THEN size ELSE 0,
                     read |-> IF cached THEN Prompt ELSE 0,
                     written |-> IF cached THEN request.size - Prompt ELSE 0,
                     total |-> IF cached THEN 0 ELSE request.size + (IF good THEN size ELSE 0)]
       IN /\ good => told /\ size > 0
          /\ messages' = Append(messages,
                           [Message("assistant", size, clock) EXCEPT
                              !.usage = IF told THEN ContextTokens(request.api, usage) ELSE 0,
                              !.good = good])
          /\ dropped' = (dropped /\ ~good)
  /\ request' = None
  /\ UNCHANGED <<window, tools, clock>>

\* The caller puts a summary in the place of the oldest messages.
Compact ==
  /\ ~Sent /\ clock < MaxClock
  /\ clock' = clock + 1
  /\ \E k \in 1..Len(messages), size \in Sizes :
       messages' = <<Message("user", size, clock')>> \o SubSeq(messages, k + 1, Len(messages))
  /\ dropped' = FALSE
  /\ UNCHANGED <<window, tools, request>>

\* The caller drops the oldest messages.
Forget ==
  /\ ~Sent
  /\ \E k \in 1..(Len(messages) - 1) : messages' = SubSeq(messages, k + 1, Len(messages))
  /\ dropped' = TRUE
  /\ UNCHANGED <<window, tools, clock, request>>

Next == User \/ Result \/ Send \/ Answer \/ Compact \/ Forget
Spec == Init /\ [][Next]_vars

-----------------------------------------------------------------------------
(* Properties.                                                             *)

\* The estimate of a request is never less than the context it is sent with,
\* whatever was summarised, dropped, broken off or loaded before.  Nor does it
\* count anything that is not sent: once a summary stands for the older
\* messages, usage that still counted them is not used again.  (Messages dropped
\* without a summary are counted until the next answer.)
EstimateIsRight ==
  /\ request.size <= request.estimate
  /\ Sent /\ ~dropped => request.estimate = request.size

\* A request and its longest answer fit into the window, thinking included,
\* unless a single token is all that is left to ask for; and thinking leaves room
\* for an answer.  (Responses never asks for less than Floor, which eats into
\* the tokens kept for safety.)
ReplyFits ==
  /\ window # 0 /\ request.max > (IF request.api = "responses" THEN Floor ELSE 1) =>
       request.size + request.max + Safety <= window
  /\ request.max >= 1
  /\ request.budget > 0 => request.budget + Reserve <= request.max

=============================================================================
