------------------------------- MODULE Usage -------------------------------
(***************************************************************************)
(* What an answer is said to have cost: the tokens each API reports in its *)
(* own terms, sorted into the buckets of Usage, and the price of each      *)
(* bucket at the rates of the model (calculate_cost).                      *)
(*                                                                         *)
(* The server has used up what is in truth: fresh tokens of the prompt,    *)
(* those read from and written to its cache, of which some for an hour,    *)
(* those of the answer and of its reasoning.  Prices are whole numbers,    *)
(* twice the real ones, for a service tier may halve them.                 *)
(***************************************************************************)
EXTENDS Integers, Sequences, SequencesExt, FiniteSets

CONSTANTS
  Apis,     \* those to look at
  Truths,   \* fresh, read, written, hour, answer, reasoning
  Terms,    \* a model's rates and their tiers, and the tier of service asked for
  Services  \* tiers of service a Responses server may name, or "unnamed"

VARIABLES
  api,
  truth,
  terms,
  usage,     \* as the answer has it
  reported   \* the reports that were sent, with the tier of service

vars == <<api, truth, terms, usage, reported>>

Empty ==
  [input |-> 0, output |-> 0, read |-> 0, written |-> 0, hour |-> 0, reasoning |-> 0, total |-> 0,
   cost |-> [input |-> 0, output |-> 0, read |-> 0, written |-> 0, total |-> 0]]

\* what a report says of a field, or what is taken for it
Said(raw, field, otherwise) == IF field \in DOMAIN raw THEN raw[field] ELSE otherwise

Less(a, b) == IF a > b THEN a - b ELSE 0    \* saturating_sub

Sum(u) == u.input + u.output + u.read + u.written

-----------------------------------------------------------------------------
(* Prices.                                                                 *)

\* a mutant: of the tiers that are exceeded the last one counts
ChosenLast(prompt) ==
  FoldLeft(LAMBDA best, tier : IF prompt > tier.above THEN tier ELSE best, terms.base, terms.tiers)

\* the tiers are looked at in their order; the highest that is exceeded counts
\* (the base rates stand above -1)
Chosen(prompt) ==
  FoldLeft(LAMBDA best, tier : IF prompt > tier.above /\ tier.above > best.above THEN tier ELSE best,
           terms.base, terms.tiers)

Cost(u) ==
  LET r == Chosen(u.input + u.read + u.written)
      input == 2 * r.input * u.input
      output == 2 * r.output * u.output
      read == 2 * r.read * u.read
      written == 2 * (r.written * Less(u.written, u.hour) + 2 * r.input * u.hour)
  IN  [input |-> input, output |-> output, read |-> read, written |-> written,
       total |-> input + output + read + written]

Priced(u) == [u EXCEPT !.cost = Cost(u)]

\* halves: flex costs half, priority twice and with one model two and a half times
Multiplier(service) ==
  CASE service = "flex"     -> 1
    [] service = "priority" -> IF terms.dear THEN 5 ELSE 4
    [] OTHER                -> 2

ApplyServiceTier(u, service) ==
  LET times(n) == (n * Multiplier(service)) \div 2
      c == [f \in DOMAIN u.cost |-> times(u.cost[f])]
  IN  [u EXCEPT !.cost = [c EXCEPT !.total = c.input + c.output + c.read + c.written]]

-----------------------------------------------------------------------------
(* The reports of each API.                                                *)

\* update_anthropic_usage: what a report leaves out stays
AnthropicUsage(u, raw) ==
  LET v == [u EXCEPT !.input = Said(raw, "input_tokens", @), !.output = Said(raw, "output_tokens", @),
                     !.read = Said(raw, "cache_read_input_tokens", @),
                     !.written = Said(raw, "cache_creation_input_tokens", @),
                     !.hour = Said(raw, "ephemeral_1h_input_tokens", @),
                     !.reasoning = Said(raw, "thinking_tokens", @)]
  IN  Priced([v EXCEPT !.total = Sum(v)])

AnthropicStartUsage(u, raw) ==
  AnthropicUsage([u EXCEPT !.hour = Said(raw, "ephemeral_1h_input_tokens", 0)], raw)

Prompted(prompt, read, written, output, reasoning) ==
  [Empty EXCEPT !.input = Less(Less(prompt, read), written), !.read = read, !.written = written,
                !.output = output, !.reasoning = reasoning]

CompletionsUsage(raw) ==
  LET u == Prompted(Said(raw, "prompt_tokens", 0),
                    Said(raw, "cached_tokens", Said(raw, "prompt_cache_hit_tokens", 0)),
                    Said(raw, "cache_write_tokens", 0),
                    Said(raw, "completion_tokens", 0), Said(raw, "reasoning_tokens", 0))
  IN  Priced([u EXCEPT !.total = Sum(u)])

ResponsesUsage(raw) ==
  Priced([Prompted(Said(raw, "input_tokens", 0), Said(raw, "cached_tokens", 0),
                   Said(raw, "cache_write_tokens", 0),
                   Said(raw, "output_tokens", 0), Said(raw, "reasoning_tokens", 0))
          EXCEPT !.total = Said(raw, "total_tokens", 0)])

OpenRouterUsage(raw) ==
  LET written == Said(raw, "cache_write_tokens", 0)
      cached == Said(raw, "cached_tokens", 0)
      u == Prompted(Said(raw, "prompt_tokens", 0), IF written > 0 THEN Less(cached, written) ELSE cached,
                    written, Said(raw, "completion_tokens", 0), 0)
  IN  Priced([u EXCEPT !.total = Sum(u)])

ImagesUsage(raw) ==
  LET u == [Empty EXCEPT !.input = Said(raw, "input_tokens", Said(raw, "prompt_tokens", 0)),
                         !.output = Said(raw, "output_tokens", 0)]
  IN  Priced([u EXCEPT !.total = Said(raw, "total_tokens", u.input + u.output)])

-----------------------------------------------------------------------------
(* How the servers tell the truth.                                         *)

Prompt == truth.fresh + truth.read + truth.written

\* a field is said, or left out where it is zero
SomeOf(raw) == {[f \in S |-> raw[f]] : S \in {T \in SUBSET DOMAIN raw : \A f \in DOMAIN raw \ T : raw[f] = 0}}

AnthropicTells ==
  [input_tokens |-> truth.fresh, cache_read_input_tokens |-> truth.read,
   cache_creation_input_tokens |-> truth.written, ephemeral_1h_input_tokens |-> truth.hour]
AnthropicEnds == [output_tokens |-> truth.answer, thinking_tokens |-> truth.reasoning]

CompletionsTells ==
  {[prompt_tokens |-> Prompt, cached_tokens |-> truth.read, cache_write_tokens |-> truth.written,
    completion_tokens |-> truth.answer, reasoning_tokens |-> truth.reasoning],
   [prompt_tokens |-> Prompt, prompt_cache_hit_tokens |-> truth.read, cache_write_tokens |-> truth.written,
    completion_tokens |-> truth.answer, reasoning_tokens |-> truth.reasoning]}

ResponsesTells ==
  [input_tokens |-> Prompt, cached_tokens |-> truth.read, cache_write_tokens |-> truth.written,
   output_tokens |-> truth.answer, reasoning_tokens |-> truth.reasoning,
   total_tokens |-> Prompt + truth.answer]

\* OpenRouter counts what it writes among what is cached
OpenRouterTells ==
  [prompt_tokens |-> Prompt, cached_tokens |-> truth.read + truth.written,
   cache_write_tokens |-> truth.written, completion_tokens |-> truth.answer]

ImagesTell ==
  {[input_tokens |-> Prompt, output_tokens |-> truth.answer],
   [prompt_tokens |-> Prompt, output_tokens |-> truth.answer, total_tokens |-> Prompt + truth.answer]}

-----------------------------------------------------------------------------
Init ==
  /\ api \in Apis
  /\ truth \in Truths
  /\ terms \in Terms
  /\ usage = Empty
  /\ reported = <<>>

Count(raw, service, u) ==
  /\ usage' = u
  /\ reported' = Append(reported, [raw |-> raw, service |-> service])
  /\ UNCHANGED <<api, truth, terms>>

\* message_start: the prompt, and the little of the answer there is
AnthropicStart ==
  /\ api = "anthropic" /\ reported = <<>>
  /\ \E raw \in SomeOf(AnthropicTells), begun \in {0, truth.answer} :
       LET said == [f \in DOMAIN raw \cup {"output_tokens"} |-> IF f = "output_tokens" THEN begun ELSE raw[f]]
       IN  Count(said, "none", AnthropicStartUsage(usage, said))

\* message_delta: the answer, and the prompt again or not
AnthropicDelta ==
  /\ api = "anthropic" /\ Len(reported) = 1
  /\ \E raw \in {AnthropicEnds} \cup
                {[f \in DOMAIN AnthropicEnds \cup DOMAIN again |->
                    IF f \in DOMAIN again THEN again[f] ELSE AnthropicEnds[f]] : again \in SomeOf(AnthropicTells)} :
       Count(raw, "none", AnthropicUsage(usage, raw))

Completions ==
  /\ api = "completions" /\ reported = <<>>
  /\ \E whole \in CompletionsTells : \E raw \in SomeOf(whole) :
       Count(raw, "none", CompletionsUsage(raw))

Responses ==
  /\ api = "responses" /\ reported = <<>>
  /\ \E raw \in SomeOf(ResponsesTells), service \in Services :
       LET tier == IF service = "unnamed" THEN terms.asked ELSE service
       IN  Count(raw, tier, ApplyServiceTier(ResponsesUsage(raw), tier))

OpenRouter ==
  /\ api = "openrouter" /\ reported = <<>>
  /\ \E raw \in SomeOf(OpenRouterTells) : Count(raw, "none", OpenRouterUsage(raw))

OpenAiImages ==
  /\ api = "images" /\ reported = <<>>
  /\ \E whole \in ImagesTell : \E raw \in SomeOf(whole) : Count(raw, "none", ImagesUsage(raw))

Next == AnthropicStart \/ AnthropicDelta \/ Completions \/ Responses \/ OpenRouter \/ OpenAiImages

-----------------------------------------------------------------------------
Done == Len(reported) = IF api = "anthropic" THEN 2 ELSE 1

\* the rates of the highest tier the prompt goes beyond
Due ==
  LET exceeded == {i \in DOMAIN terms.tiers : Prompt > terms.tiers[i].above}
  IN  IF exceeded = {} THEN terms.base
      ELSE terms.tiers[CHOOSE i \in exceeded : \A j \in exceeded : terms.tiers[j].above <= terms.tiers[i].above]

(* What was used is what is counted: each token in one bucket, whatever the *)
(* API counts among what and however it leaves zeros out or says a thing    *)
(* twice; the total is their sum; and the price is that of the truth, at    *)
(* the rates of the highest tier the prompt exceeds, with an hour in the    *)
(* cache at twice the rate of the input, times the tier of service.         *)
TokensCountedOnce ==
  Done =>
    /\ usage.total = Prompt + truth.answer
    /\ usage.output = truth.answer
    /\ IF api = "images" THEN usage.input = Prompt
       ELSE /\ usage.input = truth.fresh /\ usage.read = truth.read /\ usage.written = truth.written
            /\ usage.cost.total =
                 Multiplier(reported[Len(reported)].service)
                   * (Due.input * truth.fresh + Due.output * truth.answer + Due.read * truth.read
                        + IF api = "anthropic"
                          THEN Due.written * (truth.written - truth.hour) + 2 * Due.input * truth.hour
                          ELSE Due.written * truth.written)
    /\ api \in {"anthropic", "completions", "responses"} => usage.reasoning = truth.reasoning
=============================================================================
