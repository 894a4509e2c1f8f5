----------------------------- MODULE MCDecoders -----------------------------
(***************************************************************************)
(* Instances for TLC of what is made of a response: SseDecoder on all      *)
(* bodies of at most five bytes, PartialJson on arguments of one or two    *)
(* members with every kind of value, one of them nested, GrammarInput on   *)
(* all short texts, JsonSchema on schemas of every shape, OneShot on       *)
(* images and embeddings, Usage on the reports of every API, MessageFormat *)
(* on every value of every kind, and FauxServer on two calls.  They share  *)
(* nothing, so that one has something to do while the others rest.         *)
(***************************************************************************)
EXTENDS SseDecoder

VARIABLES arguments, entry, shown

previewVars == <<arguments, entry, shown>>

Quoted(s) == <<"quote">> \o s \o <<"quote">>

Insides ==
  {<<>>, <<"x">>, <<"n", "space">>, <<"escape", "n">>, <<"x", "escape", "quote">>,
   <<"escape", "escape", "n">>, <<"escape", "u", "hh", "hh", "x">>,
   \* not JSON: an escape of nothing, a raw control character
   <<"escape", "x", "u">>, <<"x", "newline", "x">>, <<"escape", "escape", "escape", "x">>}

Scalars ==
  {Quoted(s) : s \in Insides} \cup {<<"tr", "ue">>, <<"nu", "ll">>}
    \cup {<<"1">>, <<"-", "1", "1">>, <<"1", ".", "1">>, <<"1", "e", "1">>, <<"-", "1", ".", "1", "e", "1">>}

Nested ==
  Scalars
    \cup {<<"[">> \o a \o <<",", "space">> \o b \o <<"]">> :
            a \in {Quoted(<<"x">>), <<"1">>, <<"nu", "ll">>}, b \in Scalars}
    \cup {<<"{">> \o Quoted(<<"escape", "n">>) \o <<":">> \o a \o <<"}">> : a \in Scalars}
    \cup {<<"[", "]">>, <<"{", "space", "}">>, <<"[", "{">> \o Quoted(<<"n">>) \o <<":", "1", "}", "]">>}

ArgumentTexts ==
  {<<"{">> \o Quoted(<<"x">>) \o <<":">> \o a \o <<"}">> : a \in Nested}
    \cup {<<"{">> \o Quoted(<<"x">>) \o <<"space", ":">> \o a \o <<"space", ",">> \o Quoted(<<"x", "n">>)
            \o <<":", "newline">> \o b \o <<"newline", "}">> : a \in Scalars, b \in Scalars}

NoArguments == <<"{", "}">>

Preview == INSTANCE PartialJson WITH text <- arguments, Documents <- ArgumentTexts \cup {NoArguments}

-----------------------------------------------------------------------------
(* Inputs of grammar tools.                                                *)

VARIABLES wire, whole, heard, told, spoken, call

grammarVars == <<wire, whole, heard, told, spoken, call>>

GrammarTexts ==
  UNION {[1..n -> {"x", "quote", "escape", "newline"}] : n \in 0..2}
    \cup {<<"escape", "u", "hh", "hh">>, <<"x", "space", "escape", "n">>, <<"escape", "escape", "quote">>}

Grammar == INSTANCE GrammarInput WITH Inputs <- GrammarTexts, buffer <- told, phase <- call

-----------------------------------------------------------------------------
(* Schemas and arguments.                                                  *)

VARIABLES schema, given, passed, verdict

argumentVars == <<schema, given, passed, verdict>>

J == INSTANCE JsonSchema

Typed(types) == [J!Open EXCEPT !.types = types]
Basic == {"string", "number", "integer", "boolean", "null"}

Plain ==
  {Typed(<<t>>) : t \in Basic} \cup {J!Open}
    \cup {Typed(ts) : ts \in {<<"string", "null">>, <<"number", "string">>, <<"boolean", "integer">>}}
    \cup {[Typed(<<"string">>) EXCEPT !.only = {J!Str("1"), J!Str("x")}],
          [Typed(<<"number">>) EXCEPT !.only = {J!Num(2, FALSE)}],
          [J!Open EXCEPT !.only = {J!Num(2, FALSE), J!Null}],
          [Typed(<<"number">>) EXCEPT !.least = 1, !.most = 2],
          [Typed(<<"string">>) EXCEPT !.least = 1, !.most = 2]}

Arrays(items) ==
  {[Typed(<<"array">>) EXCEPT !.each = <<s>>, !.unique = u, !.least = 1] : s \in items, u \in BOOLEAN}
    \cup {[Typed(<<"array">>) EXCEPT !.tuple = <<s, Typed(<<"boolean">>)>>] : s \in items}

Objects(members) ==
  {[Typed(<<"object">>) EXCEPT !.props = [a |-> s], !.required = r, !.closed = c] :
     s \in members, r \in {{}, {"a"}}, c \in BOOLEAN}
    \cup {[Typed(<<"object">>) EXCEPT !.props = [a |-> Typed(<<"string">>)], !.others = <<s>>, !.most = 2] :
            s \in members}

\* Unions alone, with members that share values and members that do not, and
\* unions whose choice has to satisfy other keywords too.
Composed ==
  {[J!Open EXCEPT !.anyOf = <<a, b>>] : a \in Plain, b \in Plain}
    \cup {[J!Open EXCEPT !.oneOf = <<a, b>>] : a \in Plain, b \in Plain}
    \cup {[J!Open EXCEPT !.allOf = <<a, b>>] : a \in Plain, b \in Plain}
    \cup {[J!Open EXCEPT !.anyOf = <<a, Typed(<<"null">>)>>] : a \in Arrays({Typed(<<"integer">>)})}
    \cup {[J!Open EXCEPT !.oneOf = <<Typed(<<"boolean">>), Typed(<<"integer">>), s>>] : s \in Plain}
    \cup {[s EXCEPT !.anyOf = <<Typed(<<"string">>), Typed(<<"integer">>)>>] : s \in Plain}

Optional == [J!Open EXCEPT !.anyOf = <<Typed(<<"integer">>), Typed(<<"null">>)>>]

Scalar ==
  {J!Null, J!Bool(TRUE), J!Bool(FALSE), J!Num(0, FALSE), J!Num(2, FALSE), J!Num(2, TRUE), J!Num(3, TRUE)}
    \cup {J!Str(s) : s \in {"", "0", "1", "1.0", "1.5", "true", "x"}}
Few == {J!Null, J!Num(2, FALSE), J!Num(2, TRUE), J!Str("1"), J!Str("true")}
Lists == {J!Arr(<<>>)} \cup {J!Arr(<<v, w>>) : v \in Few, w \in Few}
Structs == {J!Obj([a |-> v]) : v \in Few} \cup {J!Obj([a |-> v, b |-> w]) : v \in Few, w \in Few}

CallsOfTools ==
  {<<s, J!Obj([a |-> v])>> : s \in Objects(Plain), v \in Scalar}
    \cup {<<[Typed(<<"object">>) EXCEPT !.props = [a |-> s]], J!Obj([a |-> v])>> :
            s \in Composed, v \in Scalar}
    \cup {<<s, J!Obj([a |-> v])>> : s \in Objects(Arrays(Plain \cup {Optional})), v \in Lists}
    \cup {<<s, v>> : s \in Objects(Plain), v \in Structs}

NoCall == <<J!Open, J!Null>>

-----------------------------------------------------------------------------
(* Images and embeddings.                                                  *)

VARIABLES job, stage, cancelled, sent, response, result

oneShotVars == <<job, stage, cancelled, sent, response, result>>

NoOptions ==
  [outputFormat |-> "unset", output_format |-> "unset", responseFormat |-> "unset",
   response_format |-> "unset"]

JobOf(api, inputs) ==
  [api |-> api, inputs |-> inputs, options |-> NoOptions, ownAddress |-> FALSE, hook |-> "none",
   onResponse |-> "passes"]

NoJob == JobOf("openai-embeddings", <<>>)

JobsToDo ==
  {NoJob, JobOf("openrouter-images", <<"a", "image">>),
   [JobOf("openai-embeddings", <<"a", "b">>) EXCEPT !.hook = "drops"]}
    \cup {[JobOf("openai-embeddings", inputs) EXCEPT !.hook = h, !.onResponse = r] :
            inputs \in {<<"a">>, <<"a", "b">>, <<"a", "b", "c">>},
            h \in {"none", "fails", "reverses"}, r \in {"passes", "fails"}}
    \cup {[JobOf("openai-images", <<"a", last>>) EXCEPT
             !.hook = h, !.ownAddress = own,
             !.options = [outputFormat |-> camel, output_format |-> snake, responseFormat |-> asked,
                          response_format |-> "unset"]] :
            last \in {"b", "image"}, h \in {"none", "fails", "reformats"}, own \in BOOLEAN,
            camel \in {"unset", "jpeg"}, snake \in {"unset", ""}, asked \in {"unset", "url"}}

Item(prompt, pixels) == [prompt |-> prompt, data |-> pixels]
Drawn(pixels) == [data |-> pixels, mime |-> "image/webp"]

AnswersGiven ==
  [items |-> {<<>>, <<Item("none", "x"), Item("p", "y")>>, <<Item("empty", "empty"), Item("p", "x")>>},
   choices |-> {<<>>, <<[content |-> "p", images |-> <<>>]>>,
                <<[content |-> "empty", images |-> <<Drawn("x"), Drawn("none"), Drawn("empty"), Drawn("y")>>],
                  [content |-> "p", images |-> <<>>]>>}]

InOnePiece == INSTANCE OneShot WITH Jobs <- JobsToDo, Answers <- AnswersGiven, pc <- stage

-----------------------------------------------------------------------------
(* Tokens and prices.                                                      *)

VARIABLES api, truth, terms, usage, reported

usageVars == <<api, truth, terms, usage, reported>>

Used(fresh, read, written, hour, answer, reasoning) ==
  [fresh |-> fresh, read |-> read, written |-> written, hour |-> hour, answer |-> answer,
   reasoning |-> reasoning]

NoUse == Used(0, 0, 0, 0, 0, 0)

TruthsOf ==
  {Used(f, r, w, h, a, n) : f \in 0..1, r \in {0, 2}, w \in {1}, h \in 0..1, a \in {2}, n \in 0..1}
    \cup {Used(f, r, 0, 0, a, 0) : f \in 0..1, r \in {0, 2}, a \in {0, 2}}

Rates(above, input, output, read, written) ==
  [above |-> above, input |-> input, output |-> output, read |-> read, written |-> written]

FixedPrice == [base |-> Rates(-1, 2, 5, 1, 3), tiers |-> <<>>, dear |-> FALSE, asked |-> "none"]

TermsOf ==
  LET tier == Rates(1, 4, 7, 2, 6)
      high == Rates(3, 8, 9, 4, 10)
  IN  {FixedPrice, [FixedPrice EXCEPT !.asked = "flex"],
       [FixedPrice EXCEPT !.tiers = <<tier, high>>, !.asked = "priority"],
       [FixedPrice EXCEPT !.tiers = <<high, tier>>, !.dear = TRUE],
       [FixedPrice EXCEPT !.tiers = <<Rates(0, 9, 8, 7, 6)>>]}

Accounts ==
  INSTANCE Usage WITH Apis <- {"anthropic", "completions", "responses", "openrouter", "images"},
                      Truths <- TruthsOf, Terms <- TermsOf,
                      Services <- {"unnamed", "default", "flex", "priority"}

-----------------------------------------------------------------------------
(* Documents.                                                              *)

VARIABLES held, document, touched, reader, restored, writing

formatVars == <<held, document, touched, reader, restored, writing>>

Format == INSTANCE MessageFormat WITH stage <- writing

NoPicture == [kind |-> "image", tag |-> "image", fields |-> [data |-> "full", mimeType |-> "full"]]

-----------------------------------------------------------------------------
(* A scripted provider: two prompts of one session, of which one begins the  *)
(* other, one that is not cached, one without a session, and one that goes   *)
(* to another provider.                                                      *)

VARIABLES queue, active, count, calls, cache, past

fauxVars == <<queue, active, count, calls, cache, past>>

Message(role, content) == [role |-> role, name |-> "lookup", content |-> content]
ContextOf(system, messages, tools) == [system |-> system, messages |-> messages, tools |-> tools]

Ask == <<Message("user", <<"hello", "image">>)>>
Longer == Ask \o <<Message("assistant", <<"call">>), Message("toolResult", <<"done">>)>>
Aside == <<Message("custom", <<"note">>), Message("user", <<"other">>)>>

Asked(model, context, session, caches) ==
  [model |-> model, api |-> "faux", context |-> context, session |-> session, caches |-> caches]

RequestsMade ==
  {Asked("one", ContextOf("system", Ask, <<>>), "s", TRUE),
   Asked("two", ContextOf("system", Longer, <<"tool">>), "s", TRUE),
   Asked("one", ContextOf("", Aside, <<>>), "s", FALSE),
   Asked("two", ContextOf("system", Ask, <<>>), "no session", TRUE),
   [Asked("one", ContextOf("", Aside, <<>>), "s", TRUE) EXCEPT !.api = "other"]}

Step(kind, content) == [kind |-> kind, content |-> content]
ScriptsQueued ==
  {<<Step("message", <<"one">>), Step("factory", <<"two">>)>>, <<Step("factory", <<"three">>)>>}

Faux ==
  INSTANCE FauxServer WITH Requests <- RequestsMade, Scripts <- ScriptsQueued,
                           MaxCalls <- 2, MaxEdits <- 2

-----------------------------------------------------------------------------
NoBody == text = <<>> /\ pc = "read" /\ sizes = <<0, 0>>
NothingStreamed == arguments = NoArguments /\ entry = <<>>
NoGrammar == wire = "responses" /\ whole = <<>> /\ spoken = <<>> /\ call = "open"
NotCalled == schema = J!Open /\ given = J!Null /\ verdict = "unread"
NothingToDo == job = NoJob /\ stage = "ask" /\ cancelled = FALSE
NothingUsed == api = "images" /\ truth = NoUse /\ terms = FixedPrice /\ reported = <<>>
NothingHeld == held = NoPicture /\ writing = "held"
NothingScripted == past = <<>> /\ calls = <<>> /\ active = TRUE

\* All but one rest.
OnlyOne(name) ==
  /\ name = "text" \/ NoBody
  /\ name = "preview" \/ NothingStreamed
  /\ name = "grammar" \/ NoGrammar
  /\ name = "arguments" \/ NotCalled
  /\ name = "job" \/ NothingToDo
  /\ name = "usage" \/ NothingUsed
  /\ name = "document" \/ NothingHeld
  /\ name = "faux" \/ NothingScripted

CallsGiven == J!Init(CallsOfTools \cup {NoCall})

MCInit ==
  \/ /\ NothingStreamed /\ NoGrammar /\ NotCalled /\ NothingToDo /\ NothingUsed
     /\ NothingHeld
     /\ Preview!Init /\ Grammar!Init /\ CallsGiven /\ InOnePiece!Init
     /\ Accounts!Init /\ Format!Init /\ Faux!Init /\ Init
  \/ /\ NoBody /\ NoGrammar /\ NotCalled /\ NothingToDo /\ NothingUsed
     /\ NothingHeld
     /\ Init /\ Grammar!Init /\ CallsGiven /\ InOnePiece!Init
     /\ Accounts!Init /\ Format!Init /\ Faux!Init /\ Preview!Init
  \/ /\ NoBody /\ NothingStreamed /\ NotCalled /\ NothingToDo /\ NothingUsed
     /\ NothingHeld
     /\ Init /\ Preview!Init /\ CallsGiven /\ InOnePiece!Init
     /\ Accounts!Init /\ Format!Init /\ Faux!Init /\ Grammar!Init
  \/ /\ NoBody /\ NothingStreamed /\ NoGrammar /\ NothingToDo /\ NothingUsed
     /\ NothingHeld
     /\ Init /\ Preview!Init /\ Grammar!Init /\ InOnePiece!Init
     /\ Accounts!Init /\ Format!Init /\ Faux!Init /\ CallsGiven
  \/ /\ NoBody /\ NothingStreamed /\ NoGrammar /\ NotCalled /\ NothingUsed
     /\ NothingHeld
     /\ Init /\ Preview!Init /\ Grammar!Init /\ CallsGiven
     /\ Accounts!Init /\ Format!Init /\ Faux!Init /\ InOnePiece!Init
  \/ /\ NoBody /\ NothingStreamed /\ NoGrammar /\ NotCalled /\ NothingToDo
     /\ NothingHeld
     /\ Init /\ Preview!Init /\ Grammar!Init /\ CallsGiven
     /\ InOnePiece!Init /\ Format!Init /\ Faux!Init /\ Accounts!Init
  \/ /\ NoBody /\ NothingStreamed /\ NoGrammar /\ NotCalled /\ NothingToDo
     /\ NothingUsed
     /\ Init /\ Preview!Init /\ Grammar!Init /\ CallsGiven
     /\ InOnePiece!Init /\ Accounts!Init /\ Faux!Init /\ Format!Init
  \/ /\ NoBody /\ NothingStreamed /\ NoGrammar /\ NotCalled /\ NothingToDo
     /\ NothingUsed /\ NothingHeld
     /\ Init /\ Preview!Init /\ Grammar!Init /\ CallsGiven
     /\ InOnePiece!Init /\ Accounts!Init /\ Format!Init /\ Faux!Init

MCNext ==
  \/ /\ OnlyOne("text") /\ Next
     /\ UNCHANGED <<previewVars, grammarVars, argumentVars, oneShotVars, usageVars, formatVars,
                   fauxVars>>
  \/ /\ OnlyOne("preview") /\ Preview!Next
     /\ UNCHANGED <<vars, grammarVars, argumentVars, oneShotVars, usageVars, formatVars,
                   fauxVars>>
  \/ /\ OnlyOne("grammar") /\ Grammar!Next
     /\ UNCHANGED <<vars, previewVars, argumentVars, oneShotVars, usageVars, formatVars,
                   fauxVars>>
  \/ /\ OnlyOne("arguments") /\ J!Next
     /\ UNCHANGED <<vars, previewVars, grammarVars, oneShotVars, usageVars, formatVars,
                   fauxVars>>
  \/ /\ OnlyOne("job") /\ InOnePiece!Next
     /\ UNCHANGED <<vars, previewVars, grammarVars, argumentVars, usageVars, formatVars,
                   fauxVars>>
  \/ /\ OnlyOne("usage") /\ Accounts!Next
     /\ UNCHANGED <<vars, previewVars, grammarVars, argumentVars, oneShotVars, formatVars,
                   fauxVars>>
  \/ /\ OnlyOne("document") /\ Format!Next
     /\ UNCHANGED <<vars, previewVars, grammarVars, argumentVars, oneShotVars, usageVars,
                   fauxVars>>
  \/ /\ OnlyOne("faux") /\ Faux!Next
     /\ UNCHANGED <<vars, previewVars, grammarVars, argumentVars, oneShotVars, usageVars,
                   formatVars>>

allVars ==
  <<vars, previewVars, grammarVars, argumentVars, oneShotVars, usageVars,
    formatVars, fauxVars>>

MCSpec == MCInit /\ [][MCNext]_allVars

\* What a consumer is shown of unfinished arguments is part of the complete ones
\* (PartialJson), and the deltas of a grammar tool's call spell them (GrammarInput).
ArgumentsToldTruly == Preview!PreviewIsPart /\ Grammar!DeltasSpellArguments

\* Coercion never harms arguments that fit, where no union is contested (JsonSchema).
CoercionIsHarmless == J!CoercionIsHarmless

\* What a call in one piece gives belongs to what it asked for (OneShot).
AnswersBelong == InOnePiece!AnswersBelong

\* Each token is counted once and priced as due (Usage).
TokensCountedOnce == Accounts!TokensCountedOnce

\* What is written down means the same when it is read (MessageFormat).
KeptAsWritten == Format!KeptAsWritten

\* Scripted responses go to the calls in their order (FauxServer).
AnswersAsScripted == Faux!AnswersAsScripted

=============================================================================
