-------------------------- MODULE ToolDeclarations --------------------------
(***************************************************************************)
(* A tool's way to a provider and back: how it is declared to the model    *)
(* (convert_tools and convert_responses_tools, with strict schemas and     *)
(* grammars where they are asked for and supported), what the stream makes *)
(* of the model's call, which tool the agent runs, and how the call is     *)
(* told to the model of the next request, which may be another one.        *)
(*                                                                         *)
(* A name is a word and its spelling: with an OAuth token tools go by the  *)
(* spellings of Claude Code.  A schema is what infer_grammar_input_property *)
(* looks at.  An argument is a text or something else.  Where a tool stands *)
(* in a request is a matter of RequestPayloads, its arguments' fitting the *)
(* schema one of JsonSchema.                                               *)
(***************************************************************************)
EXTENDS Naturals, Sequences

CONSTANTS
  ToolLists,   \* sequences of tools: name, parameters, sampling and variants
  Clients,     \* models: api, modern, oauth and the compatibility that is set
  Claudes      \* the words Claude Code has a spelling for

VARIABLES
  tools,     \* the context's
  client,    \* the model of the next request
  request,   \* the last request: its declarations and the call it tells of
  wire,      \* the call the model made
  received,  \* the call as the stream tells it: name and arguments
  ran        \* the place of the tool that ran, 0 for none

vars == <<tools, client, request, wire, received, ran>>

IsList(l) ==
  /\ Len(l) \in Nat /\ DOMAIN l = 1..Len(l)
  /\ \A i \in DOMAIN l : l[i].name \in [word : STRING, spelling : STRING]

\* Only Anthropic has OAuth tokens.
IsClient(m) ==
  /\ m.api \in {"anthropic", "completions", "responses"}
  /\ m.oauth \in BOOLEAN /\ (m.oauth => m.api = "anthropic")

Fit == (\A l \in ToolLists : IsList(l)) /\ (\A m \in Clients : IsClient(m))

Nothing == [kind |-> "nothing"]
OneArgument(property, value) == [p \in {property} |-> value]

-----------------------------------------------------------------------------
(* What a model's API takes: what is set for the model, or a default.      *)

Defaults(m) ==
  CASE m.api = "anthropic" ->
         [strict |-> "no", grammar |-> "no", eager |-> "yes", references |-> m.modern,
          temperature |-> "yes", toolMarks |-> "yes", long |-> "yes", affinity |-> "no"]
    [] m.api = "completions" ->
         [strict |-> "yes", grammar |-> "no", developer |-> "yes", effort |-> "yes",
          usage |-> "yes", store |-> "yes", long |-> "yes", affinity |-> "no"]
    [] m.api = "responses" ->
         [strict |-> "no", grammar |-> "no", developer |-> "yes", long |-> "yes",
          cacheMode |-> "no", search |-> "no"]

Compat(m) ==
  [f \in DOMAIN Defaults(m) |->
     IF f \in DOMAIN m.compat THEN m.compat[f] ELSE Defaults(m)[f]]

Supports(m, f) == Compat(m)[f] = "yes"

-----------------------------------------------------------------------------
(* Sampling.                                                               *)

InputProperty(tool) ==
  LET p == tool.parameters
  IN  IF /\ p.object /\ Len(p.required) = 1
         /\ p.required[1] \in DOMAIN p.properties /\ p.properties[p.required[1]] = "string"
      THEN p.required[1] ELSE "none"

AsksGrammar(tool, m) == tool.sampling = "grammar" /\ Supports(m, "grammar")

Syntax(tool) == IF "lark" \in tool.variants THEN "lark" ELSE "regex"

GrammarRefused(tool, m) ==
  AsksGrammar(tool, m) /\ (tool.variants = {} \/ InputProperty(tool) = "none")

StrictRefused(tool, m) == tool.sampling = "require" /\ ~ Supports(m, "strict")

IsStrict(tool, m) == tool.sampling \in {"prefer", "require"} /\ Supports(m, "strict")

-----------------------------------------------------------------------------
(* Names.                                                                  *)

ToClaudeCodeName(name) ==
  IF name.word \in Claudes THEN [name EXCEPT !.spelling = "Claude's"] ELSE name

WireName(name, m) == IF m.oauth THEN ToClaudeCodeName(name) ELSE name

Firstly(S) == CHOOSE i \in S : \A j \in S : i <= j

\* a mutant: names are compared as they are spelled
FromClaudeCodeNameExactly(name, m) == name

FromClaudeCodeName(name, m) ==
  LET same == {i \in DOMAIN tools : tools[i].name.word = name.word}
  IN  IF ~ m.oauth \/ same = {} THEN name ELSE tools[Firstly(same)].name

-----------------------------------------------------------------------------
(* Declarations and calls.                                                 *)

AnthropicTool(tool, m) ==
  [form |-> "function", name |-> WireName(tool.name, m), syntax |-> "none",
   strict |-> IF IsStrict(tool, m) THEN "yes" ELSE "unsaid", eager |-> Supports(m, "eager")]

CustomTool(tool) ==
  [form |-> "custom", name |-> tool.name, syntax |-> Syntax(tool), strict |-> "unsaid", eager |-> FALSE]

FunctionTool(tool, m) ==
  [form |-> "function", name |-> tool.name, syntax |-> "none", eager |-> FALSE,
   strict |-> IF ~ Supports(m, "strict") THEN "unsaid" ELSE IF IsStrict(tool, m) THEN "yes" ELSE "no"]

CompletionsTool(tool, m) == IF AsksGrammar(tool, m) THEN CustomTool(tool) ELSE FunctionTool(tool, m)
ResponsesTool(tool, m) == IF AsksGrammar(tool, m) THEN CustomTool(tool) ELSE FunctionTool(tool, m)

Declaration(tool, m) ==
  CASE m.api = "anthropic"   -> AnthropicTool(tool, m)
    [] m.api = "completions" -> CompletionsTool(tool, m)
    [] m.api = "responses"   -> ResponsesTool(tool, m)

\* create_grammar_tool_input_properties: of several tools of one name the last counts
Grammars(m) == {i \in DOMAIN tools : m.api # "anthropic" /\ AsksGrammar(tools[i], m)}
Inputs(name, m) == {i \in Grammars(m) : tools[i].name = name}
InputOf(name, m) ==
  InputProperty(tools[CHOOSE i \in Inputs(name, m) : \A j \in Inputs(name, m) : j <= i])

\* a call that was made before, in the words of m
Told(call, m) ==
  IF Inputs(call.name, m) = {}
  THEN [form |-> "function", name |-> WireName(call.name, m), arguments |-> call.arguments]
  ELSE [form |-> "custom", name |-> call.name, arguments |-> [input |-> "text"]]

TellRefused(call, m) ==
  /\ Inputs(call.name, m) # {}
  /\ ~ \E p \in DOMAIN call.arguments : p = InputOf(call.name, m) /\ call.arguments[p] = "text"

\* why a request is not built, the first reason first
Reasons(m) ==
  (IF \E i \in DOMAIN tools : m.api # "anthropic" /\ GrammarRefused(tools[i], m) THEN <<"grammar">> ELSE <<>>)
    \o (IF received # Nothing /\ TellRefused(received, m) THEN <<"told">> ELSE <<>>)
    \o (IF \E i \in DOMAIN tools : StrictRefused(tools[i], m) THEN <<"strict">> ELSE <<>>)

-----------------------------------------------------------------------------
Unasked == request = Nothing /\ wire = Nothing /\ received = Nothing /\ ran = 0

Init == tools \in ToolLists /\ client \in Clients /\ Unasked

HasToolHistory == received # Nothing

Built ==
  [kind |-> "sent", by |-> client, tools |-> [i \in DOMAIN tools |-> Declaration(tools[i], client)],
   named |-> tools # <<>> \/ (client.api = "completions" /\ HasToolHistory),
   call |-> IF received = Nothing THEN <<>> ELSE <<Told(received, client)>>]

Ask ==
  /\ request = Nothing
  /\ request' = IF Reasons(client) = <<>> THEN Built ELSE [kind |-> "refused", why |-> Head(Reasons(client))]
  /\ UNCHANGED <<tools, client, wire, received, ran>>

\* the model calls a tool it was told of, in the form it was told of; a strict
\* schema has its way, any other need not
Call ==
  /\ request.kind = "sent" /\ wire = Nothing
  /\ \E i \in DOMAIN request.tools :
       LET d == request.tools[i]
       IN  \E p \in DOMAIN tools[i].parameters.properties, v \in {"text", "other"} :
             /\ d.strict = "yes" => v = "text"
             /\ wire' = [kind |-> "call", by |-> client, form |-> d.form, name |-> d.name,
                         arguments |-> IF d.form = "custom" THEN [input |-> "text"] ELSE OneArgument(p, v)]
  /\ UNCHANGED <<tools, client, request, received, ran>>

Arguments(call, name, m) ==
  IF call.form = "function" THEN call.arguments
  ELSE IF Inputs(name, m) = {} THEN [input |-> "text"]
  ELSE OneArgument(InputOf(name, m), "text")

Receive ==
  /\ wire # Nothing /\ received = Nothing
  /\ LET name == FromClaudeCodeName(wire.name, client)
     IN  received' = [kind |-> "call", name |-> name, arguments |-> Arguments(wire, name, client)]
  /\ UNCHANGED <<tools, client, request, wire, ran>>

Named(name) == {i \in DOMAIN tools : tools[i].name = name}

Run ==
  /\ received # Nothing /\ ran = 0 /\ request.kind = "sent"
  /\ Named(received.name) # {}
  /\ ran' = Firstly(Named(received.name))
  /\ UNCHANGED <<tools, client, request, wire, received>>

\* the next request, perhaps to another model
NextTurn ==
  /\ ran # 0 /\ request.kind = "sent" /\ request.call = <<>>
  /\ client' \in Clients
  /\ request' = Nothing
  /\ UNCHANGED <<tools, wire, received, ran>>

Next == Ask \/ Call \/ Receive \/ Run \/ NextTurn

-----------------------------------------------------------------------------
OneSpelling == \A i, j \in DOMAIN tools : tools[i].name.word = tools[j].name.word => i = j

(* What the model calls is what runs.  A tool that requires a strict schema *)
(* is declared with one or not at all, and one with a grammar by its        *)
(* grammar wherever that is supported.  A call reaches the tool that was    *)
(* declared by its name, with a plain text under the property the tool      *)
(* reads it from, and is told again to the same model just as it was made;  *)
(* only a call that was not made by grammar can be one that a model with    *)
(* grammars cannot be told of.  Names that differ only in case are one name *)
(* to from_claude_code_name, which the second part leaves out.              *)
ToolsAsDeclared ==
  /\ request.kind = "sent" =>
       \A i \in DOMAIN tools :
         /\ tools[i].sampling = "require" => request.tools[i].strict = "yes"
         /\ AsksGrammar(tools[i], request.by) /\ request.by.api # "anthropic" =>
              request.tools[i].form = "custom"
         /\ request.call # <<>> => request.named
  /\ OneSpelling /\ received # Nothing =>
       /\ Named(received.name) # {}
       /\ \A i \in DOMAIN tools :
            WireName(tools[i].name, wire.by) = wire.name =>
              /\ ran \in {0, i}
              /\ wire.form = "custom" => received.arguments = OneArgument(InputProperty(tools[i]), "text")
  /\ OneSpelling /\ request.kind = "sent" /\ wire # Nothing =>
       \A i \in DOMAIN request.call :
         request.by = wire.by =>
           request.call[i] = [form |-> wire.form, name |-> wire.name, arguments |-> wire.arguments]
  /\ OneSpelling /\ request.kind = "refused" /\ wire # Nothing /\ request.why = "told" =>
       wire.form = "function"
=============================================================================
