--------------------------- MODULE MessageFormat ----------------------------
(***************************************************************************)
(* types.rs: what is written down of contexts, messages and models, and    *)
(* what is read back, perhaps by another program than the one that wrote   *)
(* it, perhaps after another one has touched it.                           *)
(*                                                                         *)
(* A document is a JSON object: its tag (the role of a message, the type   *)
(* of a block or of an event) and what each of its fields holds.  serde    *)
(* itself is external: what it does with a field follows from the field's  *)
(* class.                                                                  *)
(***************************************************************************)
EXTENDS Naturals, FiniteSets

VARIABLES
  held,      \* the value in memory
  document,  \* what has been written of it, NoDocument before that
  touched,   \* the field that another program has left out or nulled, or "none"
  reader,    \* what it has been read as, "none" before that
  restored,  \* what has been read back, or Refused
  stage      \* "building", "held", "written" or "over"

vars == <<held, document, touched, reader, restored, stage>>

-----------------------------------------------------------------------------
(* The classes of fields:                                                  *)
(*   plain     always written, has to be there                             *)
(*   any       the same, with any JSON value, null among them              *)
(*   option    left out when there is none; absent and null are none       *)
(*   value     an optional JSON value, which may itself be null            *)
(*   sampling  optional, false or a configuration, never true              *)
(*   list      left out when empty; an absent one is empty                 *)
(*   items     written even when empty; an absent one is empty             *)
(*   content   written even when empty; an absent or null one is empty     *)
Text == [text |-> "plain", textSignature |-> "option"]
Thinking == [thinking |-> "plain", thinkingSignature |-> "option", redacted |-> "option"]
Image == [data |-> "plain", mimeType |-> "plain"]
ToolCall == [id |-> "plain", name |-> "plain", arguments |-> "any", thoughtSignature |-> "option"]
Usage == [input |-> "plain", totalTokens |-> "plain", cost |-> "plain",
          cacheWrite1h |-> "option", reasoning |-> "option"]
User == [content |-> "content", timestamp |-> "plain"]
Assistant ==
  [content |-> "content", api |-> "plain", model |-> "plain", responseModel |-> "option",
   responseId |-> "option", diagnostics |-> "list", usage |-> "plain", stopReason |-> "plain",
   errorMessage |-> "option", timestamp |-> "plain"]
ToolResult ==
  [toolCallId |-> "plain", toolName |-> "plain", content |-> "content", details |-> "value",
   usage |-> "option", addedToolNames |-> "list", isError |-> "plain", timestamp |-> "plain"]
Tool == [name |-> "plain", description |-> "plain", parameters |-> "any",
         constrainedSampling |-> "sampling"]
Context == [systemPrompt |-> "option", messages |-> "items", tools |-> "list"]
ImagesContext == [input |-> "items"]
AssistantImages ==
  [model |-> "plain", responseId |-> "option", output |-> "items", usage |-> "plain",
   errorMessage |-> "option"]
ModelCost == [input |-> "plain", cacheWrite |-> "plain", tiers |-> "list"]
Model ==
  [id |-> "plain", thinkingLevelMap |-> "list", input |-> "items", output |-> "list",
   cost |-> "plain", contextWindow |-> "plain", headers |-> "list", compat |-> "items"]
Delta == [contentIndex |-> "plain", delta |-> "plain", partial |-> "plain"]
Done == [reason |-> "plain", message |-> "plain"]

Fields ==
  [text |-> Text, thinking |-> Thinking, image |-> Image, toolCall |-> ToolCall,
   usage |-> Usage, user |-> User, assistant |-> Assistant, toolResult |-> ToolResult,
   tool |-> Tool, context |-> Context, imagesContext |-> ImagesContext,
   images |-> AssistantImages, cost |-> ModelCost, model |-> Model,
   text_delta |-> Delta, done |-> Done]

\* The fields of ModelCompat's three structs, which are flattened into one
\* object: some are known to one struct alone, some to several.
CompletionsKeys == {"thinkingFormat", "supportsStrictMode", "supportsLongCacheRetention",
                    "sendSessionAffinityHeaders"}
ResponsesKeys == {"supportsToolSearch", "supportsStrictMode", "supportsLongCacheRetention"}
AnthropicKeys == {"supportsTemperature", "supportsLongCacheRetention",
                  "sendSessionAffinityHeaders"}
KnownTo ==
  [completions |-> CompletionsKeys, responses |-> ResponsesKeys, anthropic |-> AnthropicKeys]
CompatKeys == UNION {KnownTo[s] : s \in DOMAIN KnownTo}
Before(struct) ==
  CASE struct = "completions" -> {}
    [] struct = "responses" -> {"completions"}
    [] struct = "anthropic" -> {"completions", "responses"}

Messages == {"user", "assistant", "toolResult"}
Blocks == {"text", "thinking", "image", "toolCall"}
Events == {"text_delta", "done"}

\* The tag that a kind is written with: a role, a type, or none at all.
TagOf(kind) == IF kind \in Messages \cup Blocks \cup Events THEN kind ELSE "none"

Refused == [kind |-> "refused", tag |-> "none", fields |-> [body |-> "none"]]
NoDocument == [tag |-> "none", fields |-> [body |-> "none"]]

-----------------------------------------------------------------------------
\* What a field of a class can hold in memory.
Holds(class) ==
  CASE class = "plain" -> {"full"}
    [] class = "any" -> {"full", "null"}
    [] class = "option" -> {"absent", "full"}
    [] class = "value" -> {"absent", "null", "full"}
    [] class = "sampling" -> {"absent", "false", "full"}
    [] OTHER -> {"empty", "full"}

WrittenField(class, value) ==
  IF class = "list" /\ value = "empty" THEN "absent" ELSE value

\* ConstrainedSampling: false or a configuration.
ReadSampling(value) ==
  CASE value = "null" -> "absent" [] value = "true" -> "refused" [] OTHER -> value

ReadField(class, value) ==
  CASE value = "absent" /\ class \in {"plain", "any"} -> "refused"
    [] value = "absent" /\ class \in {"list", "items", "content"} -> "empty"
    [] value = "null" /\ class \in {"plain", "list", "items"} -> "refused"
    [] value = "null" /\ class = "content" -> "empty"
    [] value = "null" /\ class \in {"option", "value"} -> "absent"
    [] class = "sampling" -> ReadSampling(value)
    [] OTHER -> value

\* The mutant puts the role "custom" over the one that is there.
CustomTagAlways(message) == "custom"
\* entry("role").or_insert_with(..): a custom object keeps a role of its own.
CustomTag(message) == IF message.tag = "none" THEN "custom" ELSE message.tag

\* Each struct writes the fields it has set, known to another or not.
WrittenCompat(compat) ==
  [key \in CompatKeys |-> Cardinality({s \in DOMAIN compat : key \in compat[s]})]

\* A custom message that is no object is wrapped into one.
Written(value) ==
  CASE value.kind = "compat" -> [tag |-> "none", fields |-> WrittenCompat(value.fields)]
    [] value.kind = "custom" -> [tag |-> CustomTag(value), fields |-> value.fields]
    [] value.kind = "customValue" -> [tag |-> "custom", fields |-> [value |-> "full"]]
    [] OTHER -> [tag |-> TagOf(value.kind),
                 fields |-> [f \in DOMAIN value.fields |->
                               WrittenField(Fields[value.kind][f], value.fields[f])]]

\* Fields that the kind does not know are passed over.
ReadAs(kind, doc) ==
  LET found(f) == IF f \in DOMAIN doc.fields THEN doc.fields[f] ELSE "absent"
      value == [f \in DOMAIN Fields[kind] |-> ReadField(Fields[kind][f], found(f))]
  IN IF \E f \in DOMAIN value : value[f] = "refused" THEN Refused
     ELSE [kind |-> kind, tag |-> TagOf(kind), fields |-> value]

\* A struct takes the fields it knows from what those before it have left, and
\* refuses a field that is there twice.
ReadCompat(doc) ==
  IF \E key \in CompatKeys : doc.fields[key] > 1 THEN Refused
  ELSE [kind |-> "compat", tag |-> "none",
        fields |-> [s \in DOMAIN KnownTo |->
                      {key \in KnownTo[s] : /\ doc.fields[key] = 1
                                            /\ \A b \in Before(s) : key \notin KnownTo[b]}]]

\* validate_role, for a message that is read as what it has to be: a document
\* without a role will do.
ReadRole(kind, doc) ==
  IF doc.tag \notin {"none", kind} THEN Refused ELSE ReadAs(kind, doc)

\* Message::deserialize: the role decides, and one that is not known is custom.
ReadMessage(doc) ==
  CASE doc.tag \in {"none", "number"} -> Refused
    [] doc.tag \in Messages -> ReadAs(doc.tag, doc)
    [] OTHER -> [kind |-> "custom", tag |-> doc.tag, fields |-> doc.fields]

\* Blocks and events, which serde tells apart by their type.
ReadTagged(kind, doc) == IF doc.tag # kind THEN Refused ELSE ReadAs(kind, doc)

\* What an application may put into a custom message: an object with a role of
\* its own choosing, or any other value.
Customs ==
  [kind : {"custom"}, tag : Messages \cup {"custom", "note", "none", "number"},
   fields : {[body |-> "full"], [content |-> "full", timestamp |-> "full"]}]
  \cup {[kind |-> "customValue", tag |-> "none", fields |-> [body |-> "full"]]}

\* Everything of a kind, tools aside: they are built.
Values(kind) ==
  LET fields == Fields[kind]
      all == UNION {Holds(fields[f]) : f \in DOMAIN fields}
  IN [kind : {kind}, tag : {TagOf(kind)},
      fields : {g \in [DOMAIN fields -> all] : \A f \in DOMAIN g : g[f] \in Holds(fields[f])}]
Compats ==
  [kind : {"compat"}, tag : {"none"},
   fields : {[completions |-> c, responses |-> r, anthropic |-> a] :
               c \in SUBSET KnownTo.completions, r \in SUBSET KnownTo.responses,
               a \in SUBSET KnownTo.anthropic}]

\* What a tool is built from: a name and a description that may be blank or
\* left out, parameters, sampling.
Builders ==
  [kind : {"builder"}, tag : {"none"},
   fields : [name : {"blank", "full"}, description : {"absent", "blank", "full"},
             parameters : {"absent", "full", "number"},
             constrainedSampling : Holds("sampling")]]

Init ==
  /\ document = NoDocument /\ touched = "none" /\ reader = "none" /\ restored = Refused
  /\ \/ /\ stage = "held"
        /\ held \in Customs \cup Compats
                      \cup UNION {Values(kind) : kind \in DOMAIN Fields \ {"tool"}}
     \/ stage = "building" /\ held \in Builders

\* ToolBuilder::build: names and descriptions are trimmed and must not be
\* empty, parameters default to those of an object without properties.
Build ==
  /\ stage = "building"
  /\ IF \/ held.fields.name = "blank" \/ held.fields.description # "full"
        \/ held.fields.parameters = "number"
     THEN stage' = "over" /\ UNCHANGED held
     ELSE /\ stage' = "held"
          /\ held' = [kind |-> "tool", tag |-> "none",
                      fields |-> [held.fields EXCEPT !.parameters = "full"]]
  /\ UNCHANGED <<document, touched, reader, restored>>

Write ==
  /\ stage = "held" /\ stage' = "written"
  /\ document' = Written(held)
  /\ UNCHANGED <<held, touched, reader, restored>>

\* Another program leaves out a field or the tag, or puts null in a field's
\* place; or true for a tool's sampling.
Touch ==
  /\ stage = "written" /\ touched = "none" /\ held.kind \in DOMAIN Fields
  /\ \/ /\ document' = [document EXCEPT !.tag = "none"] /\ touched' = "tag"
     \/ \E f \in DOMAIN document.fields, value \in {"absent", "null", "true"} :
          /\ value = "true" => f = "constrainedSampling"
          /\ document' = [document EXCEPT !.fields[f] = value] /\ touched' = f
  /\ UNCHANGED <<held, reader, restored, stage>>

\* What a value can be read as: as what it is, and a message as a Message or,
\* by mistake, as another one.
Readers(value) ==
  CASE value.kind \in Messages -> Messages \cup {"message"}
    [] value.kind \in {"custom", "customValue"} -> {"message"}
    [] OTHER -> {value.kind}

Read ==
  /\ stage = "written" /\ stage' = "over"
  /\ \E as \in Readers(held) :
       /\ reader' = as
       /\ restored' = CASE as = "message" -> ReadMessage(document)
                        [] as = "compat" -> ReadCompat(document)
                        [] as \in Messages -> ReadRole(as, document)
                        [] as \in Blocks \cup Events -> ReadTagged(as, document)
                        [] OTHER -> ReadAs(as, document)
  /\ UNCHANGED <<held, document, touched>>

Next == Build \/ Write \/ Touch \/ Read

Spec == Init /\ [][Next]_vars

-----------------------------------------------------------------------------
Taken == reader # "none" /\ restored # Refused
AsItself == reader \in {"message", held.kind}

\* What has not been touched is read back as it was held, and says the same when
\* it is written again.  The details of a result that are null become none.
SameAgain ==
  reader # "none" /\ touched = "none" /\ AsItself /\ held.kind \in DOMAIN Fields =>
    /\ restored # Refused /\ restored.kind = held.kind
    /\ \A f \in DOMAIN held.fields :
         /\ restored.fields[f] # held.fields[f] => f = "details" /\ held.fields[f] = "null"
         /\ Written(restored).fields[f] # document.fields[f] => f = "details"

\* What has been touched loses nothing else: no field that is still there, and
\* a message with its role is not taken for another.  One without content, or
\* with null for it, is read as empty.
NothingElseLost ==
  held.kind \in DOMAIN Fields =>
    /\ Taken => /\ document.tag # "none" => restored.kind = held.kind
                /\ \A f \in DOMAIN restored.fields \cap DOMAIN document.fields :
                     document.fields[f] \in {"full", "false"} =>
                       restored.fields[f] = document.fields[f]
    /\ reader # "none" /\ AsItself /\ touched = "content" =>
         restored # Refused /\ restored.fields.content = "empty"

\* A custom message stays one, with its role, unless that is a message's or no
\* text at all.
CustomsStay ==
  reader # "none" /\ held.kind \in {"custom", "customValue"}
                  /\ held.tag \notin Messages \cup {"number"} =>
    restored.kind = "custom" /\ (held.tag # "none" => restored.tag = held.tag)

\* A compat field that one struct alone knows stays with it; none is made up,
\* and only a field set in two structs makes a model unreadable.
CompatStays ==
  reader = "compat" =>
    IF restored = Refused
    THEN \E s, t \in DOMAIN KnownTo : s # t /\ held.fields[s] \cap held.fields[t] # {}
    ELSE /\ \A s \in DOMAIN KnownTo : \A key \in KnownTo[s] :
              (\A t \in DOMAIN KnownTo \ {s} : key \notin KnownTo[t]) =>
                (key \in restored.fields[s] <=> key \in held.fields[s])
         /\ UNION {restored.fields[s] : s \in DOMAIN KnownTo} =
              UNION {held.fields[s] : s \in DOMAIN KnownTo}

\* A context, a message or a model that has been stored means the same to
\* whoever reads it.
KeptAsWritten == SameAgain /\ NothingElseLost /\ CustomsStay /\ CompatStays

=============================================================================
