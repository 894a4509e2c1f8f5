--------------------------- MODULE RequestPayloads --------------------------
(***************************************************************************)
(* How the stream providers write a conversation into a request            *)
(* (convert_transformed_messages of anthropic.rs, try_convert_messages of  *)
(* openai_completions.rs, try_convert_responses_messages of                *)
(* openai_responses.rs) and which tools they declare up front and which    *)
(* where the conversation loads them (deferred_tools.rs).                  *)
(*                                                                         *)
(* A request is a sequence of messages with blocks.  The items that the    *)
(* Responses API makes of one answer are kept together as one message.     *)
(***************************************************************************)
EXTENDS TransformMessages

CONSTANTS
  Tools,         \* names of context.tools
  GrammarTools   \* those with a grammar, which some models call with plain text

ASSUME ToolsAssumption == GrammarTools \subseteq Tools

\* Blocks on the wire.  An item is an item id of the Responses API: its form
\* and the model that made it.  shows: a tool result has images inside.
NoItem == [tail |-> None, by |-> None]
Plain(type) ==
  [type |-> type, id |-> None, name |-> None, sig |-> None, item |-> NoItem,
   loads |-> <<>>, shows |-> FALSE]
Signed(type, sig) == [Plain(type) EXCEPT !.sig = sig]
Called(type, id, name) == [Plain(type) EXCEPT !.id = id, !.name = name]

Msg(role, blocks) == [role |-> role, blocks |-> blocks]
PartBlocks(parts) == [i \in DOMAIN parts |-> Plain(parts[i])]
Names(s) == {s[i] : i \in DOMAIN s}

\* Neighbouring tool results are handled together.
Units(messages) ==
  FoldLeft(LAMBDA acc, msg :
             IF msg.role = "toolResult" /\ acc # <<>> /\ Last(acc)[1].role = "toolResult"
             THEN [acc EXCEPT ![Len(acc)] = Append(@, msg)]
             ELSE Append(acc, <<msg>>),
           <<>>, messages)

\* All tool names that results of a conversation add.
Added(messages) ==
  UNION {Names(messages[i].adds) : i \in {j \in DOMAIN messages : messages[j].role = "toolResult"}}

\* The names of a list that are loaded for the first time.
FirstLoads(names, allowed, loaded) ==
  SelectSeq([i \in DOMAIN names |->
               IF names[i] \in allowed \ loaded /\ names[i] \notin Names(SubSeq(names, 1, i - 1))
               THEN names[i] ELSE None],
            LAMBDA n : n # None)

\* split_deferred_tools: a tool that has been called was there before.  The
\* mutants do not look, and look at all messages.
DeferredUnchecked(messages, enabled) == IF enabled THEN Added(messages) \cap Tools ELSE {}
DeferredIfUncalled(messages, enabled) ==
  LET calls == FlattenSeq([i \in DOMAIN messages |->
                 IF messages[i].role = "assistant" THEN CallsOf(messages[i].content) ELSE <<>>])
  IN IF enabled THEN (Added(messages) \cap Tools) \ {c.name : c \in Names(calls)} ELSE {}
Deferred(messages, enabled) ==
  LET Step(acc, msg) ==
        CASE msg.role = "assistant" ->
               [acc EXCEPT !.used = @ \cup {CallsOf(msg.content)[k].name : k \in DOMAIN CallsOf(msg.content)}]
          [] msg.role = "toolResult" -> [acc EXCEPT !.deferred = @ \cup (Names(msg.adds) \ acc.used)]
          [] msg.role = "user" -> acc
  IN IF enabled THEN FoldLeft(Step, [used |-> {}, deferred |-> {}], messages).deferred \cap Tools ELSE {}

-----------------------------------------------------------------------------
(* Anthropic.                                                              *)

AnthropicDeferred(messages, m) ==
  LET deferred == Deferred(Transformed(messages, m), m.loads)
  IN IF deferred = Tools THEN {} ELSE deferred

AnthropicBlock(b) ==
  CASE b.type = "text" -> <<Plain("text")>>
    [] b.type = "redacted" -> IF b.sig # None THEN <<Signed("redacted", b.sig)>> ELSE <<>>
    [] b.type = "thinking" ->
         IF b.sig # None THEN <<Signed("thinking", b.sig)>>
         ELSE IF b.blank THEN <<>> ELSE <<Plain("text")>>
    [] b.type = "call" -> <<Called("call", b.id, b.name)>>

\* What a result shows; only downgrade_unsupported_images asks who is to see it.
AnthropicResult(r) == [Called("result", r.id, r.name) EXCEPT !.shows = r.image]

\* The results of one unit, then what they said if they load tools instead.
AnthropicResults(unit, deferred, loaded) ==
  LET Step(acc, r) ==
        LET loads == FirstLoads(r.adds, deferred, acc.loaded)
            result == IF loads = <<>> THEN AnthropicResult(r)
                      ELSE [Called("result", r.id, r.name) EXCEPT !.loads = loads]
        IN [loaded |-> acc.loaded \cup Names(loads),
            results |-> Append(acc.results, result),
            siblings |-> IF loads = <<>> THEN acc.siblings ELSE Append(acc.siblings, Plain("text"))]
  IN FoldLeft(Step, [loaded |-> loaded, results |-> <<>>, siblings |-> <<>>], unit)

AnthropicMessages(messages, m) ==
  LET deferred == AnthropicDeferred(messages, m)
      Say(acc, role, blocks) ==
        IF blocks = <<>> THEN acc ELSE [acc EXCEPT !.out = Append(@, Msg(role, blocks))]
      Step(acc, unit) ==
        LET msg == unit[1]
        IN CASE msg.role = "user" ->
                  Say(acc, "user", PartBlocks(SelectSeq(msg.parts, LAMBDA p : p # "blank")))
             [] msg.role = "assistant" ->
                  Say(acc, "assistant",
                      FlattenSeq([i \in DOMAIN msg.content |-> AnthropicBlock(msg.content[i])]))
             [] msg.role = "toolResult" ->
                  LET r == AnthropicResults(unit, deferred, acc.loaded)
                  IN [loaded |-> r.loaded, out |-> Append(acc.out, Msg("user", r.results \o r.siblings))]
  IN FoldLeft(Step, [loaded |-> {}, out |-> <<>>], Units(Transformed(messages, m))).out

-----------------------------------------------------------------------------
(* Chat Completions.                                                       *)

Bridge == Msg("assistant", <<Plain("text")>>)

CompletionsDeferred(messages, m) == IF m.loads THEN Added(messages) ELSE {}

\* Thinking is text for some models; for others it goes under the name of
\* its signature.
CompletionsAssistant(content, m) ==
  LET texts == SelectSeq(content, LAMBDA b : b.type = "text")
      thinking == SelectSeq(content, LAMBDA b : b.type = "thinking" /\ ~b.blank)
      calls == CallsOf(content)
      said == (IF m.thinkingAsText /\ thinking # <<>> THEN <<Plain("text")>> ELSE <<>>)
              \o [i \in DOMAIN texts |-> Plain("text")]
      thought == IF ~m.thinkingAsText /\ thinking # <<>> /\ thinking[1].sig # None
                 THEN <<Signed("thinking", thinking[1].sig)>> ELSE <<>>
  IN IF said = <<>> /\ calls = <<>> THEN <<>>
     ELSE <<Msg("assistant", said \o thought \o
                [k \in DOMAIN calls |->
                   [Called("call", calls[k].id, calls[k].name) EXCEPT !.sig = calls[k].sig]])>>

ShowsImages(unit, m) == m.images /\ \E k \in DOMAIN unit : unit[k].image

\* The images of the results of one unit, which are said to be the user's.
Images(unit, m) ==
  IF ShowsImages(unit, m)
  THEN (IF m.bridge THEN <<Bridge>> ELSE <<>>) \o <<Msg("user", <<Plain("text"), Plain("image")>>)>>
  ELSE <<>>

\* The results of one unit, which are text.
CompletionsResults(unit) ==
  [k \in DOMAIN unit |-> Msg("tool", <<Called("result", unit[k].id, unit[k].name)>>)]

\* The tools that the results of one unit load.
LoadedTools(unit, m) ==
  LET adds == FlattenSeq([k \in DOMAIN unit |-> unit[k].adds])
      loads == FirstLoads(adds, IF m.loads THEN Tools ELSE {}, {})
  IN IF loads = <<>> THEN <<>> ELSE <<Msg("system", <<[Plain("tools") EXCEPT !.loads = loads]>>)>>

CompletionsMessages(messages, m) ==
  LET Say(acc, role, said) ==
        IF said = <<>> THEN acc ELSE [last |-> role, out |-> acc.out \o said]
      Step(acc, unit) ==
        LET msg == unit[1]
            parts == PartBlocks(msg.parts)
            bridged == IF m.bridge /\ acc.last = "toolResult"
                       THEN [acc EXCEPT !.out = Append(@, Bridge)] ELSE acc
        IN CASE msg.role = "user" ->
                  Say(bridged, "user", IF parts = <<>> THEN <<>> ELSE <<Msg("user", parts)>>)
             [] msg.role = "assistant" -> Say(acc, "assistant", CompletionsAssistant(msg.content, m))
             [] msg.role = "toolResult" ->
                  Say(acc, IF ShowsImages(unit, m) THEN "user" ELSE "toolResult",
                      CompletionsResults(unit) \o Images(unit, m) \o LoadedTools(unit, m))
  IN FoldLeft(Step, [last |-> None, out |-> <<>>], Units(Transformed(messages, m))).out

-----------------------------------------------------------------------------
(* Responses.                                                              *)

\* The call_id is what stands before the separator.
CallId(id) == [n |-> id.n, tail |-> IF HasItem(id) THEN None ELSE id.tail]

IsCustom(name, m) == m.grammars /\ name \in GrammarTools

\* The item id that goes with a call of an answer by source.  The mutant does
\* not ask which model of the provider it belongs to.
ItemIdOfAny(id, m, source, custom) ==
  IF HasItem(id) /\ (custom \/ id.tail # "ctc") THEN [tail |-> id.tail, by |-> id.by] ELSE NoItem
ItemId(id, m, source, custom) ==
  LET differentModel == source # m /\ source.provider = m.provider /\ source.api = m.api
  IN IF \/ ~HasItem(id)
        \/ differentModel /\ id.tail # "ctc"
        \/ ~custom /\ id.tail = "ctc"
     THEN NoItem
     ELSE [tail |-> id.tail, by |-> id.by]

ResponsesBlock(b, m, source) ==
  LET custom == IsCustom(b.name, m)
  IN CASE b.type \in {"thinking", "redacted"} ->
            IF b.sig # None THEN <<Signed("reasoning", b.sig)>> ELSE <<>>
       [] b.type = "text" -> <<Signed("text", b.sig)>>
       [] b.type = "call" ->
            <<[Called(IF custom THEN "custom" ELSE "call", CallId(b.id), b.name) EXCEPT
                 !.item = ItemId(b.id, m, source, custom)]>>

ResponsesResult(msg, m) ==
  [Called(IF IsCustom(msg.name, m) THEN "customResult" ELSE "result", CallId(msg.id), msg.name)
     EXCEPT !.shows = msg.image /\ m.images]

\* A search that finds the tools, which is said to have been the client's.
ResponsesSearch(loads) ==
  IF loads = <<>> THEN <<>> ELSE <<Msg("search", <<[Plain("tools") EXCEPT !.loads = loads]>>)>>

ResponsesMessages(messages, m) ==
  LET deferred == Deferred(messages, m.loads)
      Say(acc, role, blocks) ==
        IF blocks = <<>> THEN acc ELSE [acc EXCEPT !.out = Append(@, Msg(role, blocks))]
      Step(acc, msg) ==
        CASE msg.role = "user" -> Say(acc, "user", PartBlocks(msg.parts))
          [] msg.role = "assistant" ->
               Say(acc, "assistant",
                   FlattenSeq([i \in DOMAIN msg.content |-> ResponsesBlock(msg.content[i], m, msg.by)]))
          [] msg.role = "toolResult" ->
               LET loads == FirstLoads(msg.adds, deferred, acc.loaded)
               IN [loaded |-> acc.loaded \cup Names(loads),
                   out |-> acc.out \o <<Msg("tool", <<ResponsesResult(msg, m)>>)>> \o ResponsesSearch(loads)]
  IN FoldLeft(Step, [loaded |-> {}, out |-> <<>>], Transformed(messages, m)).out

=============================================================================
