-------------------------- MODULE TransformMessages -------------------------
(***************************************************************************)
(* providers/transform_messages.rs: what becomes of a conversation before  *)
(* it is sent to a model that may not be the one that had it.  Images are  *)
(* left out for a model without eyes, what only its author can read is     *)
(* dropped, tool call ids are put into the form the model accepts, answers *)
(* that failed are left out, and calls nobody answered get an answer.      *)
(*                                                                         *)
(* A tool call id is a number, which is the server's, and a tail: none; an *)
(* item id "|fc_..." or "|ctc_..." of the Responses API; what a            *)
(* normalisation has made of it: "joined" when the separator is replaced,  *)
(* "fcHash" when the item id is hashed, "fcCtc" when it gets a prefix.  by *)
(* is the model that made it.  Texts are never blank.                      *)
(***************************************************************************)
EXTENDS Naturals, SequencesExt

None == "none"

\* Messages.  A signature is the name of the model that made it.
User(parts) == [role |-> "user", parts |-> parts]
Assistant(m, content, stop) ==
  [role |-> "assistant", by |-> m, content |-> content, stop |-> stop]
ToolResult(id, name, adds, image) ==
  [role |-> "toolResult", id |-> id, name |-> name, adds |-> adds, image |-> image]

\* Blocks of an assistant message; a thinking block may hold a signature only.
Text(sig) == [type |-> "text", sig |-> sig]
Thinking(sig, blank) == [type |-> "thinking", sig |-> sig, blank |-> blank]
Redacted(sig) == [type |-> "redacted", sig |-> sig]
Call(id, name, sig) == [type |-> "call", id |-> id, name |-> name, sig |-> sig]

CallsOf(content) == SelectSeq(content, LAMBDA b : b.type = "call")

-----------------------------------------------------------------------------
\* downgrade_unsupported_images: neighbours share one placeholder.
ReplaceImages(parts) ==
  FlattenSeq([i \in DOMAIN parts |->
    IF parts[i] # "image" THEN <<parts[i]>>
    ELSE IF i > 1 /\ parts[i - 1] = "image" THEN <<>>
    ELSE <<"omitted">>])

Downgraded(msg, m) ==
  IF m.images THEN msg
  ELSE IF msg.role = "user" THEN [msg EXCEPT !.parts = ReplaceImages(@)]
  ELSE IF msg.role = "toolResult" THEN [msg EXCEPT !.image = FALSE]
  ELSE msg

-----------------------------------------------------------------------------
HasItem(id) == id.tail \in {"fc", "ctc", "fcHash", "fcCtc"}

Joined(id) == IF HasItem(id) THEN [id EXCEPT !.tail = "joined"] ELSE id

\* normalize_tool_call_id, normalize_chat_tool_call_id and
\* normalize_responses_tool_call_id.
NormalizeId(id, m, source) ==
  IF m.api # "responses" \/ ~m.openAiIds \/ ~HasItem(id) THEN Joined(id)
  ELSE IF source.provider # m.provider \/ source.api # m.api THEN [id EXCEPT !.tail = "fcHash"]
  ELSE IF id.tail = "ctc" THEN [id EXCEPT !.tail = "fcCtc"]
  ELSE id

\* A block of a message by source becomes at most one.
TransformBlock(b, m, source) ==
  LET same == source = m
  IN CASE b.type = "redacted" -> IF same THEN <<b>> ELSE <<>>
       [] b.type = "thinking" ->
            IF same /\ b.sig # None THEN <<b>>
            ELSE IF b.blank THEN <<>>
            ELSE IF same THEN <<b>> ELSE <<Text(None)>>
       [] b.type = "text" -> IF same THEN <<b>> ELSE <<Text(None)>>
       [] b.type = "call" ->
            IF same THEN <<b>>
            ELSE <<[b EXCEPT !.sig = None, !.id = NormalizeId(@, m, source)]>>

\* tool_call_id_map, as pairs; a later entry for the same id overwrites.
NewIds(content, m, source) ==
  LET calls == CallsOf(content)
  IN IF source = m THEN <<>>
     ELSE SelectSeq([k \in DOMAIN calls |-> <<calls[k].id, NormalizeId(calls[k].id, m, source)>>],
                    LAMBDA pair : pair[1] # pair[2])

\* The mutant leaves the ids of results alone.
ResultIdKept(id, map) == id
ResultId(id, map) ==
  LET known == {k \in DOMAIN map : map[k][1] = id}
  IN IF known = {} THEN id ELSE map[CHOOSE k \in known : \A l \in known : l <= k][2]

TransformEach(messages, m) ==
  LET Step(acc, msg) ==
        CASE msg.role = "user" -> [acc EXCEPT !.out = Append(@, msg)]
          [] msg.role = "toolResult" ->
               [acc EXCEPT !.out = Append(@, [msg EXCEPT !.id = ResultId(@, acc.map)])]
          [] msg.role = "assistant" ->
               LET content == [i \in DOMAIN msg.content |-> TransformBlock(msg.content[i], m, msg.by)]
               IN [map |-> acc.map \o NewIds(msg.content, m, msg.by),
                   out |-> Append(acc.out, [msg EXCEPT !.content = FlattenSeq(content)])]
  IN FoldLeft(Step, [map |-> <<>>, out |-> <<>>],
              [i \in DOMAIN messages |-> Downgraded(messages[i], m)]).out

-----------------------------------------------------------------------------
\* insert: the calls that are still pending are answered.
AnswerPending(acc) ==
  LET open == SelectSeq(acc.pending, LAMBDA c : c.id \notin acc.answered)
  IN [pending |-> <<>>, answered |-> {},
      out |-> acc.out \o [k \in DOMAIN open |-> ToolResult(open[k].id, open[k].name, <<>>, FALSE)]]

InsertSyntheticToolResults(messages) ==
  LET Step(acc, msg) ==
        CASE msg.role = "toolResult" ->
               [acc EXCEPT !.answered = @ \cup {msg.id}, !.out = Append(@, msg)]
          [] msg.role = "user" ->
               LET answered == AnswerPending(acc)
               IN [answered EXCEPT !.out = Append(@, msg)]
          [] msg.role = "assistant" ->
               LET answered == AnswerPending(acc)
               IN IF msg.stop \in {"error", "aborted"} THEN answered
                  ELSE [answered EXCEPT !.out = Append(@, msg),
                                        !.pending = CallsOf(msg.content)]
  IN AnswerPending(FoldLeft(Step, [pending |-> <<>>, answered |-> {}, out |-> <<>>], messages)).out

Transformed(messages, m) == InsertSyntheticToolResults(TransformEach(messages, m))

=============================================================================
