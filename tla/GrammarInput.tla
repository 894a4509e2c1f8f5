----------------------------- MODULE GrammarInput -----------------------------
(***************************************************************************)
(* providers/constrained_sampling.rs and its callers: a grammar tool is    *)
(* called with plain text, while consumers are told of JSON arguments with *)
(* that text as their only member.  Each delta of the text becomes a piece *)
(* of JSON, and the last events of Responses repeat the text or correct    *)
(* it.  Texts are sequences of the symbols of PartialJson.                 *)
(***************************************************************************)
EXTENDS Naturals, SequencesExt

CONSTANT Inputs   \* texts a server may send

VARIABLES
  wire,    \* the API that sends the call
  whole,   \* the text the server means to send
  heard,   \* the text in the arguments of the tool call
  buffer,  \* GrammarToolInputJsonBuffer
  spoken,  \* the deltas a consumer has been given, joined
  phase    \* of the call: open, ended or failed

vars == <<wire, whole, heard, buffer, spoken, phase>>

Json == INSTANCE PartialJson WITH Documents <- {}, text <- <<>>, entry <- <<>>, shown <- <<>>

Property == <<"x">>
Opening == <<"{", "quote">> \o Property \o <<"quote", ":", "quote">>
Ending == <<"quote", "}">>

\* serde_json::to_string, without the quotes.
Encoded(s) ==
  FlattenSeq([k \in DOMAIN s |->
    CASE s[k] \in {"quote", "escape"} -> <<"escape", s[k]>>
      [] s[k] = "newline" -> <<"escape", "n">>
      [] OTHER -> <<s[k]>>])

-----------------------------------------------------------------------------
(* append_grammar_tool_input_json_delta.                                   *)

Refuses(next, close) ==
  IF buffer.closed THEN ~close \/ next # buffer.input ELSE ~IsPrefix(buffer.input, next)

\* What no delta has carried.  The mutant repeats what some have.
RestWhole(next) == next
Rest(next) == SubSeq(next, Len(buffer.input) + 1, Len(next))

DeltaOf(next, close) ==
  (IF buffer.started THEN <<>> ELSE Opening) \o Encoded(Rest(next)) \o (IF close THEN Ending ELSE <<>>)

\* A caller passes on the text so far, and then keeps it as the arguments.
Tell(next, close, then) ==
  IF Refuses(next, close) THEN phase' = "failed" /\ UNCHANGED <<heard, buffer, spoken>>
  ELSE /\ heard' = next
       /\ IF buffer.closed \/ (~close /\ Rest(next) = <<>>) THEN UNCHANGED <<buffer, spoken>>
          ELSE /\ buffer' = [input |-> next, started |-> TRUE, closed |-> close]
               /\ spoken' = spoken \o DeltaOf(next, close)
       /\ phase' = then

-----------------------------------------------------------------------------
Init ==
  /\ wire \in {"completions", "responses"}
  /\ whole \in Inputs
  /\ heard = <<>> /\ spoken = <<>> /\ phase = "open"
  /\ buffer = [input |-> <<>>, started |-> FALSE, closed |-> FALSE]

\* custom.input of a chunk, or response.custom_tool_call_input.delta.
InputDelta ==
  /\ phase = "open"
  /\ \E n \in (Len(heard) + 1)..Len(whole) :
       Tell(heard \o SubSeq(whole, Len(heard) + 1, n), FALSE, "open")
  /\ UNCHANGED <<wire, whole>>

\* response.custom_tool_call_input.done: the server may have thought again.
InputDone ==
  /\ phase = "open" /\ wire = "responses"
  /\ \E input \in Inputs : Tell(input, TRUE, "open")
  /\ UNCHANGED <<wire, whole>>

\* response.output_item.done, with the text or without.
OutputItemDone ==
  /\ phase = "open" /\ wire = "responses"
  /\ \E input \in Inputs \cup {heard} : Tell(input, TRUE, "ended")
  /\ UNCHANGED <<wire, whole>>

\* finish_open_blocks, when a Completions response has ended.
FinishOpenBlock ==
  /\ phase = "open" /\ wire = "completions"
  /\ Tell(heard, TRUE, "ended")
  /\ UNCHANGED <<wire, whole>>

Over == phase # "open" /\ UNCHANGED vars

Next == InputDelta \/ InputDone \/ OutputItemDone \/ FinishOpenBlock \/ Over
Spec == Init /\ [][Next]_vars

-----------------------------------------------------------------------------
\* Whoever joins the deltas has the arguments that the call holds, however the
\* text was cut and whatever the server repeats or takes back: with the string
\* closed for it while the text is under way, and as they are once the call has
\* ended, when nothing may be missing.
DeltasSpellArguments ==
  /\ buffer.started =>
       Json!Strict(IF buffer.closed THEN spoken ELSE spoken \o Ending)
         = {Json!Obj(Property :> Json!Str(heard))}
  /\ ~buffer.started => heard = <<>> /\ spoken = <<>>
  /\ phase = "ended" => buffer.closed

=============================================================================
