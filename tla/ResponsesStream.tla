--------------------------- MODULE ResponsesStream --------------------------
(***************************************************************************)
(* providers/openai_responses.rs, run_stream from the Start event on.      *)
(* Output items are announced, grow and are done under their output_index, *)
(* whose slot is removed when the item is done.  The last events repeat    *)
(* what the deltas said and may say more: function_call_arguments.done and *)
(* custom_tool_call_input.done pass on what is missing, output_item.done   *)
(* opens an item that was never announced, and a terminal event ends the   *)
(* loop without waiting for the end of the response.                       *)
(***************************************************************************)
EXTENDS StreamAssembly

ResponsesUnchanged == UNCHANGED <<attempt, cancelled, byId, told>>

KindOf(i) == blocks[slot[i]].kind

OutputItemAdded(i, k) ==
  /\ Event
  /\ ItemOpens(i)
  /\ blocks' = Append(blocks, NewBlock(k, i))
  /\ slot' = At(slot, i, Len(blocks) + 1)
  /\ Emit(<<BlockStart(Len(blocks) + 1, k)>>)
  /\ ResponsesUnchanged /\ UNCHANGED <<stop, saw, sent>>

\* The delta events of text, refusals, reasoning, arguments and inputs.
OutputDelta(i) ==
  /\ Event /\ item[i] = "open" /\ i \in DOMAIN slot
  /\ ItemSends(i)
  /\ blocks' = Grown(slot[i], 1)
  /\ Emit(<<Delta(slot[i], KindOf(i), 1)>>)
  /\ ResponsesUnchanged /\ UNCHANGED <<stop, slot, saw, item>>

\* What the server reveals of item i in an event that repeats all of it.
Reveals(i) == \E total \in sent[i]..MaxFragments : sent' = [sent EXCEPT ![i] = total]

\* The suffix that no delta has carried yet.  The mutant repeats it all.
MissingWhole(b, total) ==
  IF total > blocks[b].len THEN <<Delta(b, blocks[b].kind, total)>> ELSE <<>>
Missing(b, total) ==
  IF total > blocks[b].len THEN <<Delta(b, blocks[b].kind, total - blocks[b].len)>> ELSE <<>>

ArgumentsDone(i) ==
  /\ Event /\ item[i] = "open" /\ i \in DOMAIN slot
  /\ KindOf(i) \in {"tool", "custom"}
  /\ Reveals(i)
  /\ blocks' = [blocks EXCEPT ![slot[i]].len = sent'[i]]
  /\ Emit(Missing(slot[i], sent'[i]))
  /\ ResponsesUnchanged /\ UNCHANGED <<stop, slot, saw, item>>

\* get_or_create_slot.
SlotOf(i) == IF i \in DOMAIN slot THEN slot[i] ELSE Len(blocks) + 1

\* The end of a block, with the item's own text.
OutputItemDone(i, k) ==
  LET b == SlotOf(i)
      known == b <= Len(blocks)
  IN /\ Event /\ item[i] # "closed"
     /\ IsNext(i) \/ \E c \in DOMAIN blocks : blocks[c].item = i /\ blocks[c].kind = k
     /\ Reveals(i)
     /\ item' = [item EXCEPT ![i] = "closed"]
     /\ blocks' = IF known THEN [blocks EXCEPT ![b].len = sent'[i]]
                  ELSE Append(blocks, [NewBlock(k, i) EXCEPT !.len = sent'[i]])
     /\ slot' = [j \in DOMAIN slot \ {i} |-> slot[j]]
     /\ Emit((IF known THEN <<>> ELSE <<BlockStart(b, k)>>)
             \o (IF known /\ k = "custom" THEN Missing(b, sent'[i]) ELSE <<>>)
             \o <<BlockEnd(b, k, sent'[i])>>)
     /\ ResponsesUnchanged /\ UNCHANGED <<stop, saw>>

\* response.completed and response.incomplete.  A status of failure or one
\* the code does not know fails the stream.
ResponseCompleted ==
  /\ MessageEvent /\ AllClosed
  /\ \E status \in {"stop", "length", "error"} :
       /\ stop' = IF status = "stop" /\ HasToolCall THEN "toolUse" ELSE status
       /\ IF status = "error" THEN Fail("error") ELSE Finish(<<>>)
  /\ ResponsesUnchanged /\ UNCHANGED <<blocks, slot, saw, item, sent>>

\* error and response.failed.
ResponseFailed ==
  /\ MessageEvent
  /\ Fail("error")
  /\ ResponsesUnchanged /\ UNCHANGED <<outputVars, item, sent, told>>

\* The response ends, or breaks off cleanly, before a terminal event.
ResponsesEnd ==
  /\ Running("reading")
  /\ Fail(IF cancelled THEN "aborted" ELSE "error")
  /\ UNCHANGED <<attempt, cancelled, outputVars, serverVars>>

ResponsesStep ==
  \/ ResponseCompleted \/ ResponseFailed \/ ResponsesEnd
  \/ \E i \in Items :
       \/ OutputDelta(i) \/ ArgumentsDone(i)
       \/ \E k \in Kinds : OutputItemAdded(i, k) \/ OutputItemDone(i, k)

=============================================================================
