--------------------------- MODULE AnthropicStream --------------------------
(***************************************************************************)
(* providers/anthropic.rs, run_stream from the Start event on: blocks are  *)
(* announced, grow and stop under the index of the server.  The index of a *)
(* stopped block stays in blocks_by_anthropic_index.  An event for an      *)
(* index that is not in it has no effect, nor has a ping or a signature on *)
(* what is modelled here.                                                  *)
(***************************************************************************)
EXTENDS StreamAssembly

AnthropicUnchanged == UNCHANGED <<attempt, cancelled, byId, told>>

MessageStart ==
  /\ MessageEvent /\ saw = {}
  /\ saw' = {"message_start"}
  /\ Emit(<<>>)
  /\ AnthropicUnchanged /\ UNCHANGED <<blocks, stop, slot, item, sent>>

ContentBlockStart(i, k) ==
  /\ Event /\ saw = {"message_start"} /\ stop = "stop"
  /\ ItemOpens(i)
  /\ blocks' = Append(blocks, NewBlock(k, i))
  /\ slot' = At(slot, i, Len(blocks) + 1)
  /\ Emit(<<BlockStart(Len(blocks) + 1, k)>>)
  /\ AnthropicUnchanged /\ UNCHANGED <<stop, saw, sent>>

ContentBlockDelta(i) ==
  /\ Event /\ item[i] = "open"
  /\ ItemSends(i)
  /\ blocks' = Grown(slot[i], 1)
  /\ Emit(<<Delta(slot[i], blocks[slot[i]].kind, 1)>>)
  /\ AnthropicUnchanged /\ UNCHANGED <<stop, slot, saw, item>>

ContentBlockStop(i) ==
  /\ Event
  /\ ItemCloses(i)
  /\ Emit(<<EndOf(slot[i])>>)
  /\ AnthropicUnchanged /\ UNCHANGED <<blocks, stop, slot, saw, sent>>

\* The stop reason, which may be a refusal or one the code does not know.
MessageDelta ==
  /\ MessageEvent /\ saw = {"message_start"} /\ stop = "stop" /\ AllClosed
  /\ \/ /\ stop' \in {"length", "toolUse", "error"}
        /\ Emit(<<>>)
     \/ /\ Fail("error")
        /\ UNCHANGED stop
  /\ AnthropicUnchanged /\ UNCHANGED <<blocks, slot, saw, item, sent>>

MessageStop ==
  /\ MessageEvent /\ saw = {"message_start"} /\ AllClosed
  /\ saw' = saw \cup {"message_stop"}
  /\ Emit(<<>>)
  /\ AnthropicUnchanged /\ UNCHANGED <<blocks, stop, slot, item, sent>>

\* The response ends, or breaks off cleanly.
AnthropicEnd ==
  /\ Running("reading")
  /\ IF saw = {"message_start"} THEN Fail("error")
     ELSE IF cancelled THEN Fail("aborted")
     ELSE IF stop = "error" THEN Fail("error")
     ELSE Finish(<<>>)
  /\ UNCHANGED <<attempt, cancelled, outputVars, serverVars>>

AnthropicStep ==
  \/ MessageStart \/ MessageDelta \/ MessageStop \/ AnthropicEnd
  \/ \E i \in Items :
       \/ ContentBlockDelta(i) \/ ContentBlockStop(i)
       \/ \E k \in Kinds \ {"custom"} : ContentBlockStart(i, k)

=============================================================================
