--------------------------- MODULE StreamAssembly ---------------------------
(***************************************************************************)
(* What the stream providers have in common once their response is being   *)
(* read: the message under construction, the ways to open a block, to add  *)
(* to it and to end it, and the server that sends the items.               *)
(*                                                                         *)
(* An item is what the server means to become one content block.  A        *)
(* conforming server opens an item once, adds to it only while it is open  *)
(* and closes it once; it may interleave items, declare an error, or break *)
(* off at any point.                                                       *)
(***************************************************************************)
EXTENDS HttpRetry

CONSTANTS
  N,             \* items a server sends at most
  MaxFragments,  \* fragments of one item
  MaxServed,     \* events about items in one response
  MaxQueued      \* events that wait in the channel when the server sends one more

ASSUME AssemblyAssumption == {N, MaxFragments, MaxServed, MaxQueued} \subseteq Nat

Items == 1..N
Kinds == {"text", "thinking", "tool", "custom"}

VARIABLES
  blocks,  \* output.content: Seq of [kind, item, len]
  stop,    \* output.stop_reason
  slot,    \* wire index |-> block
  byId,    \* tool call id |-> block (Completions)
  saw,     \* flags of run_stream: message_start, message_stop, finish_reason
  item,    \* server: state of each item
  sent,    \* server: fragments sent of each item
  told,    \* server: the names under which it has sent each tool call
  left     \* server: events it may still send

outputVars == <<blocks, stop, slot, byId, saw>>
serverVars == <<item, sent, told, left>>

AssemblyInit ==
  /\ blocks = <<>> /\ stop = "stop"
  /\ slot = <<>> /\ byId = <<>> /\ saw = {}
  /\ item = [i \in Items |-> "new"]
  /\ sent = [i \in Items |-> 0]
  /\ told = [i \in Items |-> {}]
  /\ left = MaxServed

NewBlock(k, i) == [kind |-> k, item |-> i, len |-> 0]
Grown(b, n) == [blocks EXCEPT ![b].len = @ + n]
EndOf(b) == BlockEnd(b, blocks[b].kind, blocks[b].len)
HasToolCall == \E b \in DOMAIN blocks : blocks[b].kind \in {"tool", "custom"}

-----------------------------------------------------------------------------
\* A server event reaches the loop: the token is looked at before the event.
Arrives == Running("reading") /\ ~cancelled /\ Len(chan) <= MaxQueued

\* An event about an item.
Event == Arrives /\ left > 0 /\ left' = left - 1

\* An event about the message, of which there are few anyhow.
MessageEvent == Arrives /\ UNCHANGED left

\* The loop goes on after pushing events.
Emit(events) == Push(events) /\ UNCHANGED <<pc, outcome, polled, view>>

\* Items are numbered in the order of their appearance.
IsNext(i) == item[i] = "new" /\ \A j \in 1..(i - 1) : item[j] # "new"

ItemOpens(i) == IsNext(i) /\ item' = [item EXCEPT ![i] = "open"]
ItemCloses(i) == item[i] = "open" /\ item' = [item EXCEPT ![i] = "closed"]
ItemSends(i) == sent[i] < MaxFragments /\ sent' = [sent EXCEPT ![i] = @ + 1]
AllClosed == \A i \in Items : item[i] # "open"

\* An error event, bytes that are not JSON, a broken connection, the
\* request's timeout, a line above the limit.
ReadFails ==
  /\ Running("reading")
  /\ Fail(IF cancelled THEN "aborted" ELSE "error")
  /\ UNCHANGED <<attempt, cancelled, outputVars, serverVars>>

\* sse::events races each chunk with the token.
CancelledWhileReading ==
  /\ Running("reading") /\ cancelled
  /\ Fail("aborted")
  /\ UNCHANGED <<attempt, cancelled, outputVars, serverVars>>

\* Done: pushed, and the producer returns Ok.
Finish(before) ==
  /\ Push(Append(before, Terminal("done", blocks)))
  /\ outcome' = "ok" /\ pc' = "returned"
  /\ UNCHANGED <<polled, view>>

=============================================================================
