-------------------------- MODULE CompletionsStream -------------------------
(***************************************************************************)
(* providers/openai_completions.rs, run_stream from the Start event on.    *)
(* The wire has no block events: the first fragment of a kind opens the    *)
(* block, all text goes to one block, all reasoning to another, and tool   *)
(* calls are told apart by an index, an id or both.  All blocks are ended  *)
(* when the response ends.                                                 *)
(*                                                                         *)
(* A chunk that holds several deltas is taken as several chunks.  A custom *)
(* tool call takes the same way as a function call.                        *)
(***************************************************************************)
EXTENDS StreamAssembly

CompletionsUnchanged == UNCHANGED <<attempt, cancelled>>

\* Names of tool call i on the wire: its index, its id, and the ids that
\* some servers put in later deltas of the same index.
OwnId(i) == i
OtherId(i) == N + i

\* ensure_text_block and ensure_thinking_block: the one block of the kind, or
\* a new one.
EnsureBlock(k) ==
  LET existing == {b \in DOMAIN blocks : blocks[b].kind = k}
  IN IF existing = {} THEN Len(blocks) + 1 ELSE CHOOSE c \in existing : TRUE

ContentDelta(i, k) ==
  LET b == EnsureBlock(k)
      new == b > Len(blocks)
      opened == IF new THEN Append(blocks, NewBlock(k, i)) ELSE blocks
  IN /\ Event /\ saw = {}
     /\ \/ IsNext(i) /\ new
        \/ item[i] = "open" /\ \E c \in DOMAIN blocks : blocks[c].item = i /\ blocks[c].kind = k
     /\ item' = [item EXCEPT ![i] = "open"]
     /\ ItemSends(i)
     /\ blocks' = [opened EXCEPT ![b].len = @ + 1]
     /\ Emit((IF new THEN <<BlockStart(b, k)>> ELSE <<>>) \o <<Delta(b, k, 1)>>)
     /\ CompletionsUnchanged /\ UNCHANGED <<stop, slot, byId, saw, told>>

\* The server names a call by what it has told before; a new call has an
\* index or an id.
Names(i, index, id) ==
  LET names == (IF index THEN {"index"} ELSE {}) \cup
               (IF id = OwnId(i) THEN {"id"} ELSE IF id = OtherId(i) THEN {"otherId"} ELSE {})
  IN /\ told' = [told EXCEPT ![i] = @ \cup names]
     /\ id = OtherId(i) => index
     /\ IF item[i] = "new" THEN names # {} ELSE names \cap told[i] # {}

\* ensure_tool_call_block: by index, then by id, else a new block; the index
\* and the id are then bound to the block.
\* The mutant forgets the id of a call that comes with a new index.
BlockForIndex(i, index, id) ==
  IF index THEN (IF i \in DOMAIN slot THEN slot[i] ELSE Len(blocks) + 1)
  ELSE IF id \in DOMAIN byId THEN byId[id]
  ELSE Len(blocks) + 1
BlockFor(i, index, id) ==
  IF index /\ i \in DOMAIN slot THEN slot[i]
  ELSE IF id \in DOMAIN byId THEN byId[id]
  ELSE Len(blocks) + 1

ToolCallDelta(i, index, id, n) ==
  LET b == BlockFor(i, index, id)
      new == b > Len(blocks)
      opened == IF new THEN Append(blocks, NewBlock("tool", i)) ELSE blocks
  IN /\ Event /\ saw = {}
     /\ IsNext(i) \/ \E c \in DOMAIN blocks : blocks[c].item = i /\ blocks[c].kind = "tool"
     /\ Names(i, index, id)
     /\ item' = [item EXCEPT ![i] = "open"]
     /\ IF n = 1 THEN ItemSends(i) ELSE item[i] = "new" /\ UNCHANGED sent
     /\ blocks' = [opened EXCEPT ![b].len = @ + n]
     /\ slot' = IF index THEN At(slot, i, b) ELSE slot
     /\ byId' = IF id # 0 THEN At(byId, id, b) ELSE byId
     /\ Emit((IF new THEN <<BlockStart(b, "tool")>> ELSE <<>>) \o <<Delta(b, opened[b].kind, n)>>)
     /\ CompletionsUnchanged /\ UNCHANGED <<stop, saw>>

\* map_stop_reason: a reason the code does not know is an error.
StopReasons == {"stop", "length", "toolUse", "error"}

FinishReason ==
  /\ MessageEvent /\ saw = {}
  /\ saw' = {"finish_reason"}
  /\ stop' \in StopReasons
  /\ Emit(<<>>)
  /\ CompletionsUnchanged /\ UNCHANGED <<blocks, slot, byId, item, sent, told>>

\* The mutant leaves the tool calls open.
FinishOpenContent == SelectSeq([b \in DOMAIN blocks |-> EndOf(b)], LAMBDA e : e.kind # "tool")
FinishOpenBlocks == [b \in DOMAIN blocks |-> EndOf(b)]

\* What makes the message a failure; a response without a finish reason broke
\* off.
EndsBadly == cancelled \/ stop = "error" \/ saw = {}

CompletionsEnd ==
  /\ Running("reading")
  /\ IF EndsBadly
     THEN /\ Push(FinishOpenBlocks)
          /\ outcome' = IF cancelled THEN "aborted" ELSE "error"
          /\ pc' = "returned"
          /\ UNCHANGED <<polled, view>>
     ELSE Finish(FinishOpenBlocks)
  /\ CompletionsUnchanged /\ UNCHANGED <<outputVars, serverVars>>

CompletionsStep ==
  \/ FinishReason \/ CompletionsEnd
  \/ \E i \in Items :
       \/ \E k \in {"text", "thinking"} : ContentDelta(i, k)
       \/ \E index \in BOOLEAN, id \in {0, OwnId(i), OtherId(i)}, n \in 0..1 :
            ToolCallDelta(i, index, id, n)

=============================================================================
