--------------------------- MODULE StreamContract ---------------------------
(***************************************************************************)
(* What the consumer of an assistant message stream is promised: Start     *)
(* first; then content blocks, each opened under the next content_index,   *)
(* growing under that index and of one kind, ended at most once; at last   *)
(* one terminal event and the end of the stream.  Blocks may interleave.   *)
(* A message that is Done has had all of its blocks ended; an Error may    *)
(* cut off whatever was open, and may come before Start.                   *)
(***************************************************************************)
EXTENDS Naturals, Sequences

VARIABLES
  phase,   \* waiting, open, done, error
  blocks,  \* content_index |-> [kind, len, ended]
  closed   \* the stream has returned None

vars == <<phase, blocks, closed>>

Kinds == {"text", "thinking", "tool", "custom"}

Init == phase = "waiting" /\ blocks = <<>> /\ closed = FALSE

Begin ==
  /\ phase = "waiting"
  /\ phase' = "open"
  /\ UNCHANGED <<blocks, closed>>

OpenBlock ==
  /\ phase = "open"
  /\ \E k \in Kinds :
       blocks' = Append(blocks, [kind |-> k, len |-> 0, ended |-> FALSE])
  /\ UNCHANGED <<phase, closed>>

\* A delta adds to one open block and never takes away.
Grow(i) ==
  /\ phase = "open" /\ ~blocks[i].ended
  /\ blocks' = [blocks EXCEPT ![i].len = blocks'[i].len]
  /\ blocks'[i].len >= blocks[i].len
  /\ UNCHANGED <<phase, closed>>

\* The end of a block repeats all of it, and may tell more than the deltas did.
EndBlock(i) ==
  /\ phase = "open" /\ ~blocks[i].ended
  /\ blocks' = [blocks EXCEPT ![i].ended = TRUE, ![i].len = blocks'[i].len]
  /\ blocks'[i].len >= blocks[i].len
  /\ UNCHANGED <<phase, closed>>

Complete ==
  /\ phase = "open"
  /\ \A i \in DOMAIN blocks : blocks[i].ended
  /\ phase' = "done"
  /\ UNCHANGED <<blocks, closed>>

Fail ==
  /\ phase \in {"waiting", "open"}
  /\ phase' = "error"
  /\ UNCHANGED <<blocks, closed>>

Close ==
  /\ phase \in {"done", "error"} /\ ~closed
  /\ closed' = TRUE
  /\ UNCHANGED <<phase, blocks>>

Next ==
  \/ Begin \/ OpenBlock \/ Complete \/ Fail \/ Close
  \/ \E i \in DOMAIN blocks : Grow(i) \/ EndBlock(i)

Spec == Init /\ [][Next]_vars

=============================================================================
