----------------------------- MODULE RunEvents -----------------------------
(***************************************************************************)
(* What the subscribers of an agent are promised about the events of one   *)
(* run: turns do not overlap, messages do not overlap and belong to a      *)
(* turn, the run ends outside of a turn, and a run that fails is closed by *)
(* a report, which may cut off whatever was open.                          *)
(*                                                                         *)
(* README.md, "Event Flow".  Tool events and tool-result messages lie      *)
(* inside a turn and are left to ToolBatch.                                *)
(***************************************************************************)

VARIABLES
  run,   \* none, running, failing (the report is being made), ended
  turn,  \* a turn is open
  msg,   \* the open message: none, other, assistant, failure
  beat   \* flips with every event, so that none goes unnoticed

vars == <<run, turn, msg, beat>>

Init == run = "none" /\ turn = FALSE /\ msg = "none" /\ beat = FALSE

Event == beat' = ~beat

AgentStart ==
  /\ run = "none"
  /\ run' = "running"
  /\ Event /\ UNCHANGED <<turn, msg>>

TurnStart ==
  /\ run = "running" /\ ~turn
  /\ turn' = TRUE
  /\ Event /\ UNCHANGED <<run, msg>>

MessageStart ==
  /\ run = "running" /\ turn /\ msg = "none"
  /\ msg' \in {"other", "assistant"}
  /\ Event /\ UNCHANGED <<run, turn>>

MessageUpdate ==
  /\ run = "running" /\ msg = "assistant"
  /\ Event /\ UNCHANGED <<run, turn, msg>>

MessageEnd ==
  /\ msg # "none"
  /\ msg' = "none"
  /\ Event /\ UNCHANGED <<run, turn>>

TurnEnd ==
  /\ run = "running" /\ turn /\ msg = "none"
  /\ turn' = FALSE
  /\ Event /\ UNCHANGED <<run, msg>>

AgentEnd ==
  /\ run \in {"running", "failing"} /\ ~turn /\ msg = "none"
  /\ run' = "ended"
  /\ Event /\ UNCHANGED <<turn, msg>>

(* A report starts at any point, once, even after AgentEnd when it is the  *)
(* event whose listener fails, or before AgentStart.                       *)
ReportStart ==
  /\ run # "failing"
  /\ run' = "failing"
  /\ msg' = "failure"
  /\ Event /\ UNCHANGED turn

ReportTurnEnd ==
  /\ run = "failing" /\ msg = "none"
  /\ turn' = FALSE
  /\ Event /\ UNCHANGED <<run, msg>>

Next ==
  \/ AgentStart \/ TurnStart \/ MessageStart \/ MessageUpdate \/ MessageEnd
  \/ TurnEnd \/ AgentEnd \/ ReportStart \/ ReportTurnEnd

Spec == Init /\ [][Next]_vars

=============================================================================
