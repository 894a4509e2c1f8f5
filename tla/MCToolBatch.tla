----------------------------- MODULE MCToolBatch -----------------------------
(***************************************************************************)
(* Instances of ToolBatch and AgentEvents for TLC.  ToolBatch: three calls *)
(* whose tools keep the update callback to themselves.  AgentEvents shares *)
(* nothing with it; its listeners come in when one of the batches is over. *)
(***************************************************************************)
EXTENDS ToolBatch

CONSTANTS MaxListeners, MaxEmissions, MaxStarts

VARIABLES listeners, came, started, token, emission

eventVars == <<listeners, came, started, token, emission>>

Events == INSTANCE AgentEvents

BatchIsOver ==
  /\ mode = "sequential" /\ phase = "done" /\ ~cancelled
  /\ terminating = {} /\ faults = 0 /\ pending = {} /\ results = [i \in Calls |-> i]
  /\ call = [i \in Calls |-> "refused"]

MCInit == Init /\ Events!Init

MCNext ==
  \/ Next /\ UNCHANGED eventVars
  \/ BatchIsOver /\ Events!Next /\ UNCHANGED vars

MCSpec == MCInit /\ [][MCNext]_<<vars, eventVars>> /\ Fairness

\* A listener that stays subscribed hears every event once and in its turn
\* (AgentEvents).
ListenersHearEvents == Events!ListenersHearEvents

=============================================================================
