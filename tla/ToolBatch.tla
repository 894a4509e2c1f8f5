----------------------------- MODULE ToolBatch -----------------------------
(***************************************************************************)
(* The tool calls of one assistant message (agent_loop.rs): preflight,     *)
(* sequential and parallel execution, truncated messages, progress updates *)
(* emitted by spawned tasks, cancellation and failing listeners.           *)
(*                                                                         *)
(* Calls are their source indices.  The batch is one task; in parallel     *)
(* mode the futures of the calls interleave at their await points.  An     *)
(* updater is whoever holds the on_update callback of a call: it loads     *)
(* accepting_updates, spawns the task that emits the update, and pushes    *)
(* the task's handle, in three steps.  One update per call is followed.    *)
(***************************************************************************)
EXTENDS Naturals, Sequences, FiniteSets

CONSTANTS
  N,                \* tool calls in the message
  DetachedUpdaters, \* may a tool leave on_update to a task of its own?
  MaxFaults         \* bound: failing listeners

ASSUME ToolBatchAssumption ==
  /\ N \in Nat \ {0}
  /\ DetachedUpdaters \in BOOLEAN
  /\ MaxFaults \in Nat

Calls == 1 .. N

VARIABLES
  mode,       \* how the batch is run: parallel, sequential, truncated
  cancelled,  \* the run's token
  phase,      \* control point of the batch
  cur,        \* source index the batch is at
  call,       \* stage of each call
  terminating,  \* calls whose result has terminate set
  pending,    \* Agent's state.pending_tool_calls
  results,    \* source indices of the emitted tool-result messages, in order
  updater,    \* control point of each call's updater
  task,       \* the update task of each call
  handles,    \* update_tasks: calls whose task handle has been pushed
  awaited,    \* calls whose task handle await_tool_update_tasks has taken
  faults      \* failing listeners so far

updates == <<updater, task, handles, awaited>>
vars    == <<mode, cancelled, phase, cur, call, terminating, pending, results, updates, faults>>

Stages == {"waiting", "started", "immediate", "prepared", "executing",
           "settled", "drained", "hooked", "finished", "refused",
           "orphaned", "dropped"}

Init ==
  /\ mode \in {"parallel", "sequential", "truncated"}
  /\ cancelled = FALSE
  /\ phase = "start"
  /\ cur = 1
  /\ call = [i \in Calls |-> "waiting"]
  /\ terminating = {}
  /\ pending = {}
  /\ results = <<>>
  /\ updater = [i \in Calls |-> "idle"]
  /\ task = [i \in Calls |-> "none"]
  /\ handles = {}
  /\ awaited = {}
  /\ faults = 0

Stage(i, s) == call' = [call EXCEPT ![i] = s]

-----------------------------------------------------------------------------
(***************************************************************************)
(* Preflight: prepare_tool_call.                                           *)
(***************************************************************************)

(* ToolExecutionStart goes out and the sink notes the call as pending.  A  *)
(* truncated message goes straight to its error result.                    *)
Start ==
  /\ phase = "start"
  /\ pending' = pending \cup {cur}
  /\ Stage(cur, IF mode = "truncated" THEN "immediate" ELSE "started")
  /\ phase' = IF mode = "truncated" THEN "endImmediate" ELSE "prepare"
  /\ UNCHANGED <<mode, cancelled, cur, terminating, results, updates, faults>>

(* A mutant of the next definition that looks at the token only when there *)
(* is a before_tool_call hook.                                             *)
MayPrepareHooked == TRUE
MayPrepare       == ~cancelled

(* A parallel batch puts prepared calls aside; the mutant polls them.      *)
PreparedStageEager == "executing"
PreparedStage      == IF mode = "parallel" THEN "prepared" ELSE "executing"

(* The tool is unknown, its arguments are rejected, the hook blocks or     *)
(* fails, or the run was cancelled: the call is answered at once.          *)
Prepare ==
  /\ phase = "prepare"
  /\ \/ Stage(cur, "immediate") /\ phase' = "endImmediate"
     \/ /\ MayPrepare
        /\ Stage(cur, PreparedStage)
        /\ phase' = IF mode = "parallel" THEN "check" ELSE "execute"
  /\ UNCHANGED <<mode, cancelled, cur, terminating, pending, results, updates, faults>>

(* The sink at ToolExecutionEnd.                                           *)
StillPending(i) == pending \ {i}

(* ToolExecutionEnd for a call that is not executed.                       *)
EndImmediate ==
  /\ phase = "endImmediate"
  /\ pending' = StillPending(cur)
  /\ Stage(cur, "refused")
  /\ phase' = IF mode = "parallel" THEN "check" ELSE "message"
  /\ UNCHANGED <<mode, cancelled, cur, terminating, results, updates, faults>>

(* After a call: break when the token is cancelled, go on otherwise.  The  *)
(* truncated path has no such check.  The mutants stop one call early and  *)
(* try a refused call again.                                               *)
StopsAfterCallEarly == cur + 1 >= N \/ (cancelled /\ mode # "truncated")
StopsAfterCall      == cur = N \/ (cancelled /\ mode # "truncated")
NextCallRetrying    == IF call[cur] = "refused" THEN cur ELSE cur + 1
NextCall            == cur + 1

AfterCall ==
  /\ phase = "check"
  /\ IF ~StopsAfterCall
     THEN phase' = "start" /\ cur' = NextCall /\ UNCHANGED call
     ELSE /\ UNCHANGED cur
          /\ phase' = IF mode = "parallel" THEN "execute" ELSE "done"
          /\ call' = [i \in Calls |-> IF call[i] = "prepared" THEN "executing"
                                      ELSE call[i]]
  /\ UNCHANGED <<mode, cancelled, terminating, pending, results, updates, faults>>

-----------------------------------------------------------------------------
(***************************************************************************)
(* Execution: execute_prepared_tool_call, one call's future at a time.     *)
(***************************************************************************)

(* The tool returns, with a result or an error; no update is accepted from *)
(* here on.                                                                *)
Settle(i) ==
  /\ phase = "execute"
  /\ call[i] = "executing"
  /\ Stage(i, "settled")
  /\ terminating' \in {terminating, terminating \cup {i}}
  /\ UNCHANGED <<mode, cancelled, phase, cur, pending, results, updates, faults>>

(* await_tool_update_tasks takes the handles that are there...             *)
TakeHandles(i) ==
  /\ phase = "execute"
  /\ call[i] = "settled"
  /\ Stage(i, "drained")
  /\ awaited' = awaited \cup ({i} \cap handles)
  /\ handles' = handles \ {i}
  /\ UNCHANGED <<mode, cancelled, phase, cur, terminating, pending, results, updater, task, faults>>

(* ...and waits for each of them.  The mutant of the next definition drops *)
(* the handles it has taken.                                               *)
UpdatesDoneUnawaited(i) == TRUE
UpdatesDone(i)          == i \in awaited => task[i] = "emitted"

(* after_tool_call may replace the outcome, or fail.                       *)
AfterHook(i) ==
  /\ phase = "execute"
  /\ call[i] = "drained"
  /\ UpdatesDone(i)
  /\ Stage(i, "hooked")
  /\ terminating' \in {terminating \ {i}, terminating \cup {i}}
  /\ UNCHANGED <<mode, cancelled, phase, cur, pending, results, updates, faults>>

(* ToolExecutionEnd, in completion order.                                  *)
End(i) ==
  /\ phase = "execute"
  /\ call[i] = "hooked"
  /\ Stage(i, "finished")
  /\ pending' = StillPending(i)
  /\ phase' = IF mode = "sequential" THEN "message" ELSE phase
  /\ UNCHANGED <<mode, cancelled, cur, terminating, results, updates, faults>>

Finished == {i \in Calls : call[i] \in {"finished", "refused"}}

AllExecuted ==
  /\ phase = "execute"
  /\ mode = "parallel"
  /\ \A i \in Calls : call[i] = "waiting" \/ i \in Finished
  /\ phase' = "publish"
  /\ UNCHANGED <<mode, cancelled, cur, call, terminating, pending, results, updates, faults>>

Published == {results[n] : n \in DOMAIN results}

(* emit_tool_result_message, right after a call of a sequential batch...   *)
EmitResult ==
  /\ phase = "message"
  /\ results' = Append(results, cur)
  /\ phase' = "check"
  /\ UNCHANGED <<mode, cancelled, cur, call, terminating, pending, updates, faults>>

(* ...or for all calls of a parallel batch, in source order.               *)
NextToPublish == CHOOSE i \in Finished \ Published :
                   \A j \in Finished \ Published : i <= j

Publish ==
  /\ phase = "publish"
  /\ IF Finished \subseteq Published
     THEN phase' = "done" /\ UNCHANGED results
     ELSE results' = Append(results, NextToPublish) /\ UNCHANGED phase
  /\ UNCHANGED <<mode, cancelled, cur, call, terminating, pending, updates, faults>>

(* ExecutedToolBatch.terminate.                                            *)
BatchTerminate ==
  mode # "truncated" /\ results # <<>> /\ Published \subseteq terminating

-----------------------------------------------------------------------------
(***************************************************************************)
(* Updates: the on_update callback and the tasks it spawns.                *)
(***************************************************************************)

(* accepting_updates of the call is true: the tool has not returned.  A    *)
(* dropped future never stores false, but then only a detached updater     *)
(* still holds the callback.                                               *)
Accepting(i) == call[i] = "executing" \/ (DetachedUpdaters /\ call[i] = "orphaned")

UpdateCheck(i) ==
  /\ updater[i] = "idle"
  /\ Accepting(i)
  /\ updater' = [updater EXCEPT ![i] = "accepted"]
  /\ UNCHANGED <<mode, cancelled, phase, cur, call, terminating, pending, results,
                 task, handles, awaited, faults>>

UpdateSpawn(i) ==
  /\ updater[i] = "accepted"
  /\ updater' = [updater EXCEPT ![i] = "spawned"]
  /\ task' = [task EXCEPT ![i] = "running"]
  /\ UNCHANGED <<mode, cancelled, phase, cur, call, terminating, pending, results,
                 handles, awaited, faults>>

UpdatePush(i) ==
  /\ updater[i] = "spawned"
  /\ updater' = [updater EXCEPT ![i] = "pushed"]
  /\ handles' = handles \cup {i}
  /\ UNCHANGED <<mode, cancelled, phase, cur, call, terminating, pending, results,
                 task, awaited, faults>>

(* ToolExecutionUpdate goes out.                                           *)
UpdateEmit(i) ==
  /\ task[i] = "running"
  /\ task' = [task EXCEPT ![i] = "emitted"]
  /\ UNCHANGED <<mode, cancelled, phase, cur, call, terminating, pending, results,
                 updater, handles, awaited, faults>>

-----------------------------------------------------------------------------
Cancel ==
  /\ ~cancelled
  /\ phase \notin {"done", "failed", "cleared"}
  /\ cancelled' = TRUE
  /\ UNCHANGED <<mode, phase, cur, call, terminating, pending, results, updates, faults>>

(* The last step emitted an event, so this is where its failure shows; the *)
(* failure of an update shows when its task is awaited.                    *)
JustEmitted ==
  \/ phase \in {"prepare", "message"}
  \/ phase = "endImmediate" /\ mode = "truncated"
  \/ phase = "check" /\ cur \in Finished
  \/ phase = "publish" /\ results # <<>>
  \/ phase = "execute" /\ \E i \in Calls :
       call[i] = "finished" \/ (call[i] = "drained" /\ i \in awaited /\ task[i] = "emitted")

(* A listener fails on an event of the batch: the error leaves the batch   *)
(* and the futures of the other calls are dropped where they are.          *)
Fault ==
  /\ JustEmitted
  /\ faults < MaxFaults
  /\ faults' = faults + 1
  /\ phase' = "failed"
  /\ call' = [i \in Calls |->
                IF call[i] = "executing" THEN "orphaned"
                ELSE IF call[i] = "waiting" \/ i \in Finished THEN call[i]
                ELSE "dropped"]
  /\ UNCHANGED <<mode, cancelled, cur, terminating, pending, results, updates>>

(* The agent reports the failure and then empties pending_tool_calls.      *)
ClearPending ==
  /\ phase = "failed"
  /\ phase' = "cleared"
  /\ pending' = {}
  /\ UNCHANGED <<mode, cancelled, cur, call, terminating, results, updates, faults>>

BatchStep ==
  \/ Start \/ Prepare \/ EndImmediate \/ AfterCall
  \/ AllExecuted \/ EmitResult \/ Publish \/ ClearPending

CallStep(i) == Settle(i) \/ TakeHandles(i) \/ AfterHook(i) \/ End(i)

CallbackStep(i) == UpdateSpawn(i) \/ UpdatePush(i)

(* A tool that keeps on_update to itself runs the callback within one poll *)
(* of the batch's task, which therefore does nothing else meanwhile.       *)
BatchMayRun ==
  DetachedUpdaters \/ \A i \in Calls : updater[i] \in {"idle", "pushed"}

Stopped == phase \in {"done", "cleared"} /\ UNCHANGED vars

Next ==
  \/ BatchMayRun /\ BatchStep
  \/ BatchMayRun /\ Fault
  \/ \E i \in Calls : \/ BatchMayRun /\ (CallStep(i) \/ UpdateCheck(i))
                      \/ CallbackStep(i)
                      \/ UpdateEmit(i)
  \/ Cancel
  \/ Stopped

Spec == Init /\ [][Next]_vars

(* Tools return, hooks and listeners finish, spawned tasks are polled.     *)
Fairness ==
  /\ WF_vars(BatchMayRun /\ BatchStep)
  /\ \A i \in Calls : /\ WF_vars(BatchMayRun /\ CallStep(i))
                      /\ WF_vars(CallbackStep(i))
                      /\ WF_vars(UpdateEmit(i))

FairSpec == Spec /\ Fairness

-----------------------------------------------------------------------------
(***************************************************************************)
(* Properties.                                                             *)
(***************************************************************************)

(* When a batch returns, every call whose start was announced has its end  *)
(* and its result; a call without a result means the run was cancelled.    *)
(* A batch ends the run only when no executed or refused call wants it to  *)
(* go on; a refused call always does.  Until it returns,                   *)
(* state.pending_tool_calls is exactly the calls between their start and   *)
(* their end, unless a failed run empties it.  The transcript gets the     *)
(* results in the order of the calls, whichever tool finishes first.       *)
EveryCallAnswered ==
  /\ phase = "done" =>
       /\ Published = {i \in Calls : call[i] # "waiting"}
       /\ Published \subseteq Finished
       /\ ~cancelled => Published = Calls
       /\ BatchTerminate => {i \in Calls : call[i] # "waiting"} \subseteq terminating
  /\ phase # "cleared" =>
       pending = {i \in Calls : call[i] # "waiting" /\ i \notin Finished}
  /\ \A m, n \in DOMAIN results : m < n => results[m] < results[n]

(* README: "Preflight runs sequentially, allowed tools execute             *)
(* concurrently": no tool runs while another call is in preflight; and a   *)
(* cancelled run lets no further call through preflight.                   *)
PreflightAlone ==
  [][/\ \A i, j \in Calls : ~(call'[i] = "started" /\ call'[j] \in {"executing", "settled"})
     /\ cancelled => \A i \in Calls : call[i] \in {"waiting", "started"} =>
                        call'[i] \notin {"prepared", "executing"}]_vars

(* No progress update of a call goes out after the call's end: the tests   *)
(* should_ignore_tool_updates_after_the_tool_execution_settles and         *)
(* should_ignore_a_settled_parallel_tool_update_while_another_tool_is_running *)
NoUpdateAfterEnd ==
  [][\A i \in Calls : call[i] = "finished" =>
       ~(task[i] = "running" /\ task'[i] = "emitted")]_vars

(* A batch comes to its end or fails, cancelled or not: nothing waits for  *)
(* an update task, a tool or a listener that has already finished.         *)
BatchEnds == <>(phase \in {"done", "cleared"})

=============================================================================
