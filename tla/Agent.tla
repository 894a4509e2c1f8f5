------------------------------- MODULE Agent -------------------------------
(***************************************************************************)
(* The Agent facade (agent.rs): tasks that call prompt_messages and        *)
(* continue_run on one shared agent, tasks that wait in wait_for_idle, and *)
(* a user who steers, queues follow-ups, edits the state, resets, aborts   *)
(* or drops the future of a run.  Each mutex of the code is an await       *)
(* point, so every critical section is an action of its own.               *)
(*                                                                         *)
(* A run is followed at the grain of agent_loop.rs's run_loop: prompts,    *)
(* steering polls, injected messages, one provider response per turn,      *)
(* tool batches, follow-up polls.  What happens inside a response is       *)
(* AgentRun's subject and what happens inside a tool batch is ToolBatch's. *)
(***************************************************************************)
EXTENDS Naturals, Sequences, FiniteSets, TLC

CONSTANTS
  Callers,    \* tasks that call prompt_messages or continue_run
  Waiters,    \* tasks that call wait_for_idle
  MaxRuns,    \* bound: cancellation tokens ever created
  MaxMsgs,    \* bound: messages ever submitted
  MaxTurns,   \* bound: tool-calling responses in a run
  MaxFaults,  \* bound: provider-stream errors and failing listeners
  MaxEdits,   \* bound: calls of the state and queue mutators
  MaxDrops    \* bound: run futures dropped by their caller

ASSUME AgentAssumption ==
  /\ {MaxRuns, MaxMsgs, MaxTurns, MaxFaults, MaxEdits, MaxDrops} \subseteq Nat

VARIABLES
  activeToken,  \* active_token: 0 for None, or the token of the run
  lastToken,    \* tokens created so far; each acquisition makes a new one
  cancelled,    \* tokens that were cancelled
  isStreaming,  \* state.is_streaming
  tail,         \* role of the last message of state.messages
  steering,     \* steering_queue.messages
  followUp,     \* follow_up_queue.messages
  mode,         \* the QueueMode of each queue
  pc,           \* control point of each caller
  run,          \* locals of each caller's run
  wpc,          \* control point of each waiter
  woken,        \* waiters whose Notified future has been woken
  resetPc,      \* progress of a call of reset
  delivered,    \* history: submitted messages in the order they were emitted
  lost,         \* history: messages cleared, or held by a run that failed
  lastId,       \* messages submitted so far
  faults, edits, drops  \* how much of each bound is used

token  == <<activeToken, lastToken, cancelled>>
queues == <<steering, followUp, mode>>
sleep  == <<wpc, woken>>
hist   == <<delivered, lost, lastId>>
used   == <<faults, edits, drops>>
vars   == <<token, isStreaming, tail, queues, pc, run, sleep, resetPc, hist, used>>

Role      == {"none", "assistant", "other"}
QueueMode == {"All", "OneAtATime"}
Message   == [id : 1 .. MaxMsgs, via : {"prompt", "steer", "followUp"}]

(***************************************************************************)
(* PendingMessageQueue::drain: what it returns and what it leaves.         *)
(***************************************************************************)
Drained(q, m)   == IF m = "All" \/ q = <<>> THEN q ELSE <<Head(q)>>
(* A mutant of the next definition: drain clones the queue.                *)
KeptWhole(q, m) == q
Kept(q, m)      == IF m = "All" \/ q = <<>> THEN <<>> ELSE Tail(q)

IdsOf(q) == {q[i].id : i \in DOMAIN q}

(***************************************************************************)
(* A run's locals: its token, the messages it holds but has not emitted    *)
(* yet, continue_existing, skip_initial_steering_poll, has_more_tool_calls,*)
(* the role of the last message of its context, the steering batches taken *)
(* since the last request and the tool-calling turns so far.               *)
(***************************************************************************)
RunLocals == [token : 0 .. MaxRuns, pending : Seq(Message), cont : BOOLEAN,
              skip : BOOLEAN, more : BOOLEAN, ctx : Role, batches : Nat, turns : Nat]

NoLocals == [token |-> 0, pending |-> <<>>, cont |-> FALSE, skip |-> FALSE,
             more |-> FALSE, ctx |-> "none", batches |-> 0, turns |-> 0]

Goto(c, l)       == pc' = [pc EXCEPT ![c] = l]
Locals(c, r)     == run' = [run EXCEPT ![c] = r]
SubmittedBy(via) == [id |-> lastId + 1, via |-> via]

Init ==
  /\ activeToken = 0
  /\ lastToken = 0
  /\ cancelled = {}
  /\ isStreaming = FALSE
  /\ tail \in Role
  /\ steering = <<>>
  /\ followUp = <<>>
  /\ mode \in [{"steering", "followUp"} -> QueueMode]
  /\ pc = [c \in Callers |-> "idle"]
  /\ run = [c \in Callers |-> NoLocals]
  /\ wpc = [w \in Waiters |-> "idle"]
  /\ woken = [w \in Waiters |-> FALSE]
  /\ resetPc = "idle"
  /\ delivered = <<>>
  /\ lost = {}
  /\ lastId = 0
  /\ faults = 0
  /\ edits = 0
  /\ drops = 0

-----------------------------------------------------------------------------
(***************************************************************************)
(* Starting a run.                                                         *)
(***************************************************************************)

(* A mutant of the next definition that does not look for a run.           *)
AcquireUnchecked(c) ==
  /\ lastToken < MaxRuns
  /\ lastToken' = lastToken + 1
  /\ activeToken' = lastToken + 1
  /\ UNCHANGED cancelled

(* acquire_active_token on its success path; a call made while a token is  *)
(* there returns AlreadyProcessing and leaves everything as it was.        *)
Acquire(c) ==
  /\ activeToken = 0
  /\ lastToken < MaxRuns
  /\ lastToken' = lastToken + 1
  /\ activeToken' = lastToken + 1
  /\ UNCHANGED cancelled

PromptMessages(c) ==
  /\ pc[c] = "idle"
  /\ Acquire(c)
  /\ lastId < MaxMsgs
  /\ lastId' = lastId + 1
  /\ Locals(c, [NoLocals EXCEPT !.token = activeToken',
                                !.pending = <<SubmittedBy("prompt")>>])
  /\ Goto(c, "setup")
  /\ UNCHANGED <<isStreaming, tail, queues, sleep, resetPc, delivered, lost, used>>

ContinueRun(c) ==
  /\ pc[c] = "idle"
  /\ Acquire(c)
  /\ Locals(c, [NoLocals EXCEPT !.token = activeToken'])
  /\ Goto(c, "inspect")
  /\ UNCHANGED <<isStreaming, tail, queues, sleep, resetPc, hist, used>>

(* continue_run reads the last message under the state lock and lets go of *)
(* the lock before it acts on what it read.                                *)
InspectLastMessage(c) ==
  /\ pc[c] = "inspect"
  /\ \/ tail = "none" /\ Goto(c, "clear") /\ UNCHANGED run
     \/ tail = "assistant" /\ Goto(c, "drainSteering") /\ UNCHANGED run
     \/ /\ tail = "other"
        /\ Goto(c, "setup")
        /\ Locals(c, [run[c] EXCEPT !.cont = TRUE])
  /\ UNCHANGED <<token, isStreaming, tail, queues, sleep, resetPc, hist, used>>

(* A mutant of the next definition that lets the run poll steering at once.*)
SteeredRunPolling(r, got) == [r EXCEPT !.pending = got, !.batches = 1]
SteeredRun(r, got) == [r EXCEPT !.pending = got, !.skip = TRUE, !.batches = 1]

(* The queued messages become the prompts of the run; the run then skips   *)
(* its first steering poll.                                                *)
DrainSteering(c) ==
  /\ pc[c] = "drainSteering"
  /\ steering' = Kept(steering, mode["steering"])
  /\ IF steering = <<>>
     THEN Goto(c, "drainFollowUp") /\ UNCHANGED run
     ELSE /\ Goto(c, "setup")
          /\ Locals(c, SteeredRun(run[c], Drained(steering, mode["steering"])))
  /\ UNCHANGED <<token, isStreaming, tail, followUp, mode, sleep, resetPc, hist, used>>

(* With nothing queued the call is refused: CannotContinueFromAssistant.   *)
DrainFollowUp(c) ==
  /\ pc[c] = "drainFollowUp"
  /\ followUp' = Kept(followUp, mode["followUp"])
  /\ Locals(c, [run[c] EXCEPT !.pending = Drained(followUp, mode["followUp"])])
  /\ Goto(c, IF followUp = <<>> THEN "clear" ELSE "setup")
  /\ UNCHANGED <<token, isStreaming, tail, steering, mode, sleep, resetPc, hist, used>>

Setup(c) ==
  /\ pc[c] = "setup"
  /\ isStreaming' = TRUE
  /\ Goto(c, "snapshot")
  /\ UNCHANGED <<token, tail, queues, run, sleep, resetPc, hist, used>>

(* A mutant of the next definition that trusts what continue_run saw.      *)
CanContinueFromAny(role) == role \in Role
CanContinueFrom(role)    == role \notin {"none", "assistant"}

(* create_context_snapshot copies the messages as they are now, and        *)
(* run_agent_loop_continue checks the copy again; run_agent_loop appends   *)
(* the prompts.                                                            *)
Snapshot(c) ==
  /\ pc[c] = "snapshot"
  /\ Locals(c, [run[c] EXCEPT !.ctx = IF run[c].pending = <<>> THEN tail ELSE "other",
                              !.more = TRUE])
  /\ Goto(c, IF run[c].cont /\ ~CanContinueFrom(tail) THEN "failure" ELSE "prompts")
  /\ UNCHANGED <<token, isStreaming, tail, queues, sleep, resetPc, hist, used>>

-----------------------------------------------------------------------------
(***************************************************************************)
(* The run itself.                                                         *)
(***************************************************************************)

(* One message goes out: the sink pushes it to state.messages at           *)
(* MessageEnd.  Prompts go out before the first steering poll, polled      *)
(* messages right before the request.                                      *)
EmitMessage(c) ==
  /\ pc[c] \in {"prompts", "inject"}
  /\ run[c].pending # <<>>
  /\ Locals(c, [run[c] EXCEPT !.pending = Tail(@), !.ctx = "other"])
  /\ delivered' = Append(delivered, Head(run[c].pending))
  /\ tail' = "other"
  /\ UNCHANGED <<token, isStreaming, queues, pc, sleep, resetPc, lost, lastId, used>>

AllEmitted(c) ==
  /\ run[c].pending = <<>>
  /\ \/ pc[c] = "prompts" /\ Goto(c, "pollSteering")
     \/ pc[c] = "inject" /\ Goto(c, "respond")
  /\ UNCHANGED <<token, isStreaming, tail, queues, run, sleep, resetPc, hist, used>>

(* get_steering_messages, before the first turn and after each turn; the   *)
(* inner loop goes on while there are tool results or polled messages.     *)
PollSteering(c) ==
  /\ pc[c] = "pollSteering"
  /\ LET got == IF run[c].skip THEN <<>> ELSE Drained(steering, mode["steering"])
     IN  /\ Locals(c, [run[c] EXCEPT !.pending = got, !.skip = FALSE,
                         !.batches = IF got = <<>> THEN @ ELSE @ + 1])
         /\ Goto(c, IF run[c].more \/ got # <<>> THEN "inject" ELSE "pollFollowUp")
  /\ steering' = IF run[c].skip THEN steering ELSE Kept(steering, mode["steering"])
  /\ UNCHANGED <<token, isStreaming, tail, followUp, mode, sleep, resetPc, hist, used>>

(* One provider response.  A provider whose token is cancelled answers     *)
(* with an aborted message; error and aborted messages end the run.        *)
Respond(c) ==
  /\ pc[c] = "respond"
  /\ tail' = "assistant"
  /\ \E outcome \in IF run[c].token \in cancelled THEN {"aborted"}
                    ELSE {"stop", "toolUse", "error"} :
       /\ outcome = "toolUse" => run[c].turns < MaxTurns
       /\ Locals(c, [run[c] EXCEPT !.ctx = "assistant", !.batches = 0,
                       !.more = FALSE,
                       !.turns = IF outcome = "toolUse" THEN @ + 1 ELSE @])
       /\ Goto(c, CASE outcome = "stop" -> "pollSteering"
                    [] outcome = "toolUse" -> "tools"
                    [] OTHER -> "agentEnd")
  /\ UNCHANGED <<token, isStreaming, queues, sleep, resetPc, hist, used>>

(* The batch pushes its results; it may ask the loop to terminate.         *)
ToolResults(c) ==
  /\ pc[c] = "tools"
  /\ tail' = "other"
  /\ \E terminate \in BOOLEAN :
       Locals(c, [run[c] EXCEPT !.ctx = "other", !.more = ~terminate])
  /\ Goto(c, "pollSteering")
  /\ UNCHANGED <<token, isStreaming, queues, sleep, resetPc, hist, used>>

PollFollowUp(c) ==
  /\ pc[c] = "pollFollowUp"
  /\ followUp' = Kept(followUp, mode["followUp"])
  /\ Locals(c, [run[c] EXCEPT !.pending = Drained(followUp, mode["followUp"]),
                              !.more = TRUE])
  /\ Goto(c, IF followUp = <<>> THEN "agentEnd" ELSE "inject")
  /\ UNCHANGED <<token, isStreaming, tail, steering, mode, sleep, resetPc, hist, used>>

AgentEnd(c) ==
  /\ pc[c] = "agentEnd"
  /\ Goto(c, "settle")
  /\ UNCHANGED <<token, isStreaming, tail, queues, run, sleep, resetPc, hist, used>>

(* A listener fails on an event, or the provider stream breaks: the error  *)
(* leaves run_loop at once and what the run was holding is gone with it.   *)
RunError(c) ==
  /\ pc[c] \in {"prompts", "pollSteering", "inject", "respond", "tools", "agentEnd"}
  /\ faults < MaxFaults
  /\ faults' = faults + 1
  /\ lost' = lost \cup IdsOf(run[c].pending)
  /\ Locals(c, [run[c] EXCEPT !.pending = <<>>])
  /\ Goto(c, "failure")
  /\ UNCHANGED <<token, isStreaming, tail, queues, sleep, resetPc,
                 delivered, lastId, edits, drops>>

(* emit_run_failure: the failure message joins the transcript.             *)
EmitRunFailure(c) ==
  /\ pc[c] = "failure"
  /\ tail' = "assistant"
  /\ Goto(c, "settle")
  /\ UNCHANGED <<token, isStreaming, queues, run, sleep, resetPc, hist, used>>

(* A listener fails on the report before the message is in the transcript. *)
ReportFails(c) ==
  /\ pc[c] = "failure"
  /\ faults < MaxFaults
  /\ faults' = faults + 1
  /\ Goto(c, "settle")
  /\ UNCHANGED <<token, isStreaming, tail, queues, run, sleep, resetPc, hist,
                 edits, drops>>

(* A mutant of the next definition that leaves the state as it is.         *)
SettleNothing(c) ==
  /\ pc[c] = "settle"
  /\ Goto(c, "clear")
  /\ UNCHANGED <<token, isStreaming, tail, queues, run, sleep, resetPc, hist, used>>

Settle(c) ==
  /\ pc[c] = "settle"
  /\ isStreaming' = FALSE
  /\ Goto(c, "clear")
  /\ UNCHANGED <<token, tail, queues, run, sleep, resetPc, hist, used>>

(* clear_active_token empties the slot, unlocks it, then notifies.         *)
ClearActiveToken(c) ==
  /\ pc[c] = "clear"
  /\ activeToken' = 0
  /\ Locals(c, NoLocals)
  /\ Goto(c, "notify")
  /\ UNCHANGED <<lastToken, cancelled, isStreaming, tail, queues, sleep,
                 resetPc, hist, used>>

(* Waiters that hold a Notified future: wait_for_idle makes it before it   *)
(* looks at active_token.  The mutant makes it afterwards.                 *)
RegisteredAfterCheck == {w \in Waiters : wpc[w] = "sleeping"}
Registered           == {w \in Waiters : wpc[w] \in {"armed", "checked", "sleeping"}}

(* notify_waiters wakes every Notified future created before the call,     *)
(* whether or not it has been polled.                                      *)
NotifyWaiters(c) ==
  /\ pc[c] = "notify"
  /\ woken' = [w \in Waiters |-> w \in Registered]
  /\ Goto(c, "idle")
  /\ UNCHANGED <<token, isStreaming, tail, queues, run, wpc, resetPc, hist, used>>

RunStep(c) ==
  \/ InspectLastMessage(c) \/ DrainSteering(c) \/ DrainFollowUp(c)
  \/ Setup(c) \/ Snapshot(c)
  \/ EmitMessage(c) \/ AllEmitted(c) \/ PollSteering(c)
  \/ Respond(c) \/ ToolResults(c) \/ PollFollowUp(c) \/ AgentEnd(c)
  \/ EmitRunFailure(c) \/ Settle(c) \/ ClearActiveToken(c) \/ NotifyWaiters(c)

(* The caller's future is dropped at an await point, as a timeout or a     *)
(* select does; nothing gives the token back.                              *)
InFlight == {"inspect", "drainSteering", "drainFollowUp", "setup", "snapshot",
             "prompts", "pollSteering", "inject", "respond", "tools",
             "pollFollowUp", "agentEnd", "failure", "settle", "clear"}

DropFuture(c) ==
  /\ pc[c] \in InFlight
  /\ drops < MaxDrops
  /\ drops' = drops + 1
  /\ lost' = lost \cup IdsOf(run[c].pending)
  /\ Locals(c, NoLocals)
  /\ Goto(c, "dropped")
  /\ UNCHANGED <<token, isStreaming, tail, queues, sleep, resetPc,
                 delivered, lastId, faults, edits>>

-----------------------------------------------------------------------------
(***************************************************************************)
(* wait_for_idle: make the Notified future, look at the token, sleep.      *)
(***************************************************************************)
WaitForIdle(w) ==
  /\ wpc[w] = "idle"
  /\ wpc' = [wpc EXCEPT ![w] = "armed"]
  /\ UNCHANGED <<token, isStreaming, tail, queues, pc, run, woken, resetPc, hist, used>>

WaitCheck(w) ==
  /\ wpc[w] = "armed"
  /\ IF activeToken = 0
     THEN /\ wpc' = [wpc EXCEPT ![w] = "idle"]
          /\ woken' = [woken EXCEPT ![w] = FALSE]
     ELSE /\ wpc' = [wpc EXCEPT ![w] = "checked"]
          /\ UNCHANGED woken
  /\ UNCHANGED <<token, isStreaming, tail, queues, pc, run, resetPc, hist, used>>

(* The slot is unlocked again before the future is awaited.                *)
WaitSleep(w) ==
  /\ wpc[w] = "checked"
  /\ wpc' = [wpc EXCEPT ![w] = "sleeping"]
  /\ UNCHANGED <<token, isStreaming, tail, queues, pc, run, woken, resetPc, hist, used>>

WaitWake(w) ==
  /\ wpc[w] = "sleeping"
  /\ woken[w]
  /\ wpc' = [wpc EXCEPT ![w] = "armed"]
  /\ woken' = [woken EXCEPT ![w] = FALSE]
  /\ UNCHANGED <<token, isStreaming, tail, queues, pc, run, resetPc, hist, used>>

-----------------------------------------------------------------------------
(***************************************************************************)
(* The user.                                                               *)
(***************************************************************************)
Steer ==
  /\ lastId < MaxMsgs
  /\ lastId' = lastId + 1
  /\ steering' = Append(steering, SubmittedBy("steer"))
  /\ UNCHANGED <<token, isStreaming, tail, followUp, mode, pc, run, sleep,
                 resetPc, delivered, lost, used>>

FollowUp ==
  /\ lastId < MaxMsgs
  /\ lastId' = lastId + 1
  /\ followUp' = Append(followUp, SubmittedBy("followUp"))
  /\ UNCHANGED <<token, isStreaming, tail, steering, mode, pc, run, sleep,
                 resetPc, delivered, lost, used>>

(* abort cancels the token of the run in flight, when there is one.        *)
Abort ==
  /\ activeToken \notin cancelled \cup {0}
  /\ cancelled' = cancelled \cup {activeToken}
  /\ UNCHANGED <<activeToken, lastToken, isStreaming, tail, queues, pc, run,
                 sleep, resetPc, hist, used>>

Edit ==
  /\ edits < MaxEdits
  /\ edits' = edits + 1
  /\ UNCHANGED <<faults, drops>>

(* set_messages, push_message, clear_messages: at any time.                *)
EditMessages ==
  /\ Edit
  /\ tail' \in Role
  /\ UNCHANGED <<token, isStreaming, queues, pc, run, sleep, resetPc, hist>>

(* set_steering_mode, set_follow_up_mode.                                  *)
SetMode ==
  /\ Edit
  /\ \E q \in {"steering", "followUp"}, m \in QueueMode :
       mode' = [mode EXCEPT ![q] = m]
  /\ UNCHANGED <<token, isStreaming, tail, steering, followUp, pc, run, sleep,
                 resetPc, hist>>

(* clear_steering_queue and clear_follow_up_queue, called on their own or  *)
(* one after the other by clear_all_queues and by reset.                   *)
ClearSteering ==
  /\ steering' = <<>>
  /\ lost' = lost \cup IdsOf(steering)
  /\ UNCHANGED <<followUp, mode, delivered, lastId>>

ClearFollowUps ==
  /\ followUp' = <<>>
  /\ lost' = lost \cup IdsOf(followUp)
  /\ UNCHANGED <<steering, mode, delivered, lastId>>

ClearOneQueue ==
  /\ Edit
  /\ ClearSteering \/ ClearFollowUps
  /\ UNCHANGED <<token, isStreaming, tail, pc, run, sleep, resetPc>>

(* reset clears the state under its lock, then each queue under its own;   *)
(* clear_all_queues alone enters at the second step.                       *)
Reset ==
  /\ resetPc = "idle"
  /\ Edit
  /\ \/ isStreaming' = FALSE /\ tail' = "none"
     \/ UNCHANGED <<isStreaming, tail>>
  /\ resetPc' = "steering"
  /\ UNCHANGED <<token, queues, pc, run, sleep, hist>>

ResetQueues ==
  /\ \/ resetPc = "steering" /\ ClearSteering /\ resetPc' = "followUp"
     \/ resetPc = "followUp" /\ ClearFollowUps /\ resetPc' = "idle"
  /\ UNCHANGED <<token, isStreaming, tail, pc, run, sleep, used>>

User == Steer \/ FollowUp \/ Abort \/ EditMessages \/ SetMode \/ ClearOneQueue
        \/ Reset \/ ResetQueues

(* Nobody is inside a call: the agent may stay as it is for ever.          *)
AtRest ==
  /\ \A c \in Callers : pc[c] = "idle"
  /\ \A w \in Waiters : wpc[w] = "idle"
  /\ resetPc = "idle"
  /\ UNCHANGED vars

Next ==
  \/ \E c \in Callers : \/ PromptMessages(c) \/ ContinueRun(c) \/ RunStep(c)
                       \/ RunError(c) \/ ReportFails(c) \/ DropFuture(c)
  \/ \E w \in Waiters : WaitForIdle(w) \/ WaitCheck(w) \/ WaitSleep(w) \/ WaitWake(w)
  \/ User
  \/ AtRest

Spec == Init /\ [][Next]_vars

(* The executor polls every ready task again, providers answer and         *)
(* listeners return; nobody has to call anything.                          *)
Fairness ==
  /\ \A c \in Callers : WF_vars(RunStep(c))
  /\ \A w \in Waiters : /\ WF_vars(WaitCheck(w)) /\ WF_vars(WaitSleep(w))
                        /\ WF_vars(WaitWake(w))

FairSpec == Spec /\ Fairness

-----------------------------------------------------------------------------
(***************************************************************************)
(* Properties.                                                             *)
(***************************************************************************)

(* Every variable keeps its type.                                          *)
TypeOK ==
  /\ activeToken \in 0 .. MaxRuns
  /\ lastToken \in 0 .. MaxRuns
  /\ cancelled \subseteq 1 .. MaxRuns
  /\ isStreaming \in BOOLEAN
  /\ tail \in Role
  /\ steering \in Seq(Message)
  /\ followUp \in Seq(Message)
  /\ mode \in [{"steering", "followUp"} -> QueueMode]
  /\ pc \in [Callers -> InFlight \cup {"idle", "notify", "dropped"}]
  /\ run \in [Callers -> RunLocals]
  /\ wpc \in [Waiters -> {"idle", "armed", "checked", "sleeping"}]
  /\ woken \in [Waiters -> BOOLEAN]
  /\ resetPc \in {"idle", "steering", "followUp"}
  /\ delivered \in Seq(Message)
  /\ lost \subseteq 1 .. MaxMsgs
  /\ lastId \in 0 .. MaxMsgs
  /\ faults \in 0 .. MaxFaults
  /\ edits \in 0 .. MaxEdits
  /\ drops \in 0 .. MaxDrops

(* acquire_active_token admits one run at a time: two calls are never both *)
(* between acquisition and release, whatever they interleave with, and a   *)
(* run in flight owns the token in the slot.                               *)
OneRunAtATime ==
  /\ \A c \in Callers : pc[c] \in InFlight =>
       activeToken # 0 /\ run[c].token = activeToken
  /\ \A c, d \in Callers : pc[c] \in InFlight /\ pc[d] \in InFlight => c = d

(* An idle agent never says it is streaming: is_streaming is put back      *)
(* before the token is, on every way out of a run.                         *)
StreamingMeansActive == isStreaming => activeToken # 0

(* No submitted message is duplicated, and none vanishes: each is in a     *)
(* queue, held by a run, emitted once, or was cleared, or was held by a    *)
(* run that failed or was dropped.  Steering messages reach the transcript *)
(* in the order steer was called, and so do follow-ups, over all the runs  *)
(* that drain the queues.                                                  *)
IdsIn(q, i) == {n \in DOMAIN q : q[n].id = i}
Copies(i) ==
  Cardinality(IdsIn(steering, i)) + Cardinality(IdsIn(followUp, i))
  + Cardinality(IdsIn(delivered, i)) + (IF i \in lost THEN 1 ELSE 0)
  + Cardinality({p \in Callers \X (1 .. MaxMsgs) :
                   p[2] \in IdsIn(run[p[1]].pending, i)})
EachMessageOnce ==
  /\ \A i \in 1 .. lastId : Copies(i) = 1
  /\ \A i, j \in DOMAIN delivered :
       i < j /\ delivered[i].via = delivered[j].via /\ delivered[i].via # "prompt"
         => delivered[i].id < delivered[j].id

(* continue_run from an assistant message takes one batch of steering      *)
(* messages to the provider, never a second one from the first poll.       *)
OneSteeringBatchPerRequest ==
  \A c \in Callers : pc[c] = "respond" => run[c].batches <= 1

(* A run that continues the existing transcript never sends a request      *)
(* whose context is empty or ends with an assistant message, even when the *)
(* messages are edited between continue_run's look and its snapshot.       *)
ContinuesFromUserTail ==
  \A c \in Callers : pc[c] = "respond" /\ run[c].cont => run[c].ctx = "other"

(* README: "is_streaming remains true until the run fully settles,         *)
(* including awaited agent_end subscribers."                               *)
StreamingUntilSettled ==
  \A c \in Callers : pc[c] \in {"prompts", "pollSteering", "inject", "respond",
    "tools", "pollFollowUp", "agentEnd", "failure", "settle"} => isStreaming

(* wait_for_idle returns once no run is left: no wakeup is lost between    *)
(* the look at the token and the sleep.                                    *)
WaitersReturn == \A w \in Waiters : wpc[w] # "idle" ~> wpc[w] = "idle"

\* The callers are alike: a run may permute them.
CallerSymmetry == Permutations(Callers)

=============================================================================
