----------------------------- MODULE AgentRun ------------------------------
(***************************************************************************)
(* One run of the agent loop (agent_loop.rs, with the event sink and the   *)
(* failure report of agent.rs): the events it emits, the context it sends, *)
(* the transcript the sink builds from the events, and the new messages it *)
(* returns.                                                                *)
(*                                                                         *)
(* Every emission may meet a failing listener.  The queues answer a poll   *)
(* with a fresh message or nothing (Agent follows the messages), and a     *)
(* tool batch answers its calls in source order, all of them unless the    *)
(* run is cancelled (ToolBatch shows that it does).                        *)
(***************************************************************************)
EXTENDS Naturals, Sequences

CONSTANTS
  MaxCalls,   \* bound: tool calls in a response
  MaxTurns,   \* bound: provider requests in the run
  MaxMsgs,    \* bound: messages the queues hand out
  MaxUpdates, \* bound: stream updates of a response
  MaxFaults   \* bound: stream errors and failing listeners

ASSUME AgentRunAssumption == {MaxCalls, MaxTurns, MaxMsgs, MaxUpdates, MaxFaults} \subseteq Nat

VARIABLES
  pc,          \* control point
  first,       \* first_turn
  prompting,   \* the held messages are the prompts
  held,        \* prompts, or pending_messages
  more,        \* has_more_tool_calls
  context,     \* context.messages of the loop
  new,         \* new_messages
  transcript,  \* state.messages of the agent
  streaming,   \* state.streaming_message, a sequence of at most one message
  errorSet,    \* state.error_message is there
  partial,     \* partial_added
  updates,     \* stream updates of the response so far
  final,       \* the response's final message
  requests,    \* provider requests so far
  late,        \* provider requests made with a cancelled token
  handed,      \* messages the queues have handed out
  cancelled,   \* the run's token
  compacted,   \* prepare_next_turn has replaced the context
  faults,
  seen         \* what a subscriber has seen: the variables of RunEvents

loop  == <<first, prompting, held, more>>
state == <<transcript, streaming, errorSet>>
resp  == <<partial, updates, final, requests, late>>
env   == <<handed, cancelled, compacted>>
vars  == <<pc, loop, context, new, state, resp, env, faults, seen>>

(***************************************************************************)
(* Messages: id tells them apart, stop is an assistant's stop reason       *)
(* (stop covers ToolUse), calls its number of tool calls, or the index of  *)
(* the call a tool result answers.                                         *)
(***************************************************************************)
User(i)          == [role |-> "user", id |-> i, stop |-> "", calls |-> 0]
Assistant(i,s,k) == [role |-> "assistant", id |-> i, stop |-> s, calls |-> k]
Result(i, k)     == [role |-> "toolResult", id |-> i, stop |-> "", calls |-> k]
Failure          == Assistant(0, "error", 0)
Base             == <<User(0)>>

Failed(m) == m.role = "assistant" /\ m.stop \in {"error", "aborted"}
Last(s)   == s[Len(s)]
ReplaceLast(s, m) == [s EXCEPT ![Len(s)] = m]

Init ==
  /\ pc = "agentStart"
  /\ first = TRUE
  /\ prompting = TRUE
  /\ held \in {<<>>, <<User(1)>>}      \* continue_run, or a prompt
  /\ more = TRUE
  /\ context = Base \o held
  /\ new = held
  /\ transcript = Base
  /\ streaming = <<>>
  /\ errorSet = FALSE
  /\ partial = FALSE
  /\ updates = 0
  /\ final = Failure
  /\ requests = 0
  /\ late = 0
  /\ handed = 1
  /\ cancelled = FALSE
  /\ compacted = FALSE
  /\ faults = 0
  /\ seen = [run |-> "none", turn |-> FALSE, msg |-> "none", beat |-> FALSE]

(***************************************************************************)
(* The event sink: it updates the state, then awaits the listeners.  A     *)
(* failing listener sends the run to its report; a listener failing on the *)
(* report ends it there.                                                   *)
(***************************************************************************)
Emit(s) == seen' = [s EXCEPT !.beat = ~@]

Then(l) ==
  \/ pc' = l /\ UNCHANGED faults
  \/ /\ faults < MaxFaults
     /\ faults' = faults + 1
     /\ pc' = IF seen.run = "failing" \/ seen'.run = "failing" THEN "settle" ELSE "report"

(* state.messages and streaming_message at MessageEnd.                     *)
SinkMessageEnd(m) ==
  /\ transcript' = Append(transcript, m)
  /\ streaming' = <<>>

-----------------------------------------------------------------------------
(* A continued run finds that its snapshot cannot be continued.            *)
StaleSnapshot ==
  /\ pc = "agentStart" /\ held = <<>>
  /\ faults < MaxFaults /\ faults' = faults + 1
  /\ pc' = "report"
  /\ UNCHANGED <<loop, context, new, state, resp, env, seen>>

AgentStart ==
  /\ pc = "agentStart"
  /\ Emit([seen EXCEPT !.run = "running"])
  /\ Then("turnStart")
  /\ UNCHANGED <<loop, context, new, state, resp, env>>

TurnStart ==
  /\ pc = "turnStart"
  /\ Emit([seen EXCEPT !.turn = TRUE])
  /\ Then("messages")
  /\ UNCHANGED <<loop, context, new, state, resp, env>>

MessageStart ==
  /\ pc = "messages" /\ held # <<>>
  /\ Emit([seen EXCEPT !.msg = "other"])
  /\ Then("messageEnd")
  /\ streaming' = <<Head(held)>>
  /\ UNCHANGED <<loop, context, new, transcript, errorSet, resp, env>>

(* The prompts are in the context and the new messages from the start, a   *)
(* polled message joins them when it has been emitted.                     *)
JoinsRun == ~prompting

MessageEnd ==
  /\ pc = "messageEnd"
  /\ Emit([seen EXCEPT !.msg = "none"])
  /\ Then("messages")
  /\ SinkMessageEnd(Head(held))
  /\ context' = IF JoinsRun THEN Append(context, Head(held)) ELSE context
  /\ new' = IF JoinsRun THEN Append(new, Head(held)) ELSE new
  /\ held' = Tail(held)
  /\ UNCHANGED <<first, prompting, more, errorSet, resp, env>>

MessagesDone ==
  /\ pc = "messages" /\ held = <<>>
  /\ pc' = IF prompting THEN "poll" ELSE "request"
  /\ prompting' = FALSE
  /\ UNCHANGED <<first, held, more, context, new, state, resp, env, faults, seen>>

(* What a queue hands out.                                                 *)
Handed ==
  \/ held' = <<>> /\ UNCHANGED handed
  \/ handed < MaxMsgs /\ handed' = handed + 1 /\ held' = <<User(handed + 1)>>

(* Where the loop goes after a steering poll: the first turn has had its   *)
(* TurnStart.  The mutant forgets first_turn.                              *)
AfterPollNoFirst == IF more \/ held' # <<>> THEN "turnStart" ELSE "pollFollowUp"
AfterPoll ==
  IF more \/ held' # <<>> THEN (IF first THEN "messages" ELSE "turnStart")
  ELSE "pollFollowUp"

PollSteering ==
  /\ pc = "poll"
  /\ Handed
  /\ pc' = AfterPoll
  /\ first' = FALSE
  /\ UNCHANGED <<prompting, more, context, new, state, resp, cancelled, compacted,
                 faults, seen>>

(* Where an empty follow-up queue leads.  The mutant polls steering again. *)
NoFollowUpsPollAgain == "poll"
NoFollowUps          == "agentEnd"

PollFollowUp ==
  /\ pc = "pollFollowUp"
  /\ Handed
  /\ pc' = IF held' = <<>> THEN NoFollowUps ELSE "turnStart"
  /\ more' = (held' # <<>>)
  /\ UNCHANGED <<first, prompting, context, new, state, resp, cancelled, compacted,
                 faults, seen>>

-----------------------------------------------------------------------------
(***************************************************************************)
(* stream_assistant_response.                                              *)
(***************************************************************************)
Request ==
  /\ pc = "request"
  /\ requests' = requests + 1
  /\ late' = IF cancelled THEN late + 1 ELSE late
  /\ partial' = FALSE
  /\ updates' = 0
  /\ UNCHANGED <<loop, context, new, state, final, env, seen>>
  /\ Then("stream")

StreamStart ==
  /\ pc = "stream" /\ ~partial
  /\ LET m == Assistant(requests, "partial", 0)
     IN context' = Append(context, m) /\ streaming' = <<m>>
  /\ partial' = TRUE
  /\ Emit([seen EXCEPT !.msg = "assistant"])
  /\ Then("stream")
  /\ UNCHANGED <<loop, new, transcript, errorSet, updates, final, requests, late, env>>

(* An update before Start is ignored.                                      *)
StreamUpdate ==
  /\ pc = "stream" /\ partial
  /\ updates < MaxUpdates
  /\ updates' = updates + 1
  /\ LET m == Assistant(requests, "partial", updates')
     IN context' = ReplaceLast(context, m) /\ streaming' = <<m>>
  /\ Emit(seen)
  /\ Then("stream")
  /\ UNCHANGED <<loop, new, transcript, errorSet, partial, final, requests, late, env>>

(* A provider that is asked with a cancelled token answers with an aborted *)
(* message; a token cancelled later may come too late.                     *)
FinalMessages ==
  IF late > 0 THEN {Assistant(requests, "aborted", 0)}
  ELSE {Assistant(requests, s, k) :
          s \in {"stop", "length", "error"} \cup (IF cancelled THEN {"aborted"} ELSE {}),
          k \in IF requests < MaxTurns THEN 0 .. MaxCalls ELSE {0}}

(* Done or Error: the final message takes the place of the partial one.    *)
(* The mutant appends it.                                                  *)
FinalContextAppended(m) == Append(context, m)
FinalContext(m)         == IF partial THEN ReplaceLast(context, m) ELSE Append(context, m)

StreamFinal ==
  /\ pc = "stream"
  /\ \E m \in FinalMessages :
       /\ final' = m
       /\ context' = FinalContext(m)
       /\ IF partial
          THEN pc' = "responseEnd" /\ UNCHANGED <<faults, seen, streaming>>
          ELSE /\ Emit([seen EXCEPT !.msg = "assistant"])
               /\ Then("responseEnd")
               /\ streaming' = <<m>>
  /\ UNCHANGED <<loop, new, transcript, errorSet, partial, updates, requests, late, env>>

(* The stream breaks, or ends without Done or Error.                       *)
StreamBroken ==
  /\ pc = "stream"
  /\ faults < MaxFaults /\ faults' = faults + 1
  /\ pc' = "report"
  /\ UNCHANGED <<loop, context, new, state, resp, env, seen>>

(* Stop reasons that end the run.  The mutant forgets Aborted.             *)
EndsRunErrorOnly(m) == m.stop = "error"
EndsRun(m)          == m.stop \in {"error", "aborted"}

ResponseEnd ==
  /\ pc = "responseEnd"
  /\ SinkMessageEnd(final)
  /\ new' = Append(new, final)
  /\ Emit([seen EXCEPT !.msg = "none"])
  /\ Then(IF ~EndsRun(final) /\ final.calls > 0 THEN "tools" ELSE "turnEnd")
  /\ more' = FALSE
  /\ UNCHANGED <<first, prompting, held, context, errorSet, resp, env>>

-----------------------------------------------------------------------------
Results(n) == [k \in 1 .. n |-> Result(requests, k)]

(* How many calls a batch answers.  The mutant breaks off without reason.  *)
AnsweredAny == 1 .. final.calls
Answered    == IF cancelled /\ final.stop # "length" THEN 1 .. final.calls
               ELSE {final.calls}

(* The batch's results reach the transcript one by one and the context all *)
(* together; a truncated message never terminates the loop.                *)
Tools ==
  /\ pc = "tools"
  /\ \E n \in Answered :
       \/ /\ transcript' = transcript \o Results(n)
          /\ context' = context \o Results(n)
          /\ new' = new \o Results(n)
          /\ more' \in IF final.stop = "length" THEN {TRUE} ELSE BOOLEAN
          /\ pc' = "turnEnd"
          /\ UNCHANGED faults
       \/ /\ faults < MaxFaults /\ faults' = faults + 1
          /\ \E k \in 0 .. n : transcript' = transcript \o Results(k)
          /\ pc' = "report"
          /\ UNCHANGED <<context, new, more>>
  /\ UNCHANGED <<first, prompting, held, streaming, errorSet, resp, env, seen>>

(* error_message after TurnEnd: an answer that failed leaves its error.     *)
ErrorAfterTurn == errorSet \/ Failed(final)

TurnEnd ==
  /\ pc = "turnEnd"
  /\ errorSet' = ErrorAfterTurn
  /\ Emit([seen EXCEPT !.turn = FALSE])
  /\ Then(IF EndsRun(final) THEN "agentEnd" ELSE "afterTurn")
  /\ UNCHANGED <<loop, context, new, transcript, streaming, resp, env>>

(* prepare_next_turn may replace the context; should_stop_after_turn may   *)
(* end the run before the queues are polled.                               *)
AfterTurn ==
  /\ pc = "afterTurn"
  /\ \/ UNCHANGED <<context, compacted>>
     \/ context' = Base /\ compacted' = TRUE
  /\ pc' \in {"poll", "agentEnd"}
  /\ UNCHANGED <<loop, new, state, resp, handed, cancelled, faults, seen>>

AgentEnd ==
  /\ pc = "agentEnd"
  /\ Emit([seen EXCEPT !.run = "ended"])
  /\ streaming' = <<>>
  /\ Then("settle")
  /\ UNCHANGED <<loop, context, new, transcript, errorSet, resp, env>>

-----------------------------------------------------------------------------
(***************************************************************************)
(* emit_run_failure, and the end of run_with_lifecycle_after_acquire.      *)
(***************************************************************************)
ReportStart ==
  /\ pc = "report"
  /\ Emit([seen EXCEPT !.run = "failing", !.msg = "failure"])
  /\ Then("reportEnd")
  /\ streaming' = <<Failure>>
  /\ UNCHANGED <<loop, context, new, transcript, errorSet, resp, env>>

ReportEnd ==
  /\ pc = "reportEnd"
  /\ Emit([seen EXCEPT !.msg = "none"])
  /\ Then("reportTurn")
  /\ SinkMessageEnd(Failure)
  /\ UNCHANGED <<loop, context, new, errorSet, resp, env>>

ReportTurn ==
  /\ pc = "reportTurn"
  /\ Emit([seen EXCEPT !.turn = FALSE])
  /\ Then("reportAgent")
  /\ errorSet' = TRUE
  /\ UNCHANGED <<loop, context, new, transcript, streaming, resp, env>>

ReportAgent ==
  /\ pc = "reportAgent"
  /\ Emit([seen EXCEPT !.run = "ended"])
  /\ Then("settle")
  /\ streaming' = <<>>
  /\ UNCHANGED <<loop, context, new, transcript, errorSet, resp, env>>

Settle ==
  /\ pc = "settle"
  /\ streaming' = <<>>
  /\ pc' = "done"
  /\ UNCHANGED <<loop, context, new, transcript, errorSet, resp, env, faults, seen>>

Cancel ==
  /\ ~cancelled /\ pc # "done"
  /\ cancelled' = TRUE
  /\ UNCHANGED <<pc, loop, context, new, state, resp, handed, compacted, faults, seen>>

LoopStep ==
  \/ StaleSnapshot \/ AgentStart \/ TurnStart \/ MessageStart \/ MessageEnd
  \/ MessagesDone \/ PollSteering \/ PollFollowUp
  \/ Request \/ StreamStart \/ StreamUpdate \/ StreamFinal \/ StreamBroken
  \/ ResponseEnd \/ Tools \/ TurnEnd \/ AfterTurn \/ AgentEnd
  \/ ReportStart \/ ReportEnd \/ ReportTurn \/ ReportAgent \/ Settle

Done == pc = "done" /\ UNCHANGED vars

Next == LoopStep \/ Cancel \/ Done

Spec == Init /\ [][Next]_vars

(* The provider, the tools and the listeners always answer.                *)
FairSpec == Spec /\ WF_vars(LoopStep)

-----------------------------------------------------------------------------
(***************************************************************************)
(* Properties.                                                             *)
(***************************************************************************)

(* The events of a run, as a subscriber sees them, obey RunEvents: every   *)
(* event the loop and the report emit is allowed where it is emitted.      *)
Events == INSTANCE RunEvents WITH run <- seen.run, turn <- seen.turn,
                                  msg <- seen.msg, beat <- seen.beat
SubscribersSeeRunEvents == Events!Spec

(* README: AgentEnd is the "final event for the run", it "means no more    *)
(* loop events will be emitted".                                           *)
AgentEndIsFinal == [][seen.run = "ended" => seen' = seen]_vars

(* Whatever the provider streamed and the tools returned, the context that *)
(* is sent to the provider is the transcript that the agent shows, unless  *)
(* prepare_next_turn has replaced the context; and no message that is      *)
(* settled still shows as streaming_message beside it.  In the end, what   *)
(* the run reports as new is what it added to the transcript; and unless   *)
(* its report was cut short, error_message is set if the last message is a *)
(* failed answer, and only then.                                           *)
CopiesAgree ==
  /\ pc \in {"request", "turnEnd", "pollFollowUp"} =>
       /\ streaming = <<>>
       /\ ~compacted => context = transcript
  /\ pc = "agentEnd" => transcript = Base \o new
  /\ pc = "done" /\ seen.run = "ended" => (errorSet <=> Failed(Last(transcript)))

(* No request leaves with a tool call of an earlier turn unanswered, or    *)
(* with results out of place, unless the run was cancelled.                *)
CallsAnsweredBeforeRequest ==
  pc = "request" /\ ~cancelled =>
    \A n \in DOMAIN transcript :
      LET m == transcript[n]
      IN  m.role = "assistant" =>
            \A k \in 1 .. m.calls :
              n + k \in DOMAIN transcript /\ transcript[n + k] = Result(m.id, k)

(* After an abort the provider is asked at most once more, however many    *)
(* messages are queued: the aborted answer ends the run.                   *)
OneRequestAfterCancel == late <= 1

(* A request answers somebody: the prompt, a message of a queue or a tool  *)
(* has spoken last, and never the model itself, whatever the polls gave.   *)
SomebodySpokeLast == pc = "request" => Last(transcript).role # "assistant"

(* The three together: the provider is asked what it may be asked, and     *)
(* only as long as somebody wants the answer.                              *)
RequestsAreDue ==
  CallsAnsweredBeforeRequest /\ OneRequestAfterCancel /\ SomebodySpokeLast

(* Every run settles.                                                      *)
RunSettles == <>(pc = "done")

=============================================================================
