--------------------------- MODULE ProviderStream ---------------------------
(***************************************************************************)
(* A streamed request end to end: the request and its retries (HttpRetry), *)
(* the assembly of the message by one of the providers, and the stream     *)
(* that hands its events to the consumer (EventStream).                    *)
(***************************************************************************)
EXTENDS AnthropicStream, CompletionsStream, ResponsesStream, FauxStream

VARIABLE api   \* which provider serves the request

vars == <<streamVars, httpVars, outputVars, serverVars, script, api>>

Apis == {"anthropic", "completions", "responses", "faux"}

Init ==
  /\ StreamInit /\ HttpInit /\ AssemblyInit
  /\ api \in Apis
  /\ script \in IF api = "faux" THEN Scripts ELSE {NoScript}

-----------------------------------------------------------------------------
Http ==
  /\ api # "faux"
  /\ HttpStep
  /\ UNCHANGED <<outputVars, serverVars, script, api>>

Reading ==
  /\ api # "faux"
  /\ ReadFails \/ CancelledWhileReading
  /\ UNCHANGED <<script, api>>

Assemble ==
  /\ \/ api = "anthropic" /\ AnthropicStep
     \/ api = "completions" /\ CompletionsStep
     \/ api = "responses" /\ ResponsesStep
  /\ UNCHANGED <<script, api>>

Faux == api = "faux" /\ FauxStep /\ UNCHANGED api

UserCancels == Cancel /\ UNCHANGED <<outputVars, serverVars, script, api>>

Consume ==
  /\ Receive \/ DeliverError(blocks) \/ Close
  /\ UNCHANGED <<httpVars, outputVars, serverVars, script, api>>

Ended == view.closed /\ UNCHANGED vars

Next == Http \/ Reading \/ Assemble \/ Faux \/ UserCancels \/ Consume \/ Ended

Spec == Init /\ [][Next]_vars

\* The consumer keeps polling and the producer takes the steps that need
\* nobody else: none is assumed of the server, the network or a timer.
OwnStep ==
  \/ api # "faux" /\ (Enter \/ Send \/ CancelledWhileWaiting) /\ UNCHANGED <<outputVars, serverVars, script, api>>
  \/ api # "faux" /\ CancelledWhileReading /\ UNCHANGED <<script, api>>
  \/ Faux

FairSpec == Spec /\ WF_vars(Consume) /\ WF_vars(OwnStep)

\* The request's timeout, which bounds every wait for the server, and the
\* timer of a retry.
Timers ==
  /\ api # "faux"
  /\ \/ (SendFails \/ WakeAndRetry \/ BodyRead) /\ UNCHANGED <<outputVars, serverVars, script, api>>
     \/ ReadFails /\ UNCHANGED <<script, api>>

-----------------------------------------------------------------------------
\* The events a consumer gets, whatever the provider, the failures, the
\* retries and the moment of a cancellation, are those of the contract.
Contract == INSTANCE StreamContract WITH
  phase <- view.phase, blocks <- view.blocks, closed <- view.closed

KeepsContract == Contract!Spec

\* Fragments that the server interleaves end up in the block of their item:
\* none is misfiled, lost or counted twice, under whatever index or id it came.
FragmentsStayHome ==
  api # "faux" =>
    /\ \A b \in DOMAIN blocks : blocks[b].len = sent[blocks[b].item]
    /\ \A b, c \in DOMAIN blocks : blocks[b].item = blocks[c].item => b = c
    /\ \A i \in Items : sent[i] > 0 => \E b \in DOMAIN blocks : blocks[b].item = i

\* The message in the terminal event, Done or Error, is the one that the
\* consumer has been told piece by piece.  The arguments of a tool call that
\* the faux provider has not ended are told but not yet in its message.
FinalIsWhatWasTold ==
  view.phase \in {"done", "error"} /\ view.final # <<>> =>
    /\ DOMAIN view.final = DOMAIN view.blocks
    /\ \A b \in DOMAIN view.final :
         /\ view.final[b].kind = view.blocks[b].kind
         /\ \/ view.final[b].len = view.blocks[b].len
            \/ api = "faux" /\ view.final[b].kind = "tool" /\ ~view.blocks[b].ended

\* A message whose server broke off is never Done.  The exception is an
\* Anthropic response that ends before its first event, which is taken for an
\* empty message.
DoneMeansServed ==
  view.phase = "done" =>
    CASE api = "anthropic" -> "message_stop" \in saw \/ view.final = <<>>
      [] api = "completions" -> "finish_reason" \in saw
      [] api = "responses" -> AllClosed
      [] api = "faux" -> Len(view.final) = Len(script.content)

\* The three together: what the server sent is what the consumer is told, and
\* a terminal event can be taken at its word.
AnswerIsTrue == FragmentsStayHome /\ FinalIsWhatWasTold /\ DoneMeansServed

DonePushed == \E n \in DOMAIN chan : chan[n].type = "done"

\* Once the token is cancelled no request is sent and no success is reported:
\* not by a retry that was asleep, not by an event that was in flight.
NothingAfterCancel ==
  [][cancelled => /\ pc # "sending" => pc' # "sending"
                  /\ DonePushed' => DonePushed]_vars

\* A cancelled stream ends without the help of the server or of a timer,
\* except while the body of a refused request is read.
CancelIsPrompt == cancelled ~> (view.closed \/ pc = "errorBody")

\* With the timers every stream ends, and a cancelled one without them.
StreamEnds == CancelIsPrompt /\ (WF_vars(Timers) => <>view.closed)

=============================================================================
