----------------------------- MODULE HttpRetry ------------------------------
(***************************************************************************)
(* utils/http.rs: one request with its retries, as the stream providers    *)
(* make it (providers/anthropic.rs, openai_completions.rs,                 *)
(* openai_responses.rs up to the Start event).                             *)
(*                                                                         *)
(* Every await of send_with_retry_config is raced with the cancellation    *)
(* token; the body of a refused request, which the provider reads itself,  *)
(* is not, and only the request's own timeout bounds it.                   *)
(***************************************************************************)
EXTENDS EventStream

CONSTANT MaxRetries   \* options.max_retries, 0 when absent

ASSUME RetryAssumption == MaxRetries \in Nat

VARIABLES
  pc,        \* await point of the producer
  attempt,   \* retries made
  cancelled  \* the cancellation token of the request

httpVars == <<pc, attempt, cancelled>>

HttpInit == pc = "entry" /\ attempt = 0 /\ cancelled \in BOOLEAN

\* The producer runs: it is being polled, and has not returned.
Running(at) == pc = at /\ outcome = "running" /\ polled

\* The producer's future resolves with a StreamFailure.
Fail(kind) ==
  /\ outcome' = kind
  /\ pc' = "returned"
  /\ UNCHANGED <<chan, sender, polled, view>>

Stay == UNCHANGED streamVars

-----------------------------------------------------------------------------
\* run_stream up to the request: token, key, payload and its hook.
Enter ==
  /\ Running("entry")
  /\ \/ cancelled /\ Fail("aborted")
     \/ ~cancelled /\ pc' = "check" /\ Stay
     \/ ~cancelled /\ Fail("error")
  /\ UNCHANGED <<attempt, cancelled>>

\* The mutant trusts the last look at the token.
SendUnchecked ==
  /\ Running("check")
  /\ pc' = "sending" /\ Stay
  /\ UNCHANGED <<attempt, cancelled>>

\* The top of the loop; building and sending follow without an await.
Send ==
  /\ Running("check")
  /\ \/ cancelled /\ Fail("aborted")
     \/ ~cancelled /\ pc' = "sending" /\ Stay
  /\ UNCHANGED <<attempt, cancelled>>

\* What a delay named by the server comes to: nothing to parse, no delay (zero,
\* negative or a date gone by), some delay, one above the cap.
Readings == {"unreadable", "past", "soon", "long"}

\* An answer: its status, the x-should-retry header, and the readings of
\* retry-after-ms and of retry-after, a number or a date.
Answers ==
  [status : {"success", "passing", "lasting"}, should : {"true", "false", "other"},
   millis : Readings \cup {"absent"}, after : Readings \cup {"absent"}]

\* is_retryable_response: the server's word goes before its status.
IsRetryable(answer) ==
  /\ answer.status # "success"
  /\ \/ answer.should = "true"
     \/ answer.should = "other" /\ answer.status = "passing"

\* retry_after_ms: milliseconds that cannot be read leave it to retry-after, and
\* a retry-after that cannot be read asks for no delay.
RetryAfter(answer) ==
  IF answer.millis \notin {"absent", "unreadable"} THEN answer.millis
  ELSE IF answer.after = "unreadable" THEN "past" ELSE answer.after

\* retry_delay_ms; without a delay from the server it backs off by itself.
RetryDelay(answer, capped) ==
  LET after == RetryAfter(answer) IN
  CASE after = "past" -> "none"
    [] after = "long" /\ capped -> "tooLong"
    [] OTHER -> "some"

MayRetry == attempt < MaxRetries

Succeed ==
  /\ attempt' = 0  \* the counter goes out of scope
  /\ \/ pc' = "reading" /\ Push(<<Start>>) /\ UNCHANGED <<outcome, polled, view>>
     \/ Fail("error")  \* on_response returned an error

Answer ==
  /\ Running("sending")
  /\ \E answer \in Answers, capped \in BOOLEAN :
       LET delay == RetryDelay(answer, capped) IN
       IF IsRetryable(answer) /\ MayRetry
       THEN CASE delay = "none" -> pc' = "check" /\ attempt' = attempt + 1 /\ Stay
              [] delay = "some" -> pc' = "sleeping" /\ UNCHANGED attempt /\ Stay
              [] delay = "tooLong" -> pc' = "refusing" /\ UNCHANGED attempt /\ Stay
       ELSE IF answer.status = "success" THEN Succeed
       ELSE pc' = "errorBody" /\ attempt' = 0 /\ Stay
  /\ UNCHANGED cancelled

\* The connection fails, or the request's timeout strikes.
SendFails ==
  /\ Running("sending")
  /\ IF MayRetry THEN pc' = "sleeping" /\ Stay ELSE Fail("error")
  /\ UNCHANGED <<attempt, cancelled>>

\* The mutant does not count the retry.
WakeAndRetryUncounted ==
  /\ Running("sleeping")
  /\ pc' = "check" /\ UNCHANGED attempt
  /\ Stay /\ UNCHANGED cancelled
WakeAndRetry ==
  /\ Running("sleeping")
  /\ pc' = "check" /\ attempt' = attempt + 1
  /\ Stay /\ UNCHANGED cancelled

\* The body of the refused answer arrives or is cut off; either ends the call.
BodyRead ==
  /\ Running("refusing") \/ Running("errorBody")
  /\ Fail("error")
  /\ UNCHANGED <<attempt, cancelled>>

\* The mutant sleeps through a cancellation.
RacedButSleep == {"sending", "refusing"}
Raced == {"sending", "sleeping", "refusing"}

CancelledWhileWaiting ==
  /\ cancelled
  /\ \E at \in Raced : Running(at)
  /\ Fail("aborted")
  /\ UNCHANGED <<attempt, cancelled>>

\* The user cancels, at any time.
Cancel ==
  /\ ~cancelled
  /\ cancelled' = TRUE
  /\ UNCHANGED <<pc, attempt, streamVars>>

HttpStep ==
  \/ Enter \/ Send \/ Answer \/ SendFails \/ WakeAndRetry \/ BodyRead
  \/ CancelledWhileWaiting

=============================================================================
