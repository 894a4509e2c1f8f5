--------------------------- MODULE AnthropicLogin ---------------------------
(***************************************************************************)
(* oauth/anthropic.rs: login_anthropic and the task that serves the        *)
(* callback of the browser.  An authorization is what matters of a code    *)
(* with its state: whether there is a code, and whose state came with it.  *)
(***************************************************************************)
EXTENDS DeviceFlow

VARIABLES
  listener,   \* the server's task: "off", "listening", "reading" or "gone"
  channel,    \* the oneshot channel: "open", "closed", or "null" or "code" sent
  shutdown    \* the token that ends the server

anthropicVars == <<listener, channel, shutdown>>

Authorization == [code : BOOLEAN, state : {"none", "own", "foreign"}]
FromBrowser == [code |-> TRUE, state |-> "own"]

AnthropicInit ==
  /\ listener = "off" /\ channel = "closed" /\ shutdown = FALSE

\* The async block is left: shut the server down and wait for its task.
Leave(value) ==
  /\ phase' = "closing" /\ result' = value
  /\ shutdown' = TRUE
  /\ UNCHANGED <<job, cancelled>>

-----------------------------------------------------------------------------
\* Up to the first await in the block: no callback, a cancelled token, a port
\* that is taken, or a server that listens.
Begin ==
  /\ phase = "entry"
  /\ \/ Return("error") /\ UNCHANGED anthropicVars
     \/ cancelled /\ Return("cancelled") /\ UNCHANGED anthropicVars
     \/ /\ ~cancelled
        /\ Goto("waiting")
        /\ listener' = "listening" /\ channel' = "open"
        /\ UNCHANGED shutdown

\* From an authorization to the exchange of its code.
Exchange(authorization) ==
  /\ IF authorization.state = "foreign" \/ ~authorization.code THEN Leave("error")
     ELSE IF cancelled THEN Leave("cancelled")
     ELSE Goto("exchanging") /\ UNCHANGED shutdown
  /\ UNCHANGED <<listener, channel>>

\* Without a code the user is asked for one, unless the login is cancelled.
Ask ==
  /\ IF cancelled THEN Leave("cancelled")
     ELSE Goto("prompting") /\ UNCHANGED shutdown
  /\ UNCHANGED <<listener, channel>>

\* The receiver resolves: an authorization, None, or a sender that is gone.
Receive ==
  /\ phase = "waiting" /\ channel # "open"
  /\ IF channel = "code" THEN Exchange(FromBrowser) ELSE Ask

\* The user types something while the browser's answer is awaited, where the
\* application offers on_manual_code_input; or that callback fails.
TypeCode ==
  /\ phase = "waiting"
  /\ \E input \in Authorization : IF input.code THEN Exchange(input) ELSE Ask

\* (The mutant returns at once, as a ? outside of the async block would.)
TypingFailsAtOnce ==
  /\ phase = "waiting"
  /\ Return("error") /\ UNCHANGED anthropicVars
TypingFails ==
  /\ phase = "waiting"
  /\ Leave("error")
  /\ UNCHANGED <<listener, channel>>

AnswerPrompt ==
  /\ phase = "prompting"
  /\ \/ \E input \in Authorization : Exchange(input)
     \/ Leave("error") /\ UNCHANGED <<listener, channel>>

\* The token endpoint answers, or its timeout strikes.
ExchangeEnds ==
  /\ phase = "exchanging"
  /\ Leave("ok") \/ Leave("error")
  /\ UNCHANGED <<listener, channel>>

\* The server's task has ended.
Close ==
  /\ phase = "closing" /\ listener = "gone"
  /\ phase' = "done"
  /\ UNCHANGED <<job, result, cancelled>>
  /\ shutdown' = FALSE /\ listener' = "off" /\ channel' = "closed"

-----------------------------------------------------------------------------
\* The server's task.  Its select looks at the shutdown and at the token only
\* between two connections.
Serving == UNCHANGED <<callVars, shutdown>>

ServerStops ==
  /\ listener = "listening" /\ shutdown
  /\ listener' = "gone" /\ channel' = "closed"
  /\ Serving

\* The mutant is not given the login's token.
ServerNotCancelled ==
  /\ listener = "listening" /\ cancelled /\ shutdown
  /\ listener' = "gone" /\ channel' = "null"
  /\ Serving
ServerCancelled ==
  /\ listener = "listening" /\ cancelled
  /\ listener' = "gone" /\ channel' = "null"
  /\ Serving

Accept ==
  /\ listener = "listening"
  /\ listener' = "reading"
  /\ UNCHANGED channel /\ Serving

\* The browser asks for the callback with a code and our state, which ends the
\* server; or for anything else, or hangs up, which is answered with an error.
ReadRequest ==
  /\ listener = "reading"
  /\ \/ listener' = "gone" /\ channel' = "code"
     \/ listener' = "listening" /\ UNCHANGED channel
  /\ Serving

LoginStep == Begin \/ Receive \/ AnswerPrompt \/ ExchangeEnds \/ Close

=============================================================================
