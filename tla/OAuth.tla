------------------------------- MODULE OAuth -------------------------------
(***************************************************************************)
(* A login and the keys it leads to: the application logs in with          *)
(* Anthropic, with GitHub Copilot or by another device flow, stores the    *)
(* credentials, and its tasks ask for keys until the tokens lapse.         *)
(***************************************************************************)
EXTENDS AnthropicLogin, CopilotLogin, OAuthKeys

vars == <<callVars, anthropicVars, copilotVars, keyVars>>

\* Anthropic's answers always bring a refresh token and a lifetime.
Init ==
  /\ CallInit /\ AnthropicInit /\ CopilotInit /\ KeysInit
  /\ policy \in Policies
  /\ job # "copilot" => policy.refreshes /\ policy.expires

-----------------------------------------------------------------------------
Anthropic(step) == job = "anthropic" /\ step /\ UNCHANGED <<copilotVars, keyVars>>

Browser == Anthropic(ReadRequest)
ServerEnds == Anthropic(ServerStops \/ ServerCancelled)
AnthropicLogsIn == Anthropic(LoginStep)
AnthropicUser == Anthropic(Accept \/ TypeCode \/ TypingFails)

Device ==
  /\ UNCHANGED <<anthropicVars, keyVars>>
  /\ \/ job = "copilot" /\ CopilotStep
     \/ job = "device" /\ (StartOwnFlow \/ PollComplete) /\ UNCHANGED pending
     \/ job # "anthropic" /\ FlowStep /\ UNCHANGED pending

UserCancels == CancelLogin /\ UNCHANGED <<anthropicVars, copilotVars, keyVars>>

\* A login by another device flow has no credentials of this crate.
LoggedIn == phase = "done" /\ result = "ok" /\ job # "device"

Keys ==
  /\ UNCHANGED <<callVars, anthropicVars, copilotVars>>
  /\ LoggedIn
  /\ \/ store = {} /\ StoreLogin
     \/ KeyExpires \/ TokenAges
     \/ \E t \in Tasks :
          \/ AskKey(t, job = "copilot") \/ Renew(t, job = "copilot")
          \/ Mint(t) \/ ListModels(t) \/ StoreRenewed(t)

Next ==
  \/ Browser \/ ServerEnds \/ AnthropicLogsIn \/ AnthropicUser
  \/ Device \/ UserCancels \/ Keys

\* The login waits for the application's prompt, or for a request that has no
\* timeout, and does not look at the token meanwhile: the device code, the
\* polls and the minting of Copilot, and the polls of another device flow.
AwaitsOthers == phase \in {"domain", "prompting", "issuing", "polling", "minting"}

\* The steps that need nobody else: timers, decisions, and requests that have
\* a timeout.
OwnStep == (AnthropicLogsIn \/ Device) /\ ~AwaitsOthers

\* The login takes its own steps; the server's select takes a branch that is
\* ready again and again.  Neither the user nor a request without a timeout
\* need ever answer, and a connection to the callback server may stay silent.
Fairness == WF_vars(OwnStep) /\ SF_vars(ServerEnds)

Spec == Init /\ [][Next]_vars /\ Fairness

-----------------------------------------------------------------------------
\* The server is polled no sooner than it has asked, last and least, and not
\* at all once the code has expired or the login is cancelled.
PollsAsAsked ==
  [][polls' > polls =>
       /\ now - server.answered >= server.asked
       /\ \A d \in deadline : now < d
       /\ ~cancelled]_vars

\* A login that has returned, in whatever way, has taken down its callback
\* server, so that the next one finds the port free.
ServerGoneWithLogin == phase = "done" => listener = "off"

\* A cancelled login returns, though the browser never comes back: unless it
\* waits for good where nothing bounds the wait and nobody looks at the token,
\* for a prompt, for a request without a timeout, or for a connection to the
\* callback server that says nothing.
CancelledLoginEnds ==
  []<>(~AwaitsOthers /\ listener # "reading") => (cancelled ~> phase = "done")

\* The stored refresh token stays good unless a renewed one was lost to the
\* network, to a request that failed after the renewal, or to a task that
\* stored older credentials over newer ones.
StoredTokenGood ==
  \A c \in store :
    c.refresh \cap spent # {} => excused \/ \E t \in Tasks : HasRenewed(t)

=============================================================================
