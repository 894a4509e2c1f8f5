---------------------------- MODULE CopilotLogin ----------------------------
(***************************************************************************)
(* oauth/github_copilot.rs: login_github_copilot around the device flow,   *)
(* and any other login by device code through the public                   *)
(* poll_oauth_device_code_flow.  Only the poll loop and the enabling of    *)
(* models look at the cancellation token.                                  *)
(***************************************************************************)
EXTENDS DeviceFlow

CONSTANTS
  Expiries,  \* the lifetimes a device code may have
  Pending    \* bound: models whose policy has to be accepted

ASSUME CopilotAssumption == Expiries \subseteq Nat \ {0} /\ Pending \in Nat

VARIABLE pending   \* models left to enable

copilotVars == <<flowVars, pending>>

CopilotInit == FlowInit /\ pending = 0

FirstPauses == {{}, {0}, {2}}

\* Before an await that needs nothing but the network.
Step(from, to) == phase = from /\ Goto(to)

AskDomain == Step("entry", "domain")

\* The prompt is answered with a domain, or with none, or fails.
DomainGiven ==
  /\ phase = "domain"
  /\ \/ Return("error")
     \/ cancelled /\ Return("cancelled")
     \/ ~cancelled /\ Goto("issuing")

\* A device code comes and is shown to the user; a malformed one is refused.
CodeIssued ==
  /\ phase = "issuing"
  /\ \/ Return("error") /\ UNCHANGED flowVars
     \/ \E named \in FirstPauses, expires \in Expiries : StartFlow(named, {expires}, TRUE)

\* A device flow of another provider, which may start with a poll or go on
\* until the server decides.
StartOwnFlow ==
  /\ phase = "entry"
  /\ \E named \in FirstPauses, expires \in {{}} \cup {{e} : e \in Expiries} :
       StartFlow(named, expires, FALSE)

\* The user has confirmed the code.
PollComplete ==
  /\ phase = "polling"
  /\ FlowReset
  /\ IF job = "device" THEN Return("ok") ELSE Goto("minting")

Minted ==
  /\ phase = "minting"
  /\ \/ Return("error") /\ UNCHANGED pending
     \/ Goto("surveying") /\ UNCHANGED pending

\* The models to enable are listed, as far as the listing succeeds.
Surveyed ==
  /\ phase = "surveying"
  /\ pending' \in 0..Pending
  /\ Goto("enabling")

\* One policy is accepted, or refused; cancellation ends the enabling alone.
EnableNext ==
  /\ phase = "enabling"
  /\ IF pending = 0 \/ cancelled
     THEN pending' = 0 /\ Goto("listing")
     ELSE pending' = pending - 1 /\ Goto("enabling")

\* A listing that is asked to wait is retried once.
Listed ==
  /\ phase \in {"listing", "listing again"}
  /\ \/ Return("ok") \/ Return("error")
     \/ phase = "listing" /\ Goto("listing again")

CopilotStep ==
  \/ (AskDomain \/ DomainGiven \/ Listed) /\ UNCHANGED copilotVars
  \/ (CodeIssued \/ PollComplete) /\ UNCHANGED pending
  \/ (Minted \/ Surveyed \/ EnableNext) /\ UNCHANGED flowVars

=============================================================================
