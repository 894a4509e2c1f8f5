----------------------------- MODULE DeviceFlow -----------------------------
(***************************************************************************)
(* oauth/mod.rs: what the logins of the providers share, and polling for   *)
(* the token of a device code.  A login is one future; its phases are its  *)
(* awaits, and a step runs from one await to the next.                     *)
(*                                                                         *)
(* Time is counted in seconds from the start of the flow; an optional      *)
(* value is a set of at most one element.  The clock that is read and the  *)
(* clock that ends a sleep advance together.                               *)
(***************************************************************************)
EXTENDS Integers

CONSTANTS
  DefaultInterval,   \* DEFAULT_POLL_INTERVAL_SECONDS
  Increment,         \* SLOW_DOWN_INTERVAL_INCREMENT_MS, in seconds
  MaxPolls,          \* bound: polls after which the server decides
  MaxDelay           \* bound: seconds an answer takes, or a sleep oversleeps

ASSUME DeviceAssumption ==
  /\ DefaultInterval \in Nat \ {0} /\ Increment \in Nat \ {0}
  /\ MaxPolls \in Nat \ {0} /\ MaxDelay \in Nat

VARIABLES
  job,        \* which login the application asked for
  phase,      \* the await the login is at, or "done"
  result,     \* what it returned: "none" while it runs
  cancelled   \* the cancellation token of its callbacks

VARIABLES
  now,        \* the clock
  deadline,   \* {} when the code does not expire
  interval,   \* the pause between two polls
  wake,       \* when the running sleep ends
  slowed,     \* some answer asked for a slow-down
  polls,      \* polls sent
  server      \* when it answered last, and the pause it asked for

callVars == <<job, phase, result, cancelled>>
flowVars == <<now, deadline, interval, wake, slowed, polls, server>>

Jobs == {"anthropic", "copilot", "device"}

CallInit ==
  /\ job \in Jobs
  /\ phase = "entry"
  /\ result = "none"
  /\ cancelled \in BOOLEAN

Goto(next) == phase' = next /\ UNCHANGED <<job, result, cancelled>>

Return(value) ==
  /\ phase' = "done" /\ result' = value
  /\ UNCHANGED <<job, cancelled>>

\* The user cancels, at any time before the login returns.
CancelLogin ==
  /\ phase # "done" /\ ~cancelled
  /\ cancelled' = TRUE
  /\ UNCHANGED <<job, phase, result>>

-----------------------------------------------------------------------------
(* The flow of a device code.                                              *)

MinimumInterval == 1

NoServer == [answered |-> 0, asked |-> 0]

FlowInit ==
  /\ now = 0 /\ deadline = {} /\ interval = 0 /\ wake = 0
  /\ slowed = FALSE /\ polls = 0 /\ server = NoServer

\* The locals of the flow go out of scope with it.
FlowReset ==
  /\ now' = 0 /\ deadline' = {} /\ interval' = 0 /\ wake' = 0
  /\ slowed' = FALSE /\ polls' = 0 /\ server' = NoServer

FlowFails(error) == Return(error) /\ FlowReset

The(option) == CHOOSE value \in option : TRUE

\* The first pause, by the interval the server named when it issued the code.
FirstInterval(named) ==
  IF named = {} THEN DefaultInterval
  ELSE IF The(named) > MinimumInterval THEN The(named) ELSE MinimumInterval

\* The mutant keeps its pace when the server names no interval.
SlowerIfNamed(old, named) == IF \E s \in named : s > 0 THEN The(named) ELSE old
Slower(old, named) == IF \E s \in named : s > 0 THEN The(named) ELSE old + Increment

Expired(at) == \E d \in deadline : at >= d

\* When a sleep from time at ends: after the pause, or at the deadline.
SleepEnd(at, pause, end) ==
  IF \E d \in end : d < at + pause THEN The(end) ELSE at + pause

\* The caller starts the flow; a login waits before its first poll.
StartFlow(named, expires, wait) ==
  LET first == FirstInterval(named)
  IN  /\ deadline' = expires
      /\ interval' = first
      /\ wake' = IF wait THEN SleepEnd(0, first, expires) ELSE 0
      /\ server' = [answered |-> IF wait THEN 0 ELSE -first, asked |-> first]
      /\ Goto(IF wait THEN "sleeping" ELSE "awake")
      /\ UNCHANGED <<now, slowed, polls>>

\* abortable_sleep ends; a timer and a cancellation that are both due race.
SleepOver ==
  /\ phase = "sleeping"
  /\ \E late \in 0..MaxDelay : now' = wake + late
  /\ Goto("awake")
  /\ UNCHANGED <<deadline, interval, wake, slowed, polls, server>>

SleepCancelled == phase = "sleeping" /\ cancelled /\ FlowFails("cancelled")

Timeout(slow) == FlowFails(IF slow THEN "slowTimeout" ELSE "timeout")

\* The top of the loop: look at the token and at the clock, then poll.
Poll ==
  /\ phase = "awake"
  /\ IF cancelled THEN FlowFails("cancelled")
     ELSE IF Expired(now) THEN Timeout(slowed)
     ELSE /\ polls' = polls + 1 /\ Goto("polling")
          /\ UNCHANGED <<now, deadline, interval, wake, slowed, server>>

\* After an answer at time at: sleep, unless the deadline has come.
Rest(at, pause, slow, asked) ==
  IF Expired(at) THEN Timeout(slow)
  ELSE /\ now' = at /\ interval' = pause /\ slowed' = slow
       /\ wake' = SleepEnd(at, pause, deadline)
       /\ server' = [answered |-> at, asked |-> asked]
       /\ Goto("sleeping")
       /\ UNCHANGED <<deadline, polls>>

\* The server asks for patience, or for a longer pause, which it names (zero
\* counts as not named) or not.
PollAgain ==
  /\ phase = "polling" /\ polls < MaxPolls
  /\ \E delay \in 0..MaxDelay :
       \/ Rest(now + delay, interval, slowed, server.asked)
       \/ Rest(now + delay, Slower(interval, {2}), TRUE, 2)
       \/ \E named \in {{}, {0}} :
            Rest(now + delay, Slower(interval, named), TRUE, server.asked + Increment)

\* The server refuses, its answer makes no sense, or the request fails.
PollFails == phase = "polling" /\ FlowFails("error")

FlowStep == SleepOver \/ SleepCancelled \/ Poll \/ PollAgain \/ PollFails

=============================================================================
