---------------------------- MODULE AgentProofs ----------------------------
(***************************************************************************)
(* Theorems about Agent, for any sets of callers and waiters and any       *)
(* bounds.  Every proof follows the actions of Next.                       *)
(***************************************************************************)
EXTENDS Agent, SequenceTheorems, FiniteSetTheorems, WellFoundedInduction, TLAPS

(* The steps of a caller, and those of everybody else, by name.            *)
LEMMA NextCases ==
  ASSUME Next
  PROVE  \/ \E c \in Callers : \/ PromptMessages(c) \/ ContinueRun(c)
                              \/ InspectLastMessage(c) \/ DrainSteering(c)
                              \/ DrainFollowUp(c) \/ Setup(c) \/ Snapshot(c)
                              \/ EmitMessage(c) \/ AllEmitted(c) \/ PollSteering(c)
                              \/ Respond(c) \/ ToolResults(c) \/ PollFollowUp(c)
                              \/ AgentEnd(c) \/ EmitRunFailure(c) \/ Settle(c)
                              \/ ClearActiveToken(c) \/ NotifyWaiters(c)
                              \/ RunError(c) \/ ReportFails(c) \/ DropFuture(c)
         \/ \E w \in Waiters : WaitForIdle(w) \/ WaitCheck(w) \/ WaitSleep(w) \/ WaitWake(w)
         \/ Steer \/ FollowUp \/ Abort \/ EditMessages \/ SetMode
         \/ ClearOneQueue \/ Reset \/ ResetQueues
         \/ UNCHANGED vars
  BY DEF Next, RunStep, User, AtRest

(* A counter that is below its bound may take one step.                    *)
LEMMA Bounds ==
  /\ MaxRuns \in Nat /\ MaxMsgs \in Nat /\ MaxTurns \in Nat
  /\ MaxFaults \in Nat /\ MaxEdits \in Nat /\ MaxDrops \in Nat
  BY AgentAssumption

LEMMA OneMore ==
  ASSUME NEW n \in Nat, NEW k \in 0 .. n, k < n
  PROVE  k + 1 \in 0 .. n
  OBVIOUS

(* Draining a queue, and taking its ids, stay within the messages.         *)
LEMMA DrainTypes ==
  ASSUME NEW q \in Seq(Message), NEW m
  PROVE  /\ Drained(q, m) \in Seq(Message)
         /\ Kept(q, m) \in Seq(Message)
         /\ IdsOf(q) \subseteq 1 .. MaxMsgs
         /\ q # <<>> => Head(q) \in Message /\ Tail(q) \in Seq(Message)
  <1>1. q # <<>> => Head(q) \in Message /\ Tail(q) \in Seq(Message)
    OBVIOUS
  <1>2. \A i \in DOMAIN q : q[i] \in Message
    OBVIOUS
  <1>3. IdsOf(q) \subseteq 1 .. MaxMsgs
    BY <1>2 DEF IdsOf, Message
  <1>4. Drained(q, m) \in Seq(Message) /\ Kept(q, m) \in Seq(Message)
    BY <1>1 DEF Drained, Kept
  <1>5. QED
    BY <1>1, <1>3, <1>4

(* A fresh message is a message, as long as there is an id left.           *)
LEMMA SubmittedTypes ==
  ASSUME lastId \in 0 .. MaxMsgs, lastId < MaxMsgs,
         NEW via \in {"prompt", "steer", "followUp"}
  PROVE  SubmittedBy(via) \in Message /\ lastId + 1 \in 0 .. MaxMsgs
  BY AgentAssumption DEF SubmittedBy, Message

USE AgentAssumption

(* The locals of a run, field by field, and a run that starts.             *)
LEMMA LocalsTypes ==
  /\ NoLocals \in RunLocals
  /\ \A r \in RunLocals :
       /\ r.token \in 0 .. MaxRuns
       /\ r.pending \in Seq(Message)
       /\ r.ctx \in Role
       /\ r.batches \in Nat
       /\ r.turns \in Nat
       /\ {r.cont, r.skip, r.more} \subseteq BOOLEAN
  BY DEF NoLocals, RunLocals, Role

(* The updates of a run's locals that touch numbers or messages.           *)
LEMMA LocalsUpdated ==
  /\ \A r \in RunLocals, t \in 0 .. MaxRuns : [r EXCEPT !.token = t] \in RunLocals
  /\ \A r \in RunLocals, p \in Seq(Message) : [r EXCEPT !.pending = p] \in RunLocals
  /\ \A r \in RunLocals, t \in 0 .. MaxRuns, p \in Seq(Message) :
       [r EXCEPT !.token = t, !.pending = p] \in RunLocals
  /\ \A r \in RunLocals, p \in Seq(Message), n \in Nat :
       [r EXCEPT !.pending = p, !.skip = FALSE, !.batches = n] \in RunLocals
  /\ \A r \in RunLocals, n \in Nat :
       [r EXCEPT !.ctx = "assistant", !.batches = 0, !.more = FALSE,
                 !.turns = n] \in RunLocals
  <1>1. ASSUME NEW r \in RunLocals, NEW t \in 0 .. MaxRuns
        PROVE  [r EXCEPT !.token = t] \in RunLocals
    BY DEF RunLocals
  <1>2. ASSUME NEW r \in RunLocals, NEW p \in Seq(Message)
        PROVE  [r EXCEPT !.pending = p] \in RunLocals
    BY DEF RunLocals
  <1>3. ASSUME NEW r \in RunLocals, NEW t \in 0 .. MaxRuns, NEW p \in Seq(Message)
        PROVE  [r EXCEPT !.token = t, !.pending = p] \in RunLocals
    BY DEF RunLocals
  <1>4. ASSUME NEW r \in RunLocals, NEW p \in Seq(Message), NEW n \in Nat
        PROVE  [r EXCEPT !.pending = p, !.skip = FALSE, !.batches = n] \in RunLocals
    BY DEF RunLocals
  <1>5. ASSUME NEW r \in RunLocals, NEW n \in Nat
        PROVE  [r EXCEPT !.ctx = "assistant", !.batches = 0, !.more = FALSE,
                         !.turns = n] \in RunLocals
    BY DEF RunLocals, Role
  <1>6. QED
    BY <1>1, <1>2, <1>3, <1>4, <1>5

(* A run's new locals leave every other run's as they are.                 *)
LEMMA LocalsKept ==
  ASSUME TypeOK, NEW c \in Callers, NEW r \in RunLocals, Locals(c, r)
  PROVE  run' \in [Callers -> RunLocals]
  BY DEF TypeOK, Locals

(* So does a caller that moves on.                                         *)
LEMMA GotoKept ==
  ASSUME TypeOK, NEW c \in Callers,
         NEW l \in InFlight \cup {"idle", "notify", "dropped"}, Goto(c, l)
  PROVE  pc' \in [Callers -> InFlight \cup {"idle", "notify", "dropped"}]
  BY DEF TypeOK, Goto

(* Every variable keeps its type.                                          *)
THEOREM TypeCorrect == Spec => []TypeOK
  <1>1. Init => TypeOK
    <2> SUFFICES ASSUME Init
                 PROVE  TypeOK
      OBVIOUS
    <2>1. /\ isStreaming \in BOOLEAN
          /\ tail \in Role
          /\ mode \in [{"steering", "followUp"} -> QueueMode]
          /\ resetPc \in {"idle", "steering", "followUp"}
      BY DEF Init
    <2>2. /\ steering \in Seq(Message)
          /\ followUp \in Seq(Message)
          /\ delivered \in Seq(Message)
      BY DEF Init
    <2>3. pc \in [Callers -> InFlight \cup {"idle", "notify", "dropped"}]
      BY DEF Init
    <2>4. run \in [Callers -> RunLocals]
      BY LocalsTypes DEF Init
    <2>5. /\ wpc \in [Waiters -> {"idle", "armed", "checked", "sleeping"}]
          /\ woken \in [Waiters -> BOOLEAN]
      BY DEF Init
    <2>6. /\ activeToken \in 0 .. MaxRuns
          /\ lastToken \in 0 .. MaxRuns
          /\ cancelled \subseteq 1 .. MaxRuns
          /\ lost \subseteq 1 .. MaxMsgs
          /\ lastId \in 0 .. MaxMsgs
          /\ faults \in 0 .. MaxFaults
          /\ edits \in 0 .. MaxEdits
          /\ drops \in 0 .. MaxDrops
      BY DEF Init
    <2>7. QED
      BY <2>1, <2>2, <2>3, <2>4, <2>5, <2>6 DEF TypeOK
  <1>2. TypeOK /\ [Next]_vars => TypeOK'
    <2> SUFFICES ASSUME TypeOK, [Next]_vars
                 PROVE  TypeOK'
      OBVIOUS
    <2> USE DEF token, queues, sleep, hist, used
    <2>1. CASE UNCHANGED vars
      BY <2>1 DEF vars, TypeOK
    <2>0. ASSUME NEW c \in Callers
          PROVE  /\ run[c] \in RunLocals
                 /\ run[c].pending \in Seq(Message)
                 /\ IdsOf(run[c].pending) \subseteq 1 .. MaxMsgs
      <3>1. run[c] \in RunLocals
        BY DEF TypeOK
      <3>2. QED
        BY <3>1, LocalsTypes, DrainTypes
    <2>2. ASSUME NEW c \in Callers, PromptMessages(c)
          PROVE  TypeOK'
      <3>1. SubmittedBy("prompt") \in Message /\ lastId + 1 \in 0 .. MaxMsgs
        BY <2>2, SubmittedTypes DEF PromptMessages, TypeOK
      <3>2. activeToken' \in 0 .. MaxRuns /\ lastToken' \in 0 .. MaxRuns
        <4>1. lastToken < MaxRuns /\ lastToken' = lastToken + 1 /\ activeToken' = lastToken + 1
          BY <2>2 DEF PromptMessages, Acquire
        <4>2. lastToken \in 0 .. MaxRuns
          BY DEF TypeOK
        <4>3. QED
          BY <4>1, <4>2, Bounds, OneMore
      <3>3. [NoLocals EXCEPT !.token = activeToken',
                            !.pending = <<SubmittedBy("prompt")>>] \in RunLocals
        <4>1. <<SubmittedBy("prompt")>> \in Seq(Message)
          BY <3>1
        <4>2. QED
          BY <3>2, <4>1, LocalsTypes, LocalsUpdated
      <3>4. run' \in [Callers -> RunLocals]
        BY <2>2, <3>3, LocalsKept DEF PromptMessages
      <3>5. pc' \in [Callers -> InFlight \cup {"idle", "notify", "dropped"}]
        BY <2>2, GotoKept DEF PromptMessages, InFlight
      <3>6. QED
        BY <2>2, <3>1, <3>2, <3>4, <3>5 DEF PromptMessages, TypeOK, Acquire
    <2>3. ASSUME NEW c \in Callers, ContinueRun(c)
          PROVE  TypeOK'
      <3>1. activeToken' \in 0 .. MaxRuns /\ lastToken' \in 0 .. MaxRuns
        <4>1. lastToken < MaxRuns /\ lastToken' = lastToken + 1 /\ activeToken' = lastToken + 1
          BY <2>3 DEF ContinueRun, Acquire
        <4>2. lastToken \in 0 .. MaxRuns
          BY DEF TypeOK
        <4>3. QED
          BY <4>1, <4>2, Bounds, OneMore
      <3>2. [NoLocals EXCEPT !.token = activeToken'] \in RunLocals
        BY <3>1, LocalsTypes, LocalsUpdated
      <3>3. run' \in [Callers -> RunLocals]
        BY <2>3, <3>2, LocalsKept DEF ContinueRun
      <3>4. pc' \in [Callers -> InFlight \cup {"idle", "notify", "dropped"}]
        BY <2>3, GotoKept DEF ContinueRun, InFlight
      <3>5. QED
        BY <2>3, <3>1, <3>3, <3>4 DEF ContinueRun, TypeOK, Acquire
    <2>4. ASSUME NEW c \in Callers, InspectLastMessage(c)
          PROVE  TypeOK'
      <3>1. [run[c] EXCEPT !.cont = TRUE] \in RunLocals
        BY <2>0 DEF RunLocals
      <3>2. run' \in [Callers -> RunLocals]
        BY <2>4, <3>1, LocalsKept DEF InspectLastMessage, TypeOK
      <3>3. pc' \in [Callers -> InFlight \cup {"idle", "notify", "dropped"}]
        BY <2>4, GotoKept DEF InspectLastMessage, InFlight
      <3>4. QED
        BY <2>4, <3>2, <3>3 DEF InspectLastMessage, TypeOK
    <2>5. ASSUME NEW c \in Callers, DrainSteering(c)
          PROVE  TypeOK'
      <3>1. /\ Drained(steering, mode["steering"]) \in Seq(Message)
            /\ Kept(steering, mode["steering"]) \in Seq(Message)
        BY DrainTypes DEF TypeOK
      <3>2. SteeredRun(run[c], Drained(steering, mode["steering"])) \in RunLocals
        BY <2>0, <3>1 DEF SteeredRun, RunLocals
      <3>3. run' \in [Callers -> RunLocals]
        BY <2>5, <3>2, LocalsKept DEF DrainSteering, TypeOK
      <3>4. pc' \in [Callers -> InFlight \cup {"idle", "notify", "dropped"}]
        BY <2>5, GotoKept DEF DrainSteering, InFlight
      <3>5. QED
        BY <2>5, <3>1, <3>3, <3>4 DEF DrainSteering, TypeOK
    <2>6. ASSUME NEW c \in Callers, DrainFollowUp(c)
          PROVE  TypeOK'
      <3>1. /\ Drained(followUp, mode["followUp"]) \in Seq(Message)
            /\ Kept(followUp, mode["followUp"]) \in Seq(Message)
        BY DrainTypes DEF TypeOK
      <3>2. [run[c] EXCEPT !.pending = Drained(followUp, mode["followUp"])] \in RunLocals
        BY <2>0, <3>1 DEF RunLocals
      <3>3. run' \in [Callers -> RunLocals]
        BY <2>6, <3>2, LocalsKept DEF DrainFollowUp
      <3>4. pc' \in [Callers -> InFlight \cup {"idle", "notify", "dropped"}]
        BY <2>6, GotoKept DEF DrainFollowUp, InFlight
      <3>5. QED
        BY <2>6, <3>1, <3>3, <3>4 DEF DrainFollowUp, TypeOK
    <2>7. ASSUME NEW c \in Callers, Setup(c)
          PROVE  TypeOK'
      <3>1. pc' \in [Callers -> InFlight \cup {"idle", "notify", "dropped"}]
        BY <2>7, GotoKept DEF Setup, InFlight
      <3>2. QED
        BY <2>7, <3>1 DEF Setup, TypeOK
    <2>8. ASSUME NEW c \in Callers, Snapshot(c)
          PROVE  TypeOK'
      <3>1. [run[c] EXCEPT !.ctx = IF run[c].pending = <<>> THEN tail ELSE "other",
                        !.more = TRUE] \in RunLocals
        BY <2>0 DEF RunLocals, TypeOK, Role
      <3>2. run' \in [Callers -> RunLocals]
        BY <2>8, <3>1, LocalsKept DEF Snapshot
      <3>3. pc' \in [Callers -> InFlight \cup {"idle", "notify", "dropped"}]
        BY <2>8, GotoKept DEF Snapshot, InFlight
      <3>4. QED
        BY <2>8, <3>2, <3>3 DEF Snapshot, TypeOK
    <2>9. ASSUME NEW c \in Callers, EmitMessage(c)
          PROVE  TypeOK'
      <3>1. /\ Head(run[c].pending) \in Message
            /\ Tail(run[c].pending) \in Seq(Message)
        BY <2>9, <2>0, DrainTypes DEF EmitMessage
      <3>2. delivered' \in Seq(Message) /\ tail' \in Role
        BY <2>9, <3>1 DEF EmitMessage, TypeOK, Role
      <3>3. [run[c] EXCEPT !.pending = Tail(@), !.ctx = "other"] \in RunLocals
        BY <2>0, <3>1 DEF RunLocals, Role
      <3>4. run' \in [Callers -> RunLocals]
        BY <2>9, <3>3, LocalsKept DEF EmitMessage
      <3>5. QED
        BY <2>9, <3>1, <3>2, <3>4 DEF EmitMessage, TypeOK
    <2>10. ASSUME NEW c \in Callers, AllEmitted(c)
          PROVE  TypeOK'
      <3>1. pc' \in [Callers -> InFlight \cup {"idle", "notify", "dropped"}]
        BY <2>10, GotoKept DEF AllEmitted, InFlight
      <3>2. QED
        BY <2>10, <3>1 DEF AllEmitted, TypeOK
    <2>11. ASSUME NEW c \in Callers, PollSteering(c)
          PROVE  TypeOK'
      <3> DEFINE got == IF run[c].skip THEN <<>> ELSE Drained(steering, mode["steering"])
      <3>1. got \in Seq(Message) /\ steering' \in Seq(Message)
        BY <2>11, DrainTypes DEF PollSteering, TypeOK
      <3>2. [run[c] EXCEPT !.pending = got, !.skip = FALSE,
                !.batches = IF got = <<>> THEN @ ELSE @ + 1] \in RunLocals
        <4> DEFINE n == IF got = <<>> THEN run[c].batches ELSE run[c].batches + 1
        <4>1. n \in Nat
          BY <2>0, LocalsTypes
        <4>2. [run[c] EXCEPT !.pending = got, !.skip = FALSE, !.batches = n] \in RunLocals
          <5> HIDE DEF got, n
          <5> QED BY <2>0, <3>1, <4>1, LocalsUpdated
        <4>3. QED
          BY <4>2, <2>0 DEF RunLocals
      <3>3. run' \in [Callers -> RunLocals]
        BY <2>11, <3>2, LocalsKept DEF PollSteering
      <3>4. pc' \in [Callers -> InFlight \cup {"idle", "notify", "dropped"}]
        BY <2>11, GotoKept DEF PollSteering, InFlight
      <3>5. QED
        BY <2>11, <3>1, <3>3, <3>4 DEF PollSteering, TypeOK
    <2>12. ASSUME NEW c \in Callers, Respond(c)
          PROVE  TypeOK'
      <3>1. \A outcome :
              [run[c] EXCEPT !.ctx = "assistant", !.batches = 0, !.more = FALSE,
                 !.turns = IF outcome = "toolUse" THEN @ + 1 ELSE @] \in RunLocals
        <4> SUFFICES ASSUME NEW outcome
                     PROVE  [run[c] EXCEPT !.ctx = "assistant", !.batches = 0,
                               !.more = FALSE,
                               !.turns = IF outcome = "toolUse" THEN @ + 1 ELSE @]
                              \in RunLocals
          OBVIOUS
        <4> DEFINE n == IF outcome = "toolUse" THEN run[c].turns + 1 ELSE run[c].turns
        <4>1. n \in Nat
          BY <2>0, LocalsTypes
        <4>2. [run[c] EXCEPT !.ctx = "assistant", !.batches = 0, !.more = FALSE,
                             !.turns = n] \in RunLocals
          <5> HIDE DEF n
          <5> QED BY <2>0, <4>1, LocalsUpdated
        <4>3. QED
          BY <4>2, <2>0 DEF RunLocals
      <3>2. run' \in [Callers -> RunLocals]
        BY <2>12, <3>1, LocalsKept DEF Respond
      <3>3. pc' \in [Callers -> InFlight \cup {"idle", "notify", "dropped"}]
        BY <2>12, GotoKept DEF Respond, InFlight
      <3>4. QED
        BY <2>12, <3>2, <3>3 DEF Respond, TypeOK, Role
    <2>13. ASSUME NEW c \in Callers, ToolResults(c)
          PROVE  TypeOK'
      <3>1. \A terminate \in BOOLEAN :
              [run[c] EXCEPT !.ctx = "other", !.more = ~terminate] \in RunLocals
        BY <2>0 DEF RunLocals, Role
      <3>2. run' \in [Callers -> RunLocals]
        BY <2>13, <3>1, LocalsKept DEF ToolResults
      <3>3. pc' \in [Callers -> InFlight \cup {"idle", "notify", "dropped"}]
        BY <2>13, GotoKept DEF ToolResults, InFlight
      <3>4. QED
        BY <2>13, <3>2, <3>3 DEF ToolResults, TypeOK, Role
    <2>14. ASSUME NEW c \in Callers, PollFollowUp(c)
          PROVE  TypeOK'
      <3>1. /\ Drained(followUp, mode["followUp"]) \in Seq(Message)
            /\ Kept(followUp, mode["followUp"]) \in Seq(Message)
        BY DrainTypes DEF TypeOK
      <3>2. [run[c] EXCEPT !.pending = Drained(followUp, mode["followUp"]),
                        !.more = TRUE] \in RunLocals
        BY <2>0, <3>1 DEF RunLocals
      <3>3. run' \in [Callers -> RunLocals]
        BY <2>14, <3>2, LocalsKept DEF PollFollowUp
      <3>4. pc' \in [Callers -> InFlight \cup {"idle", "notify", "dropped"}]
        BY <2>14, GotoKept DEF PollFollowUp, InFlight
      <3>5. QED
        BY <2>14, <3>1, <3>3, <3>4 DEF PollFollowUp, TypeOK
    <2>15. ASSUME NEW c \in Callers, AgentEnd(c)
          PROVE  TypeOK'
      <3>1. pc' \in [Callers -> InFlight \cup {"idle", "notify", "dropped"}]
        BY <2>15, GotoKept DEF AgentEnd, InFlight
      <3>2. QED
        BY <2>15, <3>1 DEF AgentEnd, TypeOK
    <2>16. ASSUME NEW c \in Callers, EmitRunFailure(c)
          PROVE  TypeOK'
      <3>1. pc' \in [Callers -> InFlight \cup {"idle", "notify", "dropped"}]
        BY <2>16, GotoKept DEF EmitRunFailure, InFlight
      <3>2. QED
        BY <2>16, <3>1 DEF EmitRunFailure, TypeOK, Role
    <2>17. ASSUME NEW c \in Callers, Settle(c)
          PROVE  TypeOK'
      <3>1. pc' \in [Callers -> InFlight \cup {"idle", "notify", "dropped"}]
        BY <2>17, GotoKept DEF Settle, InFlight
      <3>2. QED
        BY <2>17, <3>1 DEF Settle, TypeOK
    <2>18. ASSUME NEW c \in Callers, ClearActiveToken(c)
          PROVE  TypeOK'
      <3>1. NoLocals \in RunLocals
        BY LocalsTypes
      <3>2. run' \in [Callers -> RunLocals]
        BY <2>18, <3>1, LocalsKept DEF ClearActiveToken
      <3>3. pc' \in [Callers -> InFlight \cup {"idle", "notify", "dropped"}]
        BY <2>18, GotoKept DEF ClearActiveToken, InFlight
      <3>4. activeToken' \in 0 .. MaxRuns
        BY <2>18, Bounds DEF ClearActiveToken
      <3>5. QED
        BY <2>18, <3>2, <3>3, <3>4 DEF ClearActiveToken, TypeOK
    <2>19. ASSUME NEW c \in Callers, NotifyWaiters(c)
          PROVE  TypeOK'
      <3>1. pc' \in [Callers -> InFlight \cup {"idle", "notify", "dropped"}]
        BY <2>19, GotoKept DEF NotifyWaiters, InFlight
      <3>2. woken' \in [Waiters -> BOOLEAN]
        BY <2>19 DEF NotifyWaiters
      <3>3. QED
        BY <2>19, <3>1, <3>2 DEF NotifyWaiters, TypeOK
    <2>20. ASSUME NEW c \in Callers, RunError(c)
          PROVE  TypeOK'
      <3>1. lost' \subseteq 1 .. MaxMsgs
        BY <2>20, <2>0 DEF RunError, TypeOK
      <3>2. faults' \in 0 .. MaxFaults
        <4>1. faults < MaxFaults /\ faults' = faults + 1
          BY <2>20 DEF RunError
        <4>2. faults \in 0 .. MaxFaults
          BY DEF TypeOK
        <4>3. QED
          BY <4>1, <4>2, Bounds, OneMore
      <3>3. [run[c] EXCEPT !.pending = <<>>] \in RunLocals
        <4>1. <<>> \in Seq(Message)
          OBVIOUS
        <4>2. QED
          BY <2>0, <4>1, LocalsUpdated
      <3>4. run' \in [Callers -> RunLocals]
        BY <2>20, <3>3, LocalsKept DEF RunError
      <3>5. pc' \in [Callers -> InFlight \cup {"idle", "notify", "dropped"}]
        BY <2>20, GotoKept DEF RunError, InFlight
      <3>6. QED
        BY <2>20, <3>1, <3>2, <3>4, <3>5 DEF RunError, TypeOK
    <2>32. ASSUME NEW c \in Callers, ReportFails(c)
          PROVE  TypeOK'
      <3>1. faults' \in 0 .. MaxFaults
        <4>1. faults < MaxFaults /\ faults' = faults + 1
          BY <2>32 DEF ReportFails
        <4>2. faults \in 0 .. MaxFaults
          BY DEF TypeOK
        <4>3. QED
          BY <4>1, <4>2, Bounds, OneMore
      <3>2. pc' \in [Callers -> InFlight \cup {"idle", "notify", "dropped"}]
        BY <2>32, GotoKept DEF ReportFails, InFlight
      <3>3. QED
        BY <2>32, <3>1, <3>2 DEF ReportFails, TypeOK
    <2>21. ASSUME NEW c \in Callers, DropFuture(c)
          PROVE  TypeOK'
      <3>1. lost' \subseteq 1 .. MaxMsgs
        BY <2>21, <2>0 DEF DropFuture, TypeOK
      <3>2. drops' \in 0 .. MaxDrops
        <4>1. drops < MaxDrops /\ drops' = drops + 1
          BY <2>21 DEF DropFuture
        <4>2. drops \in 0 .. MaxDrops
          BY DEF TypeOK
        <4>3. QED
          BY <4>1, <4>2, Bounds, OneMore
      <3>3. NoLocals \in RunLocals
        BY LocalsTypes
      <3>4. run' \in [Callers -> RunLocals]
        BY <2>21, <3>3, LocalsKept DEF DropFuture
      <3>5. pc' \in [Callers -> InFlight \cup {"idle", "notify", "dropped"}]
        BY <2>21, GotoKept DEF DropFuture, InFlight
      <3>6. QED
        BY <2>21, <3>1, <3>2, <3>4, <3>5 DEF DropFuture, TypeOK
    <2>22. ASSUME NEW w \in Waiters, WaitForIdle(w) \/ WaitCheck(w) \/ WaitSleep(w) \/ WaitWake(w)
          PROVE  TypeOK'
      BY <2>22 DEF WaitForIdle, WaitCheck, WaitSleep, WaitWake, TypeOK
    <2>23. ASSUME Steer \/ FollowUp
           PROVE  TypeOK'
      <3>1. /\ SubmittedBy("steer") \in Message
            /\ SubmittedBy("followUp") \in Message
            /\ lastId + 1 \in 0 .. MaxMsgs
        BY <2>23, SubmittedTypes DEF Steer, FollowUp, TypeOK
      <3>2. steering' \in Seq(Message) /\ followUp' \in Seq(Message)
        <4>1. CASE Steer
          BY <3>1, <4>1 DEF Steer, TypeOK
        <4>2. CASE FollowUp
          BY <3>1, <4>2 DEF FollowUp, TypeOK
        <4>3. QED
          BY <2>23, <4>1, <4>2
      <3>3. lastId' \in 0 .. MaxMsgs
        BY <2>23, <3>1 DEF Steer, FollowUp
      <3>4. QED
        BY <2>23, <3>2, <3>3 DEF Steer, FollowUp, TypeOK
    <2>24. ASSUME Abort
           PROVE  TypeOK'
      <3>1. activeToken \in 1 .. MaxRuns
        BY <2>24, Bounds DEF Abort, TypeOK
      <3>2. cancelled' \subseteq 1 .. MaxRuns
        BY <2>24, <3>1 DEF Abort, TypeOK
      <3>3. QED
        BY <2>24, <3>2 DEF Abort, TypeOK
    <2>25. ASSUME Edit
           PROVE  edits' \in 0 .. MaxEdits
      <3>1. edits < MaxEdits /\ edits' = edits + 1
        BY <2>25 DEF Edit
      <3>2. edits \in 0 .. MaxEdits
        BY DEF TypeOK
      <3>3. QED
        BY <3>1, <3>2, Bounds, OneMore
    <2>26. ASSUME EditMessages
           PROVE  TypeOK'
      BY <2>25, <2>26 DEF EditMessages, Edit, TypeOK
    <2>27. ASSUME SetMode
           PROVE  TypeOK'
      <3>1. mode' \in [{"steering", "followUp"} -> QueueMode]
        BY <2>27 DEF SetMode, TypeOK
      <3>2. QED
        BY <2>25, <2>27, <3>1 DEF SetMode, Edit, TypeOK
    <2>28. ASSUME ClearSteering \/ ClearFollowUps
           PROVE  /\ steering' \in Seq(Message)
                  /\ followUp' \in Seq(Message)
                  /\ mode' \in [{"steering", "followUp"} -> QueueMode]
                  /\ delivered' \in Seq(Message)
                  /\ lost' \subseteq 1 .. MaxMsgs
                  /\ lastId' \in 0 .. MaxMsgs
      <3>1. /\ IdsOf(steering) \subseteq 1 .. MaxMsgs
            /\ IdsOf(followUp) \subseteq 1 .. MaxMsgs
        BY DrainTypes DEF TypeOK
      <3>2. lost' \subseteq 1 .. MaxMsgs
        <4>1. \/ lost' = lost \cup IdsOf(steering)
              \/ lost' = lost \cup IdsOf(followUp)
          BY <2>28 DEF ClearSteering, ClearFollowUps
        <4>2. lost \subseteq 1 .. MaxMsgs
          BY DEF TypeOK
        <4>3. QED
          BY <3>1, <4>1, <4>2
      <3>3. /\ <<>> \in Seq(Message) /\ steering \in Seq(Message)
            /\ followUp \in Seq(Message) /\ delivered \in Seq(Message)
            /\ mode \in [{"steering", "followUp"} -> QueueMode]
            /\ lastId \in 0 .. MaxMsgs
        BY DEF TypeOK
      <3>4. /\ steering' \in {steering, <<>>} /\ followUp' \in {followUp, <<>>}
            /\ mode' = mode /\ delivered' = delivered /\ lastId' = lastId
        BY <2>28 DEF ClearSteering, ClearFollowUps
      <3>5. QED
        BY <3>2, <3>3, <3>4
    <2>29. ASSUME ClearOneQueue
           PROVE  TypeOK'
      BY <2>25, <2>28, <2>29 DEF ClearOneQueue, Edit, TypeOK
    <2>30. ASSUME Reset
           PROVE  TypeOK'
      <3>1. /\ isStreaming' \in BOOLEAN
            /\ tail' \in Role
            /\ resetPc' \in {"idle", "steering", "followUp"}
        BY <2>30 DEF Reset, TypeOK, Role
      <3>2. QED
        BY <2>25, <2>30, <3>1 DEF Reset, Edit, TypeOK
    <2>31. ASSUME ResetQueues
           PROVE  TypeOK'
      BY <2>28, <2>31 DEF ResetQueues, TypeOK
    <2>33. QED
      BY <2>1, <2>2, <2>3, <2>4, <2>5, <2>6, <2>7, <2>8, <2>9, <2>10, <2>11, <2>12,
         <2>13, <2>14, <2>15, <2>16, <2>17, <2>18, <2>19, <2>20, <2>32, <2>21, <2>22,
         <2>23, <2>24, <2>26, <2>27, <2>29, <2>30, <2>31, NextCases
  <1>3. QED
    BY <1>1, <1>2, PTL DEF Spec

-----------------------------------------------------------------------------
(***************************************************************************)
(* One run at a time.  The invariant is inductive once types are known: a  *)
(* caller enters a run only through an empty slot, which no run in flight  *)
(* leaves empty, and leaves it with the slot or with its future.           *)
(***************************************************************************)

(* A step of one caller inside its run, which keeps its token.             *)
LEMMA MoveKeepsOwner ==
  ASSUME TypeOK, OneRunAtATime, NEW c \in Callers,
         pc[c] \in InFlight,
         activeToken' = activeToken,
         \A d \in Callers : d # c => pc'[d] = pc[d] /\ run'[d] = run[d],
         pc'[c] \in InFlight => run'[c].token = run[c].token
  PROVE  OneRunAtATime'
  BY DEF OneRunAtATime

(* A step after which no caller is in flight that was not, and none has    *)
(* another token.                                                          *)
LEMMA RestKeepsOwner ==
  ASSUME OneRunAtATime, activeToken' = activeToken,
         \A d \in Callers : pc'[d] \in InFlight =>
           pc[d] \in InFlight /\ run'[d].token = run[d].token
  PROVE  OneRunAtATime'
  BY DEF OneRunAtATime

(* A caller that finds the slot empty takes it.                            *)
LEMMA AcquireMakesOwner ==
  ASSUME TypeOK, OneRunAtATime, NEW c \in Callers, Acquire(c),
         NEW l \in InFlight, Goto(c, l),
         NEW r, r.token = activeToken', Locals(c, r)
  PROVE  OneRunAtATime'
  <1>1. \A d \in Callers : pc[d] \notin InFlight
    BY DEF OneRunAtATime, Acquire
  <1>2. activeToken' # 0
    BY DEF Acquire, TypeOK
  <1>3. \A d \in Callers : d # c => pc'[d] = pc[d]
    BY DEF Goto, TypeOK
  <1>4. run'[c].token = activeToken'
    BY DEF Locals, TypeOK
  <1>5. QED
    BY <1>1, <1>2, <1>3, <1>4 DEF OneRunAtATime

(* The same for a step that is written with Goto and Locals.               *)
LEMMA GotoLocals ==
  ASSUME TypeOK, NEW c \in Callers
  PROVE  /\ \A l : Goto(c, l) => /\ pc'[c] = l
                                /\ \A d \in Callers : d # c => pc'[d] = pc[d]
         /\ \A r : Locals(c, r) => /\ run'[c] = r
                                  /\ \A d \in Callers : d # c => run'[d] = run[d]
  BY DEF Goto, Locals, TypeOK

(* A run in flight takes its locals with it, token included.               *)
LEMMA TokenKept ==
  ASSUME TypeOK, NEW c \in Callers,
         \/ InspectLastMessage(c) \/ DrainSteering(c) \/ DrainFollowUp(c)
         \/ Setup(c) \/ Snapshot(c) \/ EmitMessage(c) \/ AllEmitted(c)
         \/ PollSteering(c) \/ Respond(c) \/ ToolResults(c) \/ PollFollowUp(c)
         \/ AgentEnd(c) \/ RunError(c) \/ EmitRunFailure(c) \/ ReportFails(c)
         \/ Settle(c)
  PROVE  /\ pc[c] \in InFlight
         /\ activeToken' = activeToken
         /\ \A d \in Callers : d # c => pc'[d] = pc[d] /\ run'[d] = run[d]
         /\ run'[c].token = run[c].token
  <1> USE DEF token
  <1>1. run[c] \in RunLocals
    BY DEF TypeOK
  <1>2. CASE InspectLastMessage(c)
    <2>1. [run[c] EXCEPT !.cont = TRUE].token = run[c].token
      BY <1>1 DEF RunLocals
    <2>2. QED
      BY <1>2, <2>1, GotoLocals DEF InspectLastMessage, InFlight
  <1>3. CASE DrainSteering(c)
    <2>1. SteeredRun(run[c], Drained(steering, mode["steering"])).token = run[c].token
      BY <1>1 DEF SteeredRun, RunLocals
    <2>2. QED
      BY <1>3, <2>1, GotoLocals DEF DrainSteering, InFlight
  <1>4. CASE DrainFollowUp(c)
    <2> DEFINE r == [run[c] EXCEPT !.pending = Drained(followUp, mode["followUp"])]
    <2>1. r.token = run[c].token
      BY <1>1 DEF RunLocals
    <2>2. Locals(c, r)
      BY <1>4 DEF DrainFollowUp
    <2> HIDE DEF r
    <2>3. pc[c] \in InFlight /\ activeToken' = activeToken /\ \E l : Goto(c, l)
      BY <1>4 DEF DrainFollowUp, InFlight
    <2>4. QED
      BY <2>1, <2>2, <2>3, GotoLocals
  <1>5. CASE \/ Setup(c) \/ AllEmitted(c) \/ AgentEnd(c) \/ EmitRunFailure(c)
             \/ ReportFails(c) \/ Settle(c)
    BY <1>1, <1>5, GotoLocals
       DEF Setup, AllEmitted, AgentEnd, EmitRunFailure, ReportFails, Settle, InFlight
  <1>6. CASE Snapshot(c)
    <2> DEFINE r == [run[c] EXCEPT !.ctx = IF run[c].pending = <<>> THEN tail ELSE "other",
                            !.more = TRUE]
    <2>1. r.token = run[c].token
      BY <1>1 DEF RunLocals
    <2>2. Locals(c, r)
      BY <1>6 DEF Snapshot
    <2> HIDE DEF r
    <2>3. pc[c] \in InFlight /\ activeToken' = activeToken /\ \E l : Goto(c, l)
      BY <1>6 DEF Snapshot, InFlight
    <2>4. QED
      BY <2>1, <2>2, <2>3, GotoLocals
  <1>7. CASE EmitMessage(c)
    <2> DEFINE r == [run[c] EXCEPT !.pending = Tail(@), !.ctx = "other"]
    <2>1. r.token = run[c].token
      BY <1>1 DEF RunLocals
    <2>2. Locals(c, r)
      BY <1>7 DEF EmitMessage
    <2> HIDE DEF r
    <2>3. pc[c] \in InFlight /\ activeToken' = activeToken /\ pc' = pc
      BY <1>7 DEF EmitMessage, InFlight
    <2>4. QED
      BY <2>1, <2>2, <2>3, GotoLocals
  <1>8. CASE PollSteering(c)
    <2> DEFINE got == IF run[c].skip THEN <<>> ELSE Drained(steering, mode["steering"])
               r == [run[c] EXCEPT !.pending = got, !.skip = FALSE,
                       !.batches = IF got = <<>> THEN @ ELSE @ + 1]
    <2>1. r.token = run[c].token
      <3> HIDE DEF got
      <3> QED BY <1>1 DEF RunLocals
    <2>2. Locals(c, r)
      BY <1>8 DEF PollSteering
    <2> HIDE DEF r
    <2>3. pc[c] \in InFlight /\ activeToken' = activeToken /\ \E l : Goto(c, l)
      BY <1>8 DEF PollSteering, InFlight
    <2>4. QED
      BY <2>1, <2>2, <2>3, GotoLocals
  <1>9. CASE Respond(c)
    <2>1. \A outcome :
            [run[c] EXCEPT !.ctx = "assistant", !.batches = 0, !.more = FALSE,
               !.turns = IF outcome = "toolUse" THEN @ + 1 ELSE @].token = run[c].token
      BY <1>1 DEF RunLocals
    <2>2. PICK r : Locals(c, r) /\ r.token = run[c].token
      BY <1>9, <2>1 DEF Respond
    <2>3. pc[c] \in InFlight /\ activeToken' = activeToken /\ \E l : Goto(c, l)
      BY <1>9 DEF Respond, InFlight
    <2>4. QED
      BY <2>2, <2>3, GotoLocals
  <1>10. CASE ToolResults(c)
    <2>1. \A terminate :
            [run[c] EXCEPT !.ctx = "other", !.more = ~terminate].token = run[c].token
      BY <1>1 DEF RunLocals
    <2>2. PICK r : Locals(c, r) /\ r.token = run[c].token
      BY <1>10, <2>1 DEF ToolResults
    <2>3. pc[c] \in InFlight /\ activeToken' = activeToken /\ \E l : Goto(c, l)
      BY <1>10 DEF ToolResults, InFlight
    <2>4. QED
      BY <2>2, <2>3, GotoLocals
  <1>11. CASE PollFollowUp(c)
    <2> DEFINE r == [run[c] EXCEPT !.pending = Drained(followUp, mode["followUp"]),
                            !.more = TRUE]
    <2>1. r.token = run[c].token
      BY <1>1 DEF RunLocals
    <2>2. Locals(c, r)
      BY <1>11 DEF PollFollowUp
    <2> HIDE DEF r
    <2>3. pc[c] \in InFlight /\ activeToken' = activeToken /\ \E l : Goto(c, l)
      BY <1>11 DEF PollFollowUp, InFlight
    <2>4. QED
      BY <2>1, <2>2, <2>3, GotoLocals
  <1>12. CASE RunError(c)
    <2> DEFINE r == [run[c] EXCEPT !.pending = <<>>]
    <2>1. r.token = run[c].token
      BY <1>1 DEF RunLocals
    <2>2. Locals(c, r)
      BY <1>12 DEF RunError
    <2> HIDE DEF r
    <2>3. pc[c] \in InFlight /\ activeToken' = activeToken /\ \E l : Goto(c, l)
      BY <1>12 DEF RunError, InFlight
    <2>4. QED
      BY <2>1, <2>2, <2>3, GotoLocals
  <1>13. QED
    BY <1>2, <1>3, <1>4, <1>5, <1>6, <1>7, <1>8, <1>9, <1>10, <1>11, <1>12

(* acquire_active_token admits one run at a time, for any number of        *)
(* callers, and the run in flight owns the token in the slot.              *)
THEOREM OneRun == Spec => []OneRunAtATime
  <1>1. Init => OneRunAtATime
    BY DEF Init, OneRunAtATime, InFlight
  <1>2. TypeOK /\ OneRunAtATime /\ [Next]_vars => OneRunAtATime'
    <2> SUFFICES ASSUME TypeOK, OneRunAtATime, [Next]_vars
                 PROVE  OneRunAtATime'
      OBVIOUS
    <2> USE DEF token
    <2>1. CASE UNCHANGED vars
      BY <2>1, RestKeepsOwner DEF vars
    <2>2. ASSUME NEW c \in Callers, PromptMessages(c)
          PROVE  OneRunAtATime'
      <3>1. [NoLocals EXCEPT !.token = activeToken',
                             !.pending = <<SubmittedBy("prompt")>>].token = activeToken'
        BY DEF NoLocals
      <3>2. QED
        BY <2>2, <3>1, AcquireMakesOwner DEF PromptMessages, InFlight
    <2>3. ASSUME NEW c \in Callers, ContinueRun(c)
          PROVE  OneRunAtATime'
      <3>1. [NoLocals EXCEPT !.token = activeToken'].token = activeToken'
        BY DEF NoLocals
      <3>2. QED
        BY <2>3, <3>1, AcquireMakesOwner DEF ContinueRun, InFlight
    <2>4. ASSUME NEW c \in Callers,
                 \/ InspectLastMessage(c) \/ DrainSteering(c) \/ DrainFollowUp(c)
                 \/ Setup(c) \/ Snapshot(c) \/ EmitMessage(c) \/ AllEmitted(c)
                 \/ PollSteering(c) \/ Respond(c) \/ ToolResults(c)
                 \/ PollFollowUp(c) \/ AgentEnd(c) \/ RunError(c)
                 \/ EmitRunFailure(c) \/ ReportFails(c) \/ Settle(c)
          PROVE  OneRunAtATime'
      BY <2>4, TokenKept, MoveKeepsOwner
    <2>5. ASSUME NEW c \in Callers, ClearActiveToken(c)
          PROVE  OneRunAtATime'
      <3>1. pc[c] \in InFlight
        BY <2>5 DEF ClearActiveToken, InFlight
      <3>2. \A d \in Callers : pc'[d] \notin InFlight
        BY <2>5, <3>1, GotoLocals DEF ClearActiveToken, OneRunAtATime, InFlight
      <3>3. QED
        BY <3>2 DEF OneRunAtATime
    <2>6. ASSUME NEW c \in Callers, NotifyWaiters(c)
          PROVE  OneRunAtATime'
      <3>1. \A d \in Callers : pc'[d] \in InFlight => pc[d] \in InFlight
        BY <2>6, GotoLocals DEF NotifyWaiters, InFlight
      <3>2. QED
        BY <2>6, <3>1, RestKeepsOwner DEF NotifyWaiters
    <2>7. ASSUME NEW c \in Callers, DropFuture(c)
          PROVE  OneRunAtATime'
      <3>1. pc'[c] \notin InFlight
        BY <2>7, GotoLocals DEF DropFuture, InFlight
      <3>2. QED
        BY <2>7, <3>1, GotoLocals, MoveKeepsOwner DEF DropFuture
    <2>8. ASSUME \/ \E w \in Waiters : WaitForIdle(w) \/ WaitCheck(w) \/ WaitSleep(w) \/ WaitWake(w)
                 \/ Steer \/ FollowUp \/ Abort \/ EditMessages \/ SetMode
                 \/ ClearOneQueue \/ Reset \/ ResetQueues
          PROVE  OneRunAtATime'
      <3>1. UNCHANGED <<activeToken, pc, run>>
        BY <2>8 DEF WaitForIdle, WaitCheck, WaitSleep, WaitWake, Steer, FollowUp, Abort,
                    EditMessages, SetMode, ClearOneQueue, Reset, ResetQueues
      <3>2. QED
        BY <3>1, RestKeepsOwner
    <2>9. QED
      BY <2>1, <2>2, <2>3, <2>4, <2>5, <2>6, <2>7, <2>8, NextCases
  <1>3. QED
    BY <1>1, <1>2, TypeCorrect, PTL DEF Spec

-----------------------------------------------------------------------------
(***************************************************************************)
(* An idle agent is not streaming.  That alone is not inductive: the step  *)
(* that empties the slot needs is_streaming to be back already, and so do  *)
(* the ways to it that never set it up.                                    *)
(***************************************************************************)
NotStreaming == {"inspect", "drainSteering", "drainFollowUp", "setup", "clear"}

StreamingInv ==
  isStreaming => activeToken # 0 /\ \A c \in Callers : pc[c] \notin NotStreaming

(* A step that moves one caller, away from the points where is_streaming   *)
(* is already back, and neither sets is_streaming nor empties the slot.    *)
LEMMA MoveKeepsStreaming ==
  ASSUME TypeOK, StreamingInv, NEW c \in Callers, NEW l, l \notin NotStreaming, Goto(c, l),
         activeToken' = activeToken, isStreaming' = isStreaming
  PROVE  StreamingInv'
  BY GotoLocals DEF StreamingInv

(* is_streaming is put back before the token is, on every way out of a run.*)
THEOREM StreamingActive == Spec => []StreamingMeansActive
  <1>1. Init => StreamingInv
    BY DEF Init, StreamingInv
  <1>2. TypeOK /\ OneRunAtATime /\ StreamingInv /\ [Next]_vars => StreamingInv'
    <2> SUFFICES ASSUME TypeOK, OneRunAtATime, StreamingInv, [Next]_vars
                 PROVE  StreamingInv'
      OBVIOUS
    <2> USE DEF token
    <2>1. CASE UNCHANGED vars
      BY <2>1 DEF vars, StreamingInv
    <2>2. ASSUME NEW c \in Callers, PromptMessages(c) \/ ContinueRun(c)
          PROVE  StreamingInv'
      <3>1. ~isStreaming /\ isStreaming' = isStreaming
        BY <2>2 DEF PromptMessages, ContinueRun, Acquire, StreamingInv
      <3>2. QED
        BY <3>1 DEF StreamingInv
    <2>3. ASSUME NEW c \in Callers,
                 InspectLastMessage(c) \/ DrainSteering(c) \/ DrainFollowUp(c)
          PROVE  StreamingInv'
      <3>1. ~isStreaming /\ isStreaming' = isStreaming
        BY <2>3 DEF InspectLastMessage, DrainSteering, DrainFollowUp,
                    StreamingInv, NotStreaming
      <3>2. QED
        BY <3>1 DEF StreamingInv
    <2>4. ASSUME NEW c \in Callers, Setup(c)
          PROVE  StreamingInv'
      <3>1. pc[c] \in InFlight /\ activeToken' # 0
        BY <2>4 DEF Setup, OneRunAtATime, InFlight
      <3>2. \A d \in Callers : d # c => pc[d] \notin NotStreaming
        BY <3>1 DEF OneRunAtATime, InFlight, NotStreaming
      <3>3. pc'[c] = "snapshot" /\ \A d \in Callers : d # c => pc'[d] = pc[d]
        BY <2>4, GotoLocals DEF Setup
      <3>4. QED
        BY <3>1, <3>2, <3>3 DEF StreamingInv, NotStreaming
    <2>5. ASSUME NEW c \in Callers,
                 \/ Snapshot(c) \/ AllEmitted(c) \/ PollSteering(c) \/ Respond(c)
                 \/ ToolResults(c) \/ PollFollowUp(c) \/ AgentEnd(c)
                 \/ EmitRunFailure(c) \/ NotifyWaiters(c)
                 \/ RunError(c) \/ ReportFails(c) \/ DropFuture(c)
          PROVE  StreamingInv'
      <3>1. PICK l : l \notin NotStreaming /\ Goto(c, l)
        BY <2>5 DEF Snapshot, AllEmitted, PollSteering, Respond, ToolResults,
                    PollFollowUp, AgentEnd, EmitRunFailure, NotifyWaiters,
                    RunError, ReportFails, DropFuture, NotStreaming
      <3>2. activeToken' = activeToken /\ isStreaming' = isStreaming
        BY <2>5 DEF Snapshot, AllEmitted, PollSteering, Respond, ToolResults,
                    PollFollowUp, AgentEnd, EmitRunFailure, NotifyWaiters,
                    RunError, ReportFails, DropFuture
      <3>3. QED
        BY <3>1, <3>2, MoveKeepsStreaming
    <2>6. ASSUME NEW c \in Callers, Settle(c)
          PROVE  StreamingInv'
      BY <2>6 DEF Settle, StreamingInv
    <2>7. ASSUME NEW c \in Callers, ClearActiveToken(c)
          PROVE  StreamingInv'
      <3>1. ~isStreaming /\ isStreaming' = isStreaming
        BY <2>7 DEF ClearActiveToken, StreamingInv, NotStreaming
      <3>2. QED
        BY <3>1 DEF StreamingInv
    <2>8. ASSUME \/ \E c \in Callers : EmitMessage(c)
                 \/ \E w \in Waiters : WaitForIdle(w) \/ WaitCheck(w) \/ WaitSleep(w) \/ WaitWake(w)
                 \/ Steer \/ FollowUp \/ Abort \/ EditMessages \/ SetMode
                 \/ ClearOneQueue \/ Reset \/ ResetQueues
          PROVE  StreamingInv'
      <3>1. /\ UNCHANGED <<activeToken, pc>>
            /\ isStreaming' = isStreaming \/ isStreaming' = FALSE
        BY <2>8 DEF EmitMessage, WaitForIdle, WaitCheck, WaitSleep, WaitWake, Steer, FollowUp,
                    Abort, EditMessages, SetMode, ClearOneQueue, Reset, ResetQueues
      <3>2. QED
        BY <3>1 DEF StreamingInv
    <2>9. QED
      BY <2>1, <2>2, <2>3, <2>4, <2>5, <2>6, <2>7, <2>8, NextCases
  <1>3. StreamingInv => StreamingMeansActive
    BY DEF StreamingInv, StreamingMeansActive
  <1>4. QED
    BY <1>1, <1>2, <1>3, TypeCorrect, OneRun, PTL DEF Spec

-----------------------------------------------------------------------------
(* What one run sends to the provider: the steering batches a request      *)
(* carries and the tail of the context it continues.  Both invariants      *)
(* follow the run's own locals, so another caller's steps never disturb    *)
(* them.                                                                   *)

(* At each control point, what a request sent from there may still hold.   *)
BatchesAt(l, r) ==
  /\ l \in {"inspect", "drainSteering", "drainFollowUp", "tools"} => r.batches = 0
  /\ l \in {"setup", "snapshot", "prompts", "pollSteering"} =>
       r.batches = 0 \/ (r.batches = 1 /\ r.skip)
  /\ l \in {"inject", "respond", "pollFollowUp"} => r.batches <= 1

TailAt(l, r) ==
  r.cont => /\ l \in {"prompts", "respond"} => r.ctx = "other"
            /\ l = "pollSteering" /\ r.more => r.ctx = "other"
            /\ l = "inject" => r.ctx = "other" \/ r.pending # <<>>

RequestInv ==
  \A c \in Callers : BatchesAt(pc[c], run[c]) /\ TailAt(pc[c], run[c])

(* A step of one caller to a control point that suits its new locals.      *)
LEMMA MoveKeepsRequest ==
  ASSUME TypeOK, RequestInv, NEW c \in Callers,
         \A d \in Callers : d # c => pc'[d] = pc[d] /\ run'[d] = run[d],
         BatchesAt(pc'[c], run'[c]), TailAt(pc'[c], run'[c])
  PROVE  RequestInv'
  BY DEF RequestInv

(* Away from the points that either invariant names, nothing is asked.     *)
LEMMA ElsewhereFine ==
  ASSUME NEW r, NEW l \in {"agentEnd", "failure", "settle", "clear", "notify",
                           "idle", "dropped"}
  PROVE  BatchesAt(l, r) /\ TailAt(l, r)
  BY DEF BatchesAt, TailAt

(* A drained queue that held something yields something.                   *)
LEMMA DrainedSomething ==
  ASSUME NEW q \in Seq(Message), NEW m, q # <<>>
  PROVE  Drained(q, m) # <<>>
  BY DEF Drained

(* Both invariants hold throughout.                                        *)
LEMMA RequestInvHolds == Spec => []RequestInv
  <1>1. Init => RequestInv
    BY ElsewhereFine DEF Init, RequestInv
  <1>2. TypeOK /\ RequestInv /\ [Next]_vars => RequestInv'
    <2> SUFFICES ASSUME TypeOK, RequestInv, [Next]_vars
                 PROVE  RequestInv'
      OBVIOUS
    <2>0. ASSUME NEW c \in Callers
          PROVE  /\ run[c] \in RunLocals
                 /\ BatchesAt(pc[c], run[c])
                 /\ TailAt(pc[c], run[c])
      BY DEF TypeOK, RequestInv
    <2>1. CASE UNCHANGED vars
      BY <2>1 DEF vars, RequestInv
    <2>2. ASSUME NEW c \in Callers, PromptMessages(c)
          PROVE  RequestInv'
      <3> DEFINE r == [NoLocals EXCEPT !.token = activeToken',
                                       !.pending = <<SubmittedBy("prompt")>>]
      <3>1. r.batches = 0 /\ ~r.cont
        BY DEF NoLocals
      <3>2. Locals(c, r) /\ Goto(c, "setup")
        BY <2>2 DEF PromptMessages
      <3> HIDE DEF r
      <3>3. QED
        BY <3>1, <3>2, GotoLocals, MoveKeepsRequest DEF BatchesAt, TailAt
    <2>3. ASSUME NEW c \in Callers, ContinueRun(c)
          PROVE  RequestInv'
      <3> DEFINE r == [NoLocals EXCEPT !.token = activeToken']
      <3>1. r.batches = 0 /\ ~r.cont
        BY DEF NoLocals
      <3>2. Locals(c, r) /\ Goto(c, "inspect")
        BY <2>3 DEF ContinueRun
      <3> HIDE DEF r
      <3>3. QED
        BY <3>1, <3>2, GotoLocals, MoveKeepsRequest DEF BatchesAt, TailAt
    <2>4. ASSUME NEW c \in Callers, InspectLastMessage(c)
          PROVE  RequestInv'
      <3> DEFINE r == [run[c] EXCEPT !.cont = TRUE]
      <3>1. r.batches = run[c].batches /\ run[c].batches = 0
        BY <2>0, <2>4 DEF InspectLastMessage, RunLocals, BatchesAt
      <3> HIDE DEF r
      <3>2. \/ Goto(c, "clear") /\ run' = run
            \/ Goto(c, "drainSteering") /\ run' = run
            \/ Goto(c, "setup") /\ Locals(c, r)
        BY <2>4 DEF InspectLastMessage, r
      <3>3. QED
        BY <3>1, <3>2, GotoLocals, MoveKeepsRequest DEF BatchesAt, TailAt
    <2>5. ASSUME NEW c \in Callers, DrainSteering(c)
          PROVE  RequestInv'
      <3> DEFINE r == SteeredRun(run[c], Drained(steering, mode["steering"]))
      <3>1. /\ r.batches = 1 /\ r.skip
            /\ run[c].batches = 0
        BY <2>0, <2>5 DEF DrainSteering, SteeredRun, RunLocals, BatchesAt
      <3>2. \/ Goto(c, "drainFollowUp") /\ run' = run
            \/ Goto(c, "setup") /\ Locals(c, r)
        BY <2>5 DEF DrainSteering
      <3> HIDE DEF r
      <3>3. QED
        BY <3>1, <3>2, GotoLocals, MoveKeepsRequest DEF BatchesAt, TailAt
    <2>6. ASSUME NEW c \in Callers, DrainFollowUp(c)
          PROVE  RequestInv'
      <3> DEFINE r == [run[c] EXCEPT !.pending = Drained(followUp, mode["followUp"])]
      <3>1. r.batches = 0
        BY <2>0, <2>6 DEF DrainFollowUp, RunLocals, BatchesAt
      <3>2. Locals(c, r) /\ (Goto(c, "clear") \/ Goto(c, "setup"))
        BY <2>6 DEF DrainFollowUp
      <3> HIDE DEF r
      <3>3. QED
        BY <3>1, <3>2, GotoLocals, MoveKeepsRequest DEF BatchesAt, TailAt
    <2>7. ASSUME NEW c \in Callers, Setup(c)
          PROVE  RequestInv'
      <3>1. run[c].batches = 0 \/ (run[c].batches = 1 /\ run[c].skip)
        BY <2>0, <2>7 DEF Setup, BatchesAt
      <3>2. QED
        BY <2>7, <3>1, GotoLocals, MoveKeepsRequest DEF Setup, BatchesAt, TailAt
    <2>8. ASSUME NEW c \in Callers, Snapshot(c)
          PROVE  RequestInv'
      <3> DEFINE x == IF run[c].pending = <<>> THEN tail ELSE "other"
                 r == [run[c] EXCEPT !.ctx = x, !.more = TRUE]
                 l == IF run[c].cont /\ ~CanContinueFrom(tail) THEN "failure" ELSE "prompts"
      <3>1. /\ r.batches = run[c].batches
            /\ r.skip = run[c].skip
            /\ r.cont = run[c].cont
            /\ r.ctx = x
        <4> HIDE DEF x
        <4> QED BY <2>0 DEF RunLocals
      <3>2. r.batches = 0 \/ (r.batches = 1 /\ r.skip)
        BY <2>0, <2>8, <3>1 DEF Snapshot, BatchesAt
      <3>3. l = "prompts" /\ r.cont => r.ctx = "other"
        BY <3>1 DEF CanContinueFrom, TypeOK, Role
      <3>4. Locals(c, r) /\ Goto(c, l) /\ l \in {"failure", "prompts"}
        BY <2>8 DEF Snapshot
      <3> HIDE DEF r, l
      <3>5. BatchesAt(l, r) /\ TailAt(l, r)
        BY <3>2, <3>3, <3>4 DEF BatchesAt, TailAt
      <3>6. QED
        BY <3>4, <3>5, GotoLocals, MoveKeepsRequest
    <2>9. ASSUME NEW c \in Callers, EmitMessage(c)
          PROVE  RequestInv'
      <3> DEFINE r == [run[c] EXCEPT !.pending = Tail(@), !.ctx = "other"]
      <3>1. /\ r.batches = run[c].batches
            /\ r.skip = run[c].skip
            /\ r.ctx = "other"
        BY <2>0 DEF RunLocals
      <3>2. Locals(c, r) /\ pc' = pc /\ pc[c] \in {"prompts", "inject"}
        BY <2>9 DEF EmitMessage
      <3> HIDE DEF r
      <3>3. BatchesAt(pc[c], r) /\ TailAt(pc[c], r)
        BY <2>0, <3>1, <3>2 DEF BatchesAt, TailAt
      <3>4. QED
        BY <3>2, <3>3, GotoLocals, MoveKeepsRequest
    <2>10. ASSUME NEW c \in Callers, AllEmitted(c)
           PROVE  RequestInv'
      <3>1. PICK l \in {"pollSteering", "respond"} :
              /\ Goto(c, l)
              /\ l = "pollSteering" => pc[c] = "prompts"
              /\ l = "respond" => pc[c] = "inject"
        BY <2>10 DEF AllEmitted
      <3>2. run' = run /\ run[c].pending = <<>>
        BY <2>10 DEF AllEmitted
      <3>3. BatchesAt(l, run[c]) /\ TailAt(l, run[c])
        BY <2>0, <3>1, <3>2 DEF BatchesAt, TailAt
      <3>4. QED
        BY <3>1, <3>2, <3>3, GotoLocals, MoveKeepsRequest
    <2>11. ASSUME NEW c \in Callers, PollSteering(c)
           PROVE  RequestInv'
      <3> DEFINE got == IF run[c].skip THEN <<>> ELSE Drained(steering, mode["steering"])
                 n == IF got = <<>> THEN run[c].batches ELSE run[c].batches + 1
                 r == [run[c] EXCEPT !.pending = got, !.skip = FALSE, !.batches = n]
                 l == IF run[c].more \/ got # <<>> THEN "inject" ELSE "pollFollowUp"
      <3>1. /\ run[c].batches = 0 \/ (run[c].batches = 1 /\ run[c].skip)
            /\ run[c].cont /\ run[c].more => run[c].ctx = "other"
        BY <2>0, <2>11 DEF PollSteering, BatchesAt, TailAt
      <3>2. n <= 1
        BY <3>1
      <3>3. /\ r.batches = n
            /\ r.pending = got
            /\ r.cont = run[c].cont
            /\ r.ctx = run[c].ctx
        <4> HIDE DEF got, n
        <4> QED BY <2>0 DEF RunLocals
      <3>4. Locals(c, r) /\ Goto(c, l) /\ l \in {"inject", "pollFollowUp"}
        BY <2>11, <2>0 DEF PollSteering, RunLocals
      <3>5. BatchesAt(l, r) /\ TailAt(l, r)
        <4>1. l = "inject" => run[c].more \/ got # <<>>
          OBVIOUS
        <4> HIDE DEF got, n, r, l
        <4>2. QED
          BY <4>1, <3>1, <3>2, <3>3, <3>4 DEF BatchesAt, TailAt
      <3> HIDE DEF r, l
      <3>6. QED
        BY <3>4, <3>5, GotoLocals, MoveKeepsRequest
    <2>12. ASSUME NEW c \in Callers, Respond(c)
           PROVE  RequestInv'
      <3>1. \A o : LET r == [run[c] EXCEPT !.ctx = "assistant", !.batches = 0,
                               !.more = FALSE,
                               !.turns = IF o = "toolUse" THEN @ + 1 ELSE @]
                   IN  r.batches = 0 /\ ~r.more
        BY <2>0 DEF RunLocals
      <3>2. PICK r : Locals(c, r) /\ r.batches = 0 /\ ~r.more
        BY <2>12, <3>1 DEF Respond
      <3>3. PICK l \in {"pollSteering", "tools", "agentEnd"} : Goto(c, l)
        BY <2>12 DEF Respond
      <3>4. BatchesAt(l, r) /\ TailAt(l, r)
        BY <3>2, <3>3 DEF BatchesAt, TailAt
      <3>5. QED
        BY <3>2, <3>3, <3>4, GotoLocals, MoveKeepsRequest
    <2>13. ASSUME NEW c \in Callers, ToolResults(c)
           PROVE  RequestInv'
      <3>1. \A t : LET r == [run[c] EXCEPT !.ctx = "other", !.more = ~t]
                   IN  r.batches = run[c].batches /\ r.ctx = "other"
        BY <2>0 DEF RunLocals
      <3>2. PICK r : Locals(c, r) /\ r.batches = run[c].batches /\ r.ctx = "other"
        BY <2>13, <3>1 DEF ToolResults
      <3>3. run[c].batches = 0 /\ Goto(c, "pollSteering")
        BY <2>0, <2>13 DEF ToolResults, BatchesAt
      <3>4. QED
        BY <3>2, <3>3, GotoLocals, MoveKeepsRequest DEF BatchesAt, TailAt
    <2>14. ASSUME NEW c \in Callers, PollFollowUp(c)
           PROVE  RequestInv'
      <3> DEFINE got == Drained(followUp, mode["followUp"])
                 r == [run[c] EXCEPT !.pending = got, !.more = TRUE]
                 l == IF followUp = <<>> THEN "agentEnd" ELSE "inject"
      <3>1. l = "inject" => got # <<>>
        BY DrainedSomething DEF TypeOK
      <3>2. r.batches = run[c].batches /\ run[c].batches <= 1 /\ r.pending = got
        <4> HIDE DEF got
        <4> QED BY <2>0, <2>14 DEF PollFollowUp, RunLocals, BatchesAt
      <3>3. Locals(c, r) /\ Goto(c, l) /\ l \in {"agentEnd", "inject"}
        BY <2>14 DEF PollFollowUp
      <3> HIDE DEF got, r, l
      <3>4. BatchesAt(l, r) /\ TailAt(l, r)
        BY <3>1, <3>2, <3>3 DEF BatchesAt, TailAt
      <3>5. QED
        BY <3>3, <3>4, GotoLocals, MoveKeepsRequest
    <2>15. ASSUME NEW c \in Callers,
                  \/ AgentEnd(c) \/ EmitRunFailure(c) \/ Settle(c) \/ RunError(c)
                  \/ ReportFails(c)
                  \/ ClearActiveToken(c) \/ NotifyWaiters(c) \/ DropFuture(c)
           PROVE  RequestInv'
      <3>1. PICK l \in {"settle", "clear", "failure", "notify", "idle", "dropped"} :
              Goto(c, l)
        BY <2>15 DEF AgentEnd, EmitRunFailure, Settle, RunError, ReportFails,
                     ClearActiveToken, NotifyWaiters, DropFuture
      <3>2. \A d \in Callers : d # c => run'[d] = run[d]
        BY <2>15, GotoLocals DEF AgentEnd, EmitRunFailure, Settle, RunError,
                                 ReportFails, ClearActiveToken, NotifyWaiters, DropFuture
      <3>3. BatchesAt(l, run'[c]) /\ TailAt(l, run'[c])
        BY <3>1, ElsewhereFine
      <3>4. QED
        BY <3>1, <3>2, <3>3, GotoLocals, MoveKeepsRequest
    <2>16. ASSUME \/ \E w \in Waiters : WaitForIdle(w) \/ WaitCheck(w) \/ WaitSleep(w) \/ WaitWake(w)
                  \/ Steer \/ FollowUp \/ Abort \/ EditMessages \/ SetMode
                  \/ ClearOneQueue \/ Reset \/ ResetQueues
           PROVE  RequestInv'
      <3>1. UNCHANGED <<pc, run>>
        BY <2>16 DEF WaitForIdle, WaitCheck, WaitSleep, WaitWake, Steer, FollowUp, Abort,
                     EditMessages, SetMode, ClearOneQueue, Reset, ResetQueues
      <3>2. QED
        BY <3>1 DEF RequestInv
    <2>17. QED
      BY <2>1, <2>2, <2>3, <2>4, <2>5, <2>6, <2>7, <2>8, <2>9, <2>10, <2>11, <2>12,
         <2>13, <2>14, <2>15, <2>16, NextCases
  <1>3. QED
    BY <1>1, <1>2, TypeCorrect, PTL DEF Spec

(* skip_initial_steering_poll: a request carries one batch of steering     *)
(* messages at most, whatever the queue modes and the interleaving.        *)
THEOREM OneBatch == Spec => []OneSteeringBatchPerRequest
  <1>1. RequestInv => OneSteeringBatchPerRequest
    BY DEF RequestInv, OneSteeringBatchPerRequest, BatchesAt
  <1>2. QED
    BY <1>1, RequestInvHolds, PTL

(* The second check, on the snapshot, makes up for the gap between the     *)
(* look at the last message and the copy of the messages.                  *)
THEOREM ContinuesFromUser == Spec => []ContinuesFromUserTail
  <1>1. RequestInv => ContinuesFromUserTail
    BY DEF RequestInv, ContinuesFromUserTail, TailAt
  <1>2. QED
    BY <1>1, RequestInvHolds, PTL

-----------------------------------------------------------------------------
(***************************************************************************)
(* EachMessageOnce.  Four places can hold a message: a queue, the run in   *)
(* flight, the transcript and what was lost.  The invariant says that the  *)
(* ids 1 to lastId are split between them, that each place keeps the order *)
(* of its source, and that what was delivered comes before what the run    *)
(* holds and that before what is still queued.  The lemmas follow a        *)
(* message from place to place; the theorem reads the count off the split. *)
(***************************************************************************)
(* The messages of a queue, and the orders its messages can be in.         *)
Elems(q)     == {q[n] : n \in DOMAIN q}
Sorted(q)    == \A m, n \in DOMAIN q : m < n => q[m].id < q[n].id
Distinct(q)  == \A m, n \in DOMAIN q : q[m].id = q[n].id => m = n
AllBefore(Q, R) == \A x \in Q, y \in R : x.id < y.id
Like(x, y)   == x.via = y.via /\ x.via # "prompt"
Before(Q, R) == \A x \in Q, y \in R : Like(x, y) => x.id < y.id
InOrder(q)   == \A m, n \in DOMAIN q : m < n /\ Like(q[m], q[n]) => q[m].id < q[n].id
Ids(Q)       == {x.id : x \in Q}

(* The ids of a queue are those of its messages.                           *)
LEMMA IdsOfElems == \A q : IdsOf(q) = Ids(Elems(q))
  BY DEF IdsOf, Ids, Elems

(* A queue that is empty.                                                  *)
LEMMA NoElems == Elems(<<>>) = {} /\ Sorted(<<>>)
  BY DEF Elems, Sorted

(* A queue of one message.                                                 *)
LEMMA OneElem ==
  ASSUME NEW x
  PROVE  Elems(<<x>>) = {x} /\ Sorted(<<x>>)
  <1>1. DOMAIN <<x>> = {1} /\ <<x>>[1] = x
    OBVIOUS
  <1> QED
    BY <1>1 DEF Elems, Sorted

(* A message that comes after those of a queue is appended to it.          *)
LEMMA AppendElems ==
  ASSUME NEW q \in Seq(Message), NEW x \in Message
  PROVE  /\ Append(q, x) \in Seq(Message)
         /\ Elems(Append(q, x)) = Elems(q) \cup {x}
         /\ Sorted(q) /\ AllBefore(Elems(q), {x}) => Sorted(Append(q, x))
         /\ Distinct(q) /\ x.id \notin Ids(Elems(q)) => Distinct(Append(q, x))
         /\ InOrder(q) /\ Before(Elems(q), {x}) => InOrder(Append(q, x))
  <1> DEFINE r == Append(q, x)
  <1>1. /\ r \in Seq(Message) /\ Len(q) \in Nat /\ DOMAIN q = 1..Len(q)
        /\ DOMAIN r = 1..(Len(q) + 1) /\ r[Len(q) + 1] = x
        /\ \A n \in 1..Len(q) : r[n] = q[n]
    BY LenProperties, AppendProperties
  <1> HIDE DEF r
  <1>2. \A n \in DOMAIN r : n # Len(q) + 1 => n \in DOMAIN q
    BY <1>1
  <1>3. Elems(r) = Elems(q) \cup {x}
    BY <1>1, <1>2 DEF Elems
  <1>4. \A n \in DOMAIN q : q[n] \in Elems(q)
    BY DEF Elems
  <1>5. \A m, n \in DOMAIN r : m < n => m \in DOMAIN q /\ r[m] = q[m]
    BY <1>1
  <1>6. \A n \in DOMAIN r : r[n] = IF n \in DOMAIN q THEN q[n] ELSE x
    BY <1>1, <1>2
  <1>7. Sorted(q) /\ AllBefore(Elems(q), {x}) => Sorted(r)
    BY <1>4, <1>5, <1>6 DEF Sorted, AllBefore
  <1>8. InOrder(q) /\ Before(Elems(q), {x}) => InOrder(r)
    BY <1>4, <1>5, <1>6 DEF InOrder, Before
  <1>9. Distinct(q) /\ x.id \notin Ids(Elems(q)) => Distinct(r)
    <2> SUFFICES ASSUME Distinct(q), x.id \notin Ids(Elems(q)) PROVE Distinct(r)
      OBVIOUS
    <2>1. \A n \in DOMAIN q : q[n].id # x.id
      BY <1>4 DEF Ids
    <2>2. ASSUME NEW m \in DOMAIN r, NEW n \in DOMAIN r, r[m].id = r[n].id PROVE m = n
      <3>1. CASE m \in DOMAIN q /\ n \in DOMAIN q
        BY <1>6, <2>2, <3>1 DEF Distinct
      <3>2. CASE m \notin DOMAIN q /\ n \notin DOMAIN q
        BY <1>2, <3>2
      <3>3. CASE m \in DOMAIN q /\ n \notin DOMAIN q
        BY <1>6, <2>1, <2>2, <3>3
      <3>4. CASE m \notin DOMAIN q /\ n \in DOMAIN q
        BY <1>6, <2>1, <2>2, <3>4
      <3> QED
        BY <3>1, <3>2, <3>3, <3>4
    <2> QED
      BY <2>2 DEF Distinct
  <1> QED
    BY <1>1, <1>3, <1>7, <1>8, <1>9 DEF r

(* The head of a queue is taken.                                           *)
LEMMA TailElems ==
  ASSUME NEW q \in Seq(Message), q # <<>>
  PROVE  /\ Head(q) \in Message /\ Tail(q) \in Seq(Message)
         /\ Elems(q) = {Head(q)} \cup Elems(Tail(q))
         /\ Sorted(q) => Sorted(Tail(q)) /\ AllBefore({Head(q)}, Elems(Tail(q)))
  <1> DEFINE r == Tail(q)
  <1>1. /\ r \in Seq(Message) /\ Len(q) \in Nat /\ Len(q) >= 1 /\ DOMAIN q = 1..Len(q)
        /\ DOMAIN r = 1..(Len(q) - 1) /\ Head(q) = q[1] /\ Head(q) \in Message
        /\ \A n \in 1..(Len(q) - 1) : r[n] = q[n + 1]
    BY LenProperties, HeadTailProperties, EmptySeq
  <1> HIDE DEF r
  <1>2. PICK x : x = Head(q) /\ x = q[1] /\ 1 \in DOMAIN q
    BY <1>1
  <1>3. \A n \in DOMAIN r : n + 1 \in DOMAIN q /\ 1 < n + 1 /\ r[n] = q[n + 1]
    BY <1>1
  <1>4. \A n \in DOMAIN q : n # 1 => n - 1 \in DOMAIN r /\ r[n - 1] = q[n]
    BY <1>1
  <1>5. \A m, n \in DOMAIN r : m < n => m + 1 < n + 1
    BY <1>1
  <1>6. Elems(q) = {x} \cup Elems(r)
    <2>1. \A n \in DOMAIN q : q[n] = x \/ \E k \in DOMAIN r : r[k] = q[n]
      BY <1>2, <1>4
    <2>2. \A n \in DOMAIN r : \E k \in DOMAIN q : q[k] = r[n]
      BY <1>3
    <2> QED
      BY <1>2, <2>1, <2>2 DEF Elems
  <1>7. Sorted(q) => Sorted(r)
    BY <1>3, <1>5 DEF Sorted
  <1>8. Sorted(q) => AllBefore({x}, Elems(r))
    <2> SUFFICES ASSUME Sorted(q), NEW n \in DOMAIN r PROVE x.id < r[n].id
      BY DEF AllBefore, Elems
    <2> QED
      BY <1>2, <1>3 DEF Sorted
  <1> QED
    BY <1>1, <1>2, <1>6, <1>7, <1>8 DEF r

(* Draining splits a queue: what is taken comes before what is left.       *)
LEMMA DrainElems ==
  ASSUME NEW q \in Seq(Message), NEW m
  PROVE  /\ Drained(q, m) \in Seq(Message) /\ Kept(q, m) \in Seq(Message)
         /\ Elems(q) = Elems(Drained(q, m)) \cup Elems(Kept(q, m))
         /\ Sorted(q) => /\ Sorted(Drained(q, m)) /\ Sorted(Kept(q, m))
                         /\ AllBefore(Elems(Drained(q, m)), Elems(Kept(q, m)))
  <1>1. CASE m = "All" \/ q = <<>>
    BY <1>1, NoElems DEF Drained, Kept, AllBefore
  <1>2. CASE ~(m = "All" \/ q = <<>>)
    <2>1. PICK x \in Message : x = Head(q)
      BY <1>2, TailElems
    <2>2. Drained(q, m) = <<x>> /\ Kept(q, m) = Tail(q)
      BY <1>2, <2>1 DEF Drained, Kept
    <2>3. <<x>> \in Seq(Message)
      OBVIOUS
    <2>4. /\ Tail(q) \in Seq(Message) /\ Elems(q) = {x} \cup Elems(Tail(q))
          /\ Sorted(q) => Sorted(Tail(q)) /\ AllBefore({x}, Elems(Tail(q)))
      BY <1>2, <2>1, TailElems
    <2>5. Elems(<<x>>) = {x} /\ Sorted(<<x>>)
      BY OneElem
    <2> QED
      BY <2>2, <2>3, <2>4, <2>5
  <1> QED
    BY <1>1, <1>2

-----------------------------------------------------------------------------
(* The messages 1 to n are about once: S and F are the queues of messages  *)
(* sent via v and w, D what was delivered, H what a run holds, L what was  *)
(* lost.                                                                   *)
Once(S, v, F, w, D, H, L, n) ==
  /\ v # w
  /\ S \in Seq(Message) /\ F \in Seq(Message) /\ D \in Seq(Message) /\ H \in Seq(Message)
  /\ Ids(Elems(S)) \cap (Ids(Elems(F)) \cup Ids(Elems(D)) \cup Ids(Elems(H)) \cup L) = {}
  /\ Ids(Elems(F)) \cap (Ids(Elems(D)) \cup Ids(Elems(H)) \cup L) = {}
  /\ Ids(Elems(D)) \cap (Ids(Elems(H)) \cup L) = {}
  /\ Ids(Elems(H)) \cap L = {}
  /\ Ids(Elems(S)) \cup Ids(Elems(F)) \cup Ids(Elems(D)) \cup Ids(Elems(H)) \cup L = 1 .. n
  /\ Sorted(S) /\ Sorted(F) /\ Sorted(H) /\ Distinct(D) /\ InOrder(D)
  /\ \A x \in Elems(S) : x.via = v
  /\ \A x \in Elems(F) : x.via = w
  /\ Before(Elems(D), Elems(S)) /\ Before(Elems(D), Elems(F)) /\ Before(Elems(D), Elems(H))
  /\ Before(Elems(H), Elems(S)) /\ Before(Elems(H), Elems(F))

(* The queues can be named in either order.                                *)
LEMMA OnceEitherWay ==
  ASSUME NEW S, NEW v, NEW F, NEW w, NEW D, NEW H, NEW L, NEW n, Once(S, v, F, w, D, H, L, n)
  PROVE  Once(F, w, S, v, D, H, L, n)
  <1>1. /\ Ids(Elems(F)) \cap (Ids(Elems(S)) \cup Ids(Elems(D)) \cup Ids(Elems(H)) \cup L) = {}
        /\ Ids(Elems(S)) \cap (Ids(Elems(D)) \cup Ids(Elems(H)) \cup L) = {}
        /\ Ids(Elems(F)) \cup Ids(Elems(S)) \cup Ids(Elems(D)) \cup Ids(Elems(H)) \cup L = 1 .. n
    BY DEF Once
  <1> QED
    BY <1>1 DEF Once

(* Messages that are known come before the next one.                       *)
LEMMA KnownBefore ==
  ASSUME NEW n \in Nat, NEW Q, Q \subseteq Message, Ids(Q) \subseteq 1 .. n, NEW x, x.id = n + 1
  PROVE  AllBefore(Q, {x}) /\ Before(Q, {x}) /\ x.id \notin Ids(Q)
  <1>1. \A y \in Q : y.id \in 1 .. n
    BY DEF Ids
  <1> QED
    BY <1>1 DEF AllBefore, Before, Ids

(* One more message, one more id.                                          *)
LEMMA IdsWith ==
  ASSUME NEW Q, NEW x, NEW R, R = Q \cup {x}
  PROVE  Ids(R) = Ids(Q) \cup {x.id}
  BY DEF Ids

(* The ids of two sets of messages, of one message and of none.            *)
LEMMA IdsUnion ==
  /\ \A Q, R : Ids(Q \cup R) = Ids(Q) \cup Ids(R)
  /\ \A x : Ids({x}) = {x.id}
  /\ Ids({}) = {}
  BY DEF Ids

(* The messages of a queue are messages, with the ids of messages.         *)
LEMMA ElemsTyped == \A q \in Seq(Message) : Elems(q) \subseteq Message
  BY ElementOfSeq, LenProperties DEF Elems

(* A message is queued.                                                    *)
LEMMA OnceQueued ==
  ASSUME NEW S, NEW v, NEW F, NEW w, NEW D, NEW H, NEW L, NEW n \in Nat,
         Once(S, v, F, w, D, H, L, n),
         NEW x \in Message, x.id = n + 1, x.via = v
  PROVE  Once(Append(S, x), v, F, w, D, H, L, n + 1)
  <1>1. PICK T : T = Append(S, x)
    OBVIOUS
  <1>2. /\ S \in Seq(Message) /\ Elems(S) \subseteq Message /\ Elems(D) \subseteq Message
        /\ Elems(H) \subseteq Message
    BY ElemsTyped DEF Once
  <1>3. AllBefore(Elems(S), {x}) /\ Before(Elems(D), {x}) /\ Before(Elems(H), {x})
    BY <1>2, KnownBefore DEF Once
  <1>4. T \in Seq(Message) /\ Elems(T) = Elems(S) \cup {x} /\ Sorted(T)
    BY <1>1, <1>2, <1>3, AppendElems DEF Once
  <1>5. Ids(Elems(T)) = Ids(Elems(S)) \cup {n + 1}
    BY <1>4, IdsWith
  <1>6. Before(Elems(D), Elems(T)) /\ Before(Elems(H), Elems(T)) /\ \A y \in Elems(T) : y.via = v
    BY <1>3, <1>4 DEF Once, Before
  <1>7. 1 .. (n + 1) = (1 .. n) \cup {n + 1} /\ n + 1 \notin 1 .. n
    OBVIOUS
  <1>8. /\ Ids(Elems(T)) \cap (Ids(Elems(F)) \cup Ids(Elems(D)) \cup Ids(Elems(H)) \cup L) = {}
        /\ Ids(Elems(T)) \cup Ids(Elems(F)) \cup Ids(Elems(D)) \cup Ids(Elems(H)) \cup L
             = 1 .. (n + 1)
    BY <1>5, <1>7 DEF Once
  <1> QED
    BY <1>1, <1>4, <1>6, <1>8 DEF Once

(* A prompt is held by the run it starts.                                  *)
LEMMA OncePrompted ==
  ASSUME NEW S, NEW v, NEW F, NEW w, NEW D, NEW L, NEW n \in Nat,
         Once(S, v, F, w, D, <<>>, L, n),
         NEW x \in Message, x.id = n + 1, x.via = "prompt"
  PROVE  Once(S, v, F, w, D, <<x>>, L, n + 1)
  <1>1. PICK T : T = <<x>>
    OBVIOUS
  <1>2. T \in Seq(Message) /\ Elems(T) = {x} /\ Sorted(T) /\ Elems(<<>>) = {}
    BY <1>1, OneElem, NoElems
  <1>3. Ids(Elems(T)) = {n + 1} /\ Ids(Elems(<<>>)) = {}
    BY <1>2, IdsUnion
  <1>4. Before(Elems(D), Elems(T)) /\ Before(Elems(T), Elems(S)) /\ Before(Elems(T), Elems(F))
    BY <1>2 DEF Before, Like
  <1>5. 1 .. (n + 1) = (1 .. n) \cup {n + 1} /\ n + 1 \notin 1 .. n
    OBVIOUS
  <1>6. Ids(Elems(S)) \cup Ids(Elems(F)) \cup Ids(Elems(D)) \cup L = 1 .. n
    BY <1>3 DEF Once
  <1>7. /\ (Ids(Elems(S)) \cup Ids(Elems(F)) \cup Ids(Elems(D)) \cup L) \cap Ids(Elems(T)) = {}
        /\ Ids(Elems(S)) \cup Ids(Elems(F)) \cup Ids(Elems(D)) \cup Ids(Elems(T)) \cup L
             = 1 .. (n + 1)
    BY <1>3, <1>5, <1>6
  <1>8. /\ Ids(Elems(S)) \cap (Ids(Elems(F)) \cup Ids(Elems(D)) \cup Ids(Elems(T)) \cup L) = {}
        /\ Ids(Elems(F)) \cap (Ids(Elems(D)) \cup Ids(Elems(T)) \cup L) = {}
        /\ Ids(Elems(D)) \cap (Ids(Elems(T)) \cup L) = {}
        /\ Ids(Elems(T)) \cap L = {}
    BY <1>7 DEF Once
  <1> QED
    BY <1>1, <1>2, <1>4, <1>7, <1>8 DEF Once

(* A queue is drained by a run that holds nothing.                         *)
LEMMA OnceDrained ==
  ASSUME NEW S, NEW v, NEW F, NEW w, NEW D, NEW L, NEW n, Once(S, v, F, w, D, <<>>, L, n),
         NEW m
  PROVE  Once(Kept(S, m), v, F, w, D, Drained(S, m), L, n)
  <1>1. PICK T, G : T = Kept(S, m) /\ G = Drained(S, m)
    OBVIOUS
  <1>2. /\ T \in Seq(Message) /\ G \in Seq(Message) /\ Elems(S) = Elems(G) \cup Elems(T)
        /\ Sorted(G) /\ Sorted(T) /\ AllBefore(Elems(G), Elems(T))
    BY <1>1, DrainElems DEF Once
  <1>3. Ids(Elems(S)) = Ids(Elems(G)) \cup Ids(Elems(T))
    BY <1>2, IdsUnion
  <1>4. Elems(G) \subseteq Message /\ Elems(T) \subseteq Message
    BY <1>2, ElemsTyped
  <1>5. Ids(Elems(G)) \cap Ids(Elems(T)) = {}
    <2> SUFFICES ASSUME NEW x \in Elems(G), NEW y \in Elems(T), x.id = y.id PROVE FALSE
      BY DEF Ids
    <2>1. x.id \in Int /\ x.id < y.id
      BY <1>2, <1>4, AgentAssumption DEF AllBefore, Message
    <2> QED
      BY <2>1
  <1>6. Elems(<<>>) = {} /\ Ids(Elems(<<>>)) = {}
    BY NoElems, IdsUnion
  <1>7. Before(Elems(G), Elems(T))
    BY <1>2 DEF Before, AllBefore
  <1>8. /\ Before(Elems(D), Elems(T)) /\ Before(Elems(D), Elems(G))
        /\ \A x \in Elems(T) : x.via = v
    BY <1>2 DEF Once, Before
  <1>9. Before(Elems(G), Elems(F))
    <2>1. Elems(G) \subseteq Elems(S)
      BY <1>2
    <2>2. \A x \in Elems(G), y \in Elems(F) : ~Like(x, y)
      BY <2>1 DEF Once, Like
    <2> QED
      BY <2>2 DEF Before
  <1> QED
    BY <1>1, <1>2, <1>3, <1>5, <1>6, <1>7, <1>8, <1>9 DEF Once

(* The message at the head of what a run holds is delivered.               *)
LEMMA OnceEmitted ==
  ASSUME NEW S, NEW v, NEW F, NEW w, NEW D, NEW H, NEW L, NEW n, Once(S, v, F, w, D, H, L, n),
         H # <<>>
  PROVE  Once(S, v, F, w, Append(D, Head(H)), Tail(H), L, n)
  <1>1. PICK x, T, E : x = Head(H) /\ T = Tail(H) /\ E = Append(D, x)
    OBVIOUS
  <1>2. /\ x \in Message /\ T \in Seq(Message) /\ Elems(H) = {x} \cup Elems(T)
        /\ Sorted(T) /\ AllBefore({x}, Elems(T))
    BY <1>1, TailElems DEF Once
  <1>3. Ids(Elems(H)) = Ids(Elems(T)) \cup {x.id}
    <2>1. Elems(H) = Elems(T) \cup {x}
      BY <1>2
    <2> QED
      BY <2>1, IdsWith
  <1>4. x.id \notin Ids(Elems(D)) /\ Before(Elems(D), {x})
    BY <1>2, <1>3 DEF Once, Before
  <1>5. /\ E \in Seq(Message) /\ Elems(E) = Elems(D) \cup {x}
        /\ Distinct(E) /\ InOrder(E)
    BY <1>1, <1>2, <1>4, AppendElems DEF Once
  <1>6. Ids(Elems(E)) = Ids(Elems(D)) \cup {x.id}
    BY <1>5, IdsWith
  <1>7. x.id \notin Ids(Elems(T))
    <2> SUFFICES ASSUME NEW y \in Elems(T), x.id = y.id PROVE FALSE
      BY DEF Ids
    <2>1. x.id \in Int /\ x.id < y.id
      BY <1>2, AgentAssumption DEF AllBefore, Message
    <2> QED
      BY <2>1
  <1>8. Before(Elems(E), Elems(T)) /\ Before(Elems(E), Elems(S)) /\ Before(Elems(E), Elems(F))
    <2>1. Before(Elems(D), Elems(T)) /\ Before(Elems(D), Elems(S)) /\ Before(Elems(D), Elems(F))
      BY <1>2 DEF Once, Before
    <2>2. Before({x}, Elems(T)) /\ Before({x}, Elems(S)) /\ Before({x}, Elems(F))
      BY <1>2 DEF Once, Before, AllBefore
    <2> QED
      BY <1>5, <2>1, <2>2 DEF Before
  <1>9. Before(Elems(T), Elems(S)) /\ Before(Elems(T), Elems(F))
    BY <1>2 DEF Once, Before
  <1>10. /\ Ids(Elems(S)) \cap (Ids(Elems(F)) \cup Ids(Elems(E)) \cup Ids(Elems(T)) \cup L) = {}
         /\ Ids(Elems(F)) \cap (Ids(Elems(E)) \cup Ids(Elems(T)) \cup L) = {}
         /\ Ids(Elems(E)) \cap (Ids(Elems(T)) \cup L) = {}
         /\ Ids(Elems(T)) \cap L = {}
         /\ Ids(Elems(S)) \cup Ids(Elems(F)) \cup Ids(Elems(E)) \cup Ids(Elems(T)) \cup L = 1 .. n
    BY <1>3, <1>6, <1>7 DEF Once
  <1> QED
    BY <1>1, <1>2, <1>5, <1>8, <1>9, <1>10 DEF Once

(* What a run holds is lost with it.                                       *)
LEMMA OnceHeldLost ==
  ASSUME NEW S, NEW v, NEW F, NEW w, NEW D, NEW H, NEW L, NEW n, Once(S, v, F, w, D, H, L, n)
  PROVE  Once(S, v, F, w, D, <<>>, L \cup IdsOf(H), n)
  <1>1. PICK T, M : T = <<>> /\ M = L \cup Ids(Elems(H))
    OBVIOUS
  <1>2. T \in Seq(Message) /\ Elems(T) = {} /\ Ids(Elems(T)) = {} /\ Sorted(T)
    BY <1>1, NoElems, IdsUnion
  <1>3. Before(Elems(D), Elems(T)) /\ Before(Elems(T), Elems(S)) /\ Before(Elems(T), Elems(F))
    BY <1>2 DEF Before
  <1>4. Once(S, v, F, w, D, T, M, n)
    BY <1>1, <1>2, <1>3 DEF Once
  <1> QED
    BY <1>1, <1>4, IdsOfElems

(* A queue is cleared.                                                     *)
LEMMA OnceQueueLost ==
  ASSUME NEW S, NEW v, NEW F, NEW w, NEW D, NEW H, NEW L, NEW n, Once(S, v, F, w, D, H, L, n)
  PROVE  Once(<<>>, v, F, w, D, H, L \cup IdsOf(S), n)
  <1>1. PICK T, M : T = <<>> /\ M = L \cup Ids(Elems(S))
    OBVIOUS
  <1>2. T \in Seq(Message) /\ Elems(T) = {} /\ Ids(Elems(T)) = {} /\ Sorted(T)
    BY <1>1, NoElems, IdsUnion
  <1>3. Before(Elems(D), Elems(T)) /\ Before(Elems(H), Elems(T)) /\ \A x \in Elems(T) : x.via = v
    BY <1>2 DEF Before
  <1>4. Once(T, v, F, w, D, H, M, n)
    BY <1>1, <1>2, <1>3 DEF Once
  <1> QED
    BY <1>1, <1>4, IdsOfElems

(* Nothing has been sent yet.                                              *)
LEMMA OnceNothing == Once(<<>>, "steer", <<>>, "followUp", <<>>, <<>>, {}, 0)
  <1>1. PICK T : T = <<>>
    OBVIOUS
  <1>2. T \in Seq(Message) /\ Elems(T) = {} /\ Ids(Elems(T)) = {} /\ Sorted(T) /\ DOMAIN T = {}
    BY <1>1, NoElems, IdsUnion
  <1>3. Distinct(T) /\ InOrder(T) /\ Before({}, {})
    BY <1>2 DEF Distinct, InOrder, Before
  <1>4. 1 .. 0 = {}
    OBVIOUS
  <1> QED
    BY <1>1, <1>2, <1>3, <1>4 DEF Once

-----------------------------------------------------------------------------
(* Where a run holds messages that it has not emitted.                     *)
Holding  == {"setup", "snapshot", "prompts", "inject"}
Choosing == {"inspect", "drainSteering", "drainFollowUp"}

(* What the locals of a run at a control point may hold.                   *)
HoldsAt(l, r) ==
  /\ l \notin Holding => r.pending = <<>>
  /\ l \in Choosing => ~r.cont
  /\ l \in {"setup", "snapshot"} /\ r.cont => r.pending = <<>>

HoldInv == \A c \in Callers : HoldsAt(pc[c], run[c])

(* H is what the run in flight holds, and nothing when there is none.      *)
Holds(H) ==
  /\ \A c \in Callers : pc[c] \in InFlight => run[c].pending = H
  /\ (\A c \in Callers : pc[c] \notin InFlight) => H = <<>>

OnceIn(H) == Once(steering, "steer", followUp, "followUp", delivered, H, lost, lastId)

(* The inductive invariant.                                                *)
OnceInv == HoldInv /\ \E H : Holds(H) /\ OnceIn(H)

(* Only a run in flight holds messages.                                    *)
LEMMA HoldingInFlight == Holding \subseteq InFlight
  BY DEF Holding, InFlight

(* What the run in flight holds, and what it means that nobody is in       *)
(* flight.                                                                 *)
LEMMA HeldBy ==
  ASSUME OneRunAtATime, NEW H, Holds(H)
  PROVE  /\ \A c \in Callers : pc[c] \in InFlight => run[c].pending = H
         /\ activeToken = 0 => H = <<>>
  BY DEF OneRunAtATime, Holds

(* A step of one caller that is in flight, or that starts when nobody is.  *)
LEMMA CallerHolds ==
  ASSUME TypeOK, OneRunAtATime, HoldInv, NEW c \in Callers, NEW l, NEW r,
         pc[c] \in InFlight \/ activeToken = 0,
         pc' = [pc EXCEPT ![c] = l], run' = [run EXCEPT ![c] = r], HoldsAt(l, r)
  PROVE  HoldInv' /\ Holds(r.pending)'
  <1>1. /\ pc'[c] = l /\ run'[c] = r
        /\ \A d \in Callers : d # c => pc'[d] = pc[d] /\ run'[d] = run[d]
    BY DEF TypeOK
  <1>2. HoldInv'
    BY <1>1 DEF HoldInv
  <1>3. \A d \in Callers : d # c => pc'[d] \notin InFlight
    BY <1>1 DEF OneRunAtATime
  <1>4. l \notin InFlight => r.pending = <<>>
    BY HoldingInFlight DEF HoldsAt
  <1>5. \A d \in Callers : pc'[d] \in InFlight => run'[d].pending = r.pending
    BY <1>1, <1>3
  <1>6. (\A d \in Callers : pc'[d] \notin InFlight) => r.pending = <<>>
    BY <1>1, <1>4
  <1> QED
    BY <1>2, <1>5, <1>6 DEF Holds

(* A step that leaves every caller where it is.                            *)
LEMMA RestHolds ==
  ASSUME HoldInv, NEW H, Holds(H), pc' = pc, run' = run
  PROVE  HoldInv' /\ Holds(H)'
  BY DEF HoldInv, Holds

(* A step that leaves the messages where they are, in every queue.         *)
LEMMA MessagesKept ==
  ASSUME NEW H, OnceIn(H), HoldInv', Holds(H)',
         UNCHANGED <<steering, followUp, delivered, lost, lastId>>
  PROVE  OnceInv'
  BY DEF OnceInv, OnceIn

(* The invariant holds throughout: one step per action.                    *)
LEMMA OnceInvHolds == Spec => []OnceInv
  <1>1. Init => OnceInv
    <2> SUFFICES ASSUME Init PROVE OnceInv
      OBVIOUS
    <2>1. HoldInv
      BY DEF Init, HoldInv, HoldsAt, Holding, Choosing, NoLocals
    <2>2. OnceIn(<<>>)
      BY OnceNothing DEF Init, OnceIn
    <2>3. Holds(<<>>)
      BY DEF Init, Holds, InFlight
    <2> QED
      BY <2>1, <2>2, <2>3 DEF OnceInv
  <1>2. TypeOK /\ OneRunAtATime /\ OnceInv /\ [Next]_vars => OnceInv'
    <2> SUFFICES ASSUME TypeOK, OneRunAtATime, OnceInv, [Next]_vars
                 PROVE  OnceInv'
      OBVIOUS
    <2> USE DEF token, queues, sleep, hist, used
    <2>1. PICK H : Holds(H) /\ OnceIn(H)
      BY DEF OnceInv
    <2>2. /\ HoldInv /\ Once(steering, "steer", followUp, "followUp", delivered, H, lost, lastId)
          /\ Once(followUp, "followUp", steering, "steer", delivered, H, lost, lastId)
      BY <2>1, OnceEitherWay DEF OnceInv, OnceIn
    <2>3. ASSUME NEW c \in Callers
          PROVE  /\ run[c] \in RunLocals /\ HoldsAt(pc[c], run[c])
                 /\ pc[c] \in InFlight => run[c].pending = H
      BY <2>1, <2>2 DEF TypeOK, HoldInv, Holds
    <2>4. activeToken = 0 => H = <<>>
      BY <2>1, HeldBy
    <2>5. lastId \in Nat
      BY DEF TypeOK
    <2>6. CASE UNCHANGED vars
      BY <2>6, <2>1, <2>2, RestHolds, MessagesKept DEF vars
    <2>7. ASSUME NEW c \in Callers, PromptMessages(c)
          PROVE  OnceInv'
      <3>1. PICK x, r : /\ x = SubmittedBy("prompt")
                        /\ r = [NoLocals EXCEPT !.token = activeToken', !.pending = <<x>>]
        OBVIOUS
      <3>2. x \in Message /\ x.id = lastId + 1 /\ x.via = "prompt"
        BY <2>7, <3>1, SubmittedTypes DEF PromptMessages, TypeOK, SubmittedBy
      <3>3. r.pending = <<x>> /\ ~r.cont
        BY <3>1 DEF NoLocals
      <3>4. H = <<>> /\ activeToken = 0
        BY <2>4, <2>7 DEF PromptMessages, Acquire
      <3>5. Once(steering, "steer", followUp, "followUp", delivered, <<x>>, lost, lastId + 1)
        BY <2>2, <2>5, <3>2, <3>4, OncePrompted
      <3>6. HoldsAt("setup", r)
        BY <3>3 DEF HoldsAt, Holding, Choosing
      <3>7. HoldInv' /\ Holds(r.pending)'
        BY <2>2, <2>7, <3>1, <3>4, <3>6, CallerHolds DEF PromptMessages, Goto, Locals
      <3>8. OnceIn(r.pending)'
        BY <2>7, <3>3, <3>5 DEF PromptMessages, OnceIn
      <3> QED
        BY <3>7, <3>8 DEF OnceInv
    <2>8. ASSUME NEW c \in Callers, ContinueRun(c)
          PROVE  OnceInv'
      <3>1. PICK r : r = [NoLocals EXCEPT !.token = activeToken']
        OBVIOUS
      <3>2. r.pending = <<>> /\ ~r.cont
        BY <3>1 DEF NoLocals
      <3>3. H = <<>> /\ activeToken = 0
        BY <2>4, <2>8 DEF ContinueRun, Acquire
      <3>4. HoldsAt("inspect", r)
        BY <3>2 DEF HoldsAt
      <3>5. HoldInv' /\ Holds(r.pending)'
        BY <2>2, <2>8, <3>1, <3>3, <3>4, CallerHolds DEF ContinueRun, Goto, Locals
      <3> QED
        BY <2>1, <2>8, <3>2, <3>3, <3>5, MessagesKept DEF ContinueRun
    <2>9. ASSUME NEW c \in Callers, InspectLastMessage(c)
          PROVE  OnceInv'
      <3>1. PICK r : r = [run[c] EXCEPT !.cont = TRUE]
        OBVIOUS
      <3>2. pc[c] \in InFlight /\ run[c].pending = <<>> /\ ~run[c].cont /\ H = <<>>
        BY <2>3, <2>9 DEF InspectLastMessage, InFlight, HoldsAt, Holding, Choosing
      <3>3. r.pending = <<>>
        BY <2>3, <3>1, <3>2 DEF RunLocals
      <3>4. /\ HoldsAt("setup", r) /\ HoldsAt("clear", run[c]) /\ HoldsAt("drainSteering", run[c])
        BY <3>2, <3>3 DEF HoldsAt, Holding, Choosing
      <3>5. run = [run EXCEPT ![c] = run[c]]
        BY DEF TypeOK
      <3>6. PICK l, q : /\ pc' = [pc EXCEPT ![c] = l] /\ run' = [run EXCEPT ![c] = q]
                        /\ HoldsAt(l, q) /\ q.pending = <<>>
        BY <2>9, <3>1, <3>2, <3>3, <3>4, <3>5 DEF InspectLastMessage, Goto, Locals
      <3>7. HoldInv' /\ Holds(q.pending)'
        BY <2>2, <3>2, <3>6, CallerHolds
      <3> QED
        BY <2>1, <2>9, <3>2, <3>6, <3>7, MessagesKept DEF InspectLastMessage
    <2>10. ASSUME NEW c \in Callers, DrainSteering(c)
           PROVE  OnceInv'
      <3>1. PICK m, got, r : /\ m = mode["steering"] /\ got = Drained(steering, m)
                             /\ r = SteeredRun(run[c], got)
        OBVIOUS
      <3>2. pc[c] \in InFlight /\ run[c].pending = <<>> /\ ~run[c].cont /\ H = <<>>
        BY <2>3, <2>10 DEF DrainSteering, InFlight, HoldsAt, Holding, Choosing
      <3>3. r.pending = got /\ ~r.cont
        BY <2>3, <3>1, <3>2 DEF SteeredRun, RunLocals
      <3>4. HoldsAt("setup", r) /\ HoldsAt("drainFollowUp", run[c])
        BY <3>2, <3>3 DEF HoldsAt, Holding, Choosing
      <3>5. Once(Kept(steering, m), "steer", followUp, "followUp", delivered, got, lost, lastId)
        BY <2>2, <3>1, <3>2, OnceDrained
      <3>6. steering = <<>> => got = <<>>
        BY <3>1 DEF Drained
      <3>7. run = [run EXCEPT ![c] = run[c]]
        BY DEF TypeOK
      <3>8. PICK l, q : /\ pc' = [pc EXCEPT ![c] = l] /\ run' = [run EXCEPT ![c] = q]
                        /\ HoldsAt(l, q) /\ q.pending = got
        <4>1. CASE steering = <<>>
          BY <2>10, <3>2, <3>4, <3>6, <3>7, <4>1 DEF DrainSteering, Goto
        <4>2. CASE steering # <<>>
          BY <2>10, <3>1, <3>3, <3>4, <4>2 DEF DrainSteering, Goto, Locals
        <4> QED
          BY <4>1, <4>2
      <3>9. HoldInv' /\ Holds(q.pending)'
        BY <2>2, <3>2, <3>8, CallerHolds
      <3>10. OnceIn(q.pending)'
        BY <2>10, <3>1, <3>5, <3>8 DEF DrainSteering, OnceIn
      <3> QED
        BY <3>9, <3>10 DEF OnceInv
    <2>11. ASSUME NEW c \in Callers, DrainFollowUp(c)
           PROVE  OnceInv'
      <3>1. PICK m, got, r, l : /\ m = mode["followUp"] /\ got = Drained(followUp, m)
                                /\ r = [run[c] EXCEPT !.pending = got]
                                /\ l = IF followUp = <<>> THEN "clear" ELSE "setup"
        OBVIOUS
      <3>2. pc[c] \in InFlight /\ ~run[c].cont /\ H = <<>>
        BY <2>3, <2>11 DEF DrainFollowUp, InFlight, HoldsAt, Holding, Choosing
      <3>3. r.pending = got /\ ~r.cont
        BY <2>3, <3>1, <3>2 DEF RunLocals
      <3>4. Once(Kept(followUp, m), "followUp", steering, "steer", delivered, got, lost, lastId)
        BY <2>2, <3>1, <3>2, OnceDrained
      <3>5. followUp = <<>> => got = <<>>
        BY <3>1 DEF Drained
      <3>6. HoldsAt(l, r)
        BY <3>1, <3>3, <3>5 DEF HoldsAt, Holding, Choosing
      <3>7. HoldInv' /\ Holds(r.pending)'
        BY <2>2, <2>11, <3>1, <3>2, <3>6, CallerHolds DEF DrainFollowUp, Goto, Locals
      <3>8. Once(steering, "steer", Kept(followUp, m), "followUp", delivered, got, lost, lastId)
        BY <3>4, OnceEitherWay
      <3>9. OnceIn(r.pending)'
        BY <2>11, <3>1, <3>3, <3>8 DEF DrainFollowUp, OnceIn
      <3> QED
        BY <3>7, <3>9 DEF OnceInv
    <2>12. ASSUME NEW c \in Callers, Setup(c)
           PROVE  OnceInv'
      <3>1. pc[c] \in InFlight /\ run[c].pending = H /\ HoldsAt("snapshot", run[c])
        BY <2>3, <2>12 DEF Setup, InFlight, HoldsAt, Holding, Choosing
      <3>2. run = [run EXCEPT ![c] = run[c]]
        BY DEF TypeOK
      <3>3. PICK r : r = run[c]
        OBVIOUS
      <3>4. HoldInv' /\ Holds(r.pending)'
        BY <2>2, <2>12, <3>1, <3>2, <3>3, CallerHolds DEF Setup, Goto
      <3> QED
        BY <2>1, <2>12, <3>1, <3>3, <3>4, MessagesKept DEF Setup
    <2>13. ASSUME NEW c \in Callers, Snapshot(c)
           PROVE  OnceInv'
      <3>1. PICK x, r, l : /\ x = IF run[c].pending = <<>> THEN tail ELSE "other"
                           /\ r = [run[c] EXCEPT !.ctx = x, !.more = TRUE]
                           /\ l = IF run[c].cont /\ ~CanContinueFrom(tail)
                                  THEN "failure" ELSE "prompts"
        OBVIOUS
      <3>2. r.pending = run[c].pending
        BY <2>3, <3>1 DEF RunLocals
      <3>3. /\ pc[c] \in InFlight /\ run[c].pending = H
            /\ run[c].cont => run[c].pending = <<>>
        BY <2>3, <2>13 DEF Snapshot, InFlight, HoldsAt
      <3>4. HoldsAt(l, r)
        BY <3>1, <3>2, <3>3 DEF HoldsAt, Holding, Choosing
      <3>5. HoldInv' /\ Holds(r.pending)'
        BY <2>2, <2>13, <3>1, <3>3, <3>4, CallerHolds DEF Snapshot, Goto, Locals
      <3> QED
        BY <2>1, <2>13, <3>2, <3>3, <3>5, MessagesKept DEF Snapshot
    <2>14. ASSUME NEW c \in Callers, EmitMessage(c)
           PROVE  OnceInv'
      <3>1. PICK r, l : /\ r = [run[c] EXCEPT !.pending = Tail(@), !.ctx = "other"]
                        /\ l = pc[c]
        OBVIOUS
      <3>2. /\ l \in {"prompts", "inject"} /\ l \in InFlight
            /\ run[c].pending = H /\ H # <<>>
        BY <2>3, <2>14, <3>1 DEF EmitMessage, InFlight
      <3>3. r.pending = Tail(H)
        BY <2>3, <3>1, <3>2 DEF RunLocals
      <3>4. HoldsAt(l, r)
        BY <3>2 DEF HoldsAt, Holding, Choosing
      <3>5. pc' = [pc EXCEPT ![c] = l]
        BY <2>14, <3>1 DEF EmitMessage, TypeOK
      <3>6. HoldInv' /\ Holds(r.pending)'
        BY <2>2, <2>14, <3>1, <3>2, <3>4, <3>5, CallerHolds DEF EmitMessage, Locals
      <3>7. Once(steering, "steer", followUp, "followUp", Append(delivered, Head(H)), Tail(H),
                 lost, lastId)
        BY <2>2, <3>2, OnceEmitted
      <3>8. OnceIn(r.pending)'
        BY <2>14, <3>2, <3>3, <3>7 DEF EmitMessage, OnceIn
      <3> QED
        BY <3>6, <3>8 DEF OnceInv
    <2>15. ASSUME NEW c \in Callers, AllEmitted(c)
           PROVE  OnceInv'
      <3>1. PICK l \in {"pollSteering", "respond"} : Goto(c, l)
        BY <2>15 DEF AllEmitted
      <3>2. PICK r : r = run[c]
        OBVIOUS
      <3>3. pc[c] \in InFlight /\ r.pending = H /\ r.pending = <<>>
        BY <2>3, <2>15, <3>2 DEF AllEmitted, InFlight
      <3>4. HoldsAt(l, r)
        BY <3>1, <3>3 DEF HoldsAt, Holding, Choosing
      <3>5. run' = [run EXCEPT ![c] = r]
        BY <2>15, <3>2 DEF AllEmitted, TypeOK
      <3>6. HoldInv' /\ Holds(r.pending)'
        BY <2>2, <3>1, <3>3, <3>4, <3>5, CallerHolds DEF Goto
      <3> QED
        BY <2>1, <2>15, <3>3, <3>6, MessagesKept DEF AllEmitted
    <2>16. ASSUME NEW c \in Callers, PollSteering(c)
           PROVE  OnceInv'
      <3>1. PICK m, got : /\ m = mode["steering"]
                          /\ got = IF run[c].skip THEN <<>> ELSE Drained(steering, m)
        OBVIOUS
      <3>2. PICK r, l : /\ r = [run[c] EXCEPT !.pending = got, !.skip = FALSE,
                                  !.batches = IF got = <<>> THEN @ ELSE @ + 1]
                        /\ l = IF run[c].more \/ got # <<>> THEN "inject" ELSE "pollFollowUp"
        OBVIOUS
      <3>3. pc[c] \in InFlight /\ H = <<>>
        BY <2>3, <2>16 DEF PollSteering, InFlight, HoldsAt, Holding
      <3>4. r.pending = got
        BY <2>3, <3>2 DEF RunLocals
      <3>5. HoldsAt(l, r)
        BY <3>2, <3>4 DEF HoldsAt, Holding, Choosing
      <3>6. Locals(c, r) /\ Goto(c, l)
        BY <2>16, <3>1, <3>2 DEF PollSteering
      <3>7. HoldInv' /\ Holds(r.pending)'
        BY <2>2, <3>3, <3>5, <3>6, CallerHolds DEF Goto, Locals
      <3>8. Once(Kept(steering, m), "steer", followUp, "followUp", delivered,
                 Drained(steering, m), lost, lastId)
        BY <2>2, <3>3, OnceDrained
      <3>9. /\ steering' = IF run[c].skip THEN steering ELSE Kept(steering, m)
            /\ UNCHANGED <<followUp, delivered, lost, lastId>>
        BY <2>16, <3>1 DEF PollSteering
      <3>10. Once(steering', "steer", followUp, "followUp", delivered, got, lost, lastId)
        <4>1. CASE run[c].skip
          BY <2>2, <3>1, <3>3, <3>9, <4>1
        <4>2. CASE ~run[c].skip
          BY <3>1, <3>8, <3>9, <4>2
        <4> QED
          BY <4>1, <4>2
      <3>11. OnceIn(r.pending)'
        BY <3>4, <3>9, <3>10 DEF OnceIn
      <3> QED
        BY <3>7, <3>11 DEF OnceInv
    <2>17. ASSUME NEW c \in Callers, Respond(c)
           PROVE  OnceInv'
      <3>1. \A o : [run[c] EXCEPT !.ctx = "assistant", !.batches = 0, !.more = FALSE,
                      !.turns = IF o = "toolUse" THEN @ + 1 ELSE @].pending = run[c].pending
        BY <2>3 DEF RunLocals
      <3>2. PICK r : Locals(c, r) /\ r.pending = run[c].pending
        BY <2>17, <3>1 DEF Respond
      <3>3. PICK l \in {"pollSteering", "tools", "agentEnd"} : Goto(c, l)
        BY <2>17 DEF Respond
      <3>4. pc[c] \in InFlight /\ run[c].pending = H /\ H = <<>>
        BY <2>3, <2>17 DEF Respond, InFlight, HoldsAt, Holding
      <3>5. HoldsAt(l, r)
        BY <3>2, <3>3, <3>4 DEF HoldsAt, Holding, Choosing
      <3>6. HoldInv' /\ Holds(r.pending)'
        BY <2>2, <3>2, <3>3, <3>4, <3>5, CallerHolds DEF Goto, Locals
      <3> QED
        BY <2>1, <2>17, <3>2, <3>4, <3>6, MessagesKept DEF Respond
    <2>18. ASSUME NEW c \in Callers, ToolResults(c)
           PROVE  OnceInv'
      <3>1. \A t : [run[c] EXCEPT !.ctx = "other", !.more = ~t].pending = run[c].pending
        BY <2>3 DEF RunLocals
      <3>2. PICK r : Locals(c, r) /\ r.pending = run[c].pending
        BY <2>18, <3>1 DEF ToolResults
      <3>3. pc[c] \in InFlight /\ run[c].pending = H /\ H = <<>>
        BY <2>3, <2>18 DEF ToolResults, InFlight, HoldsAt, Holding
      <3>4. HoldsAt("pollSteering", r)
        BY <3>2, <3>3 DEF HoldsAt, Choosing
      <3>5. HoldInv' /\ Holds(r.pending)'
        BY <2>2, <2>18, <3>2, <3>3, <3>4, CallerHolds DEF ToolResults, Goto, Locals
      <3> QED
        BY <2>1, <2>18, <3>2, <3>3, <3>5, MessagesKept DEF ToolResults
    <2>19. ASSUME NEW c \in Callers, PollFollowUp(c)
           PROVE  OnceInv'
      <3>1. PICK m, got, r, l : /\ m = mode["followUp"] /\ got = Drained(followUp, m)
                                /\ r = [run[c] EXCEPT !.pending = got, !.more = TRUE]
                                /\ l = IF followUp = <<>> THEN "agentEnd" ELSE "inject"
        OBVIOUS
      <3>2. pc[c] \in InFlight /\ H = <<>>
        BY <2>3, <2>19 DEF PollFollowUp, InFlight, HoldsAt, Holding
      <3>3. r.pending = got
        BY <2>3, <3>1 DEF RunLocals
      <3>4. Once(Kept(followUp, m), "followUp", steering, "steer", delivered, got, lost, lastId)
        BY <2>2, <3>1, <3>2, OnceDrained
      <3>5. followUp = <<>> => got = <<>>
        BY <3>1 DEF Drained
      <3>6. HoldsAt(l, r)
        BY <3>1, <3>3, <3>5 DEF HoldsAt, Holding, Choosing
      <3>7. HoldInv' /\ Holds(r.pending)'
        BY <2>2, <2>19, <3>1, <3>2, <3>6, CallerHolds DEF PollFollowUp, Goto, Locals
      <3>8. Once(steering, "steer", Kept(followUp, m), "followUp", delivered, got, lost, lastId)
        BY <3>4, OnceEitherWay
      <3>9. OnceIn(r.pending)'
        BY <2>19, <3>1, <3>3, <3>8 DEF PollFollowUp, OnceIn
      <3> QED
        BY <3>7, <3>9 DEF OnceInv
    <2>20. ASSUME NEW c \in Callers,
                  AgentEnd(c) \/ EmitRunFailure(c) \/ ReportFails(c) \/ Settle(c)
           PROVE  OnceInv'
      <3>1. PICK l \in {"settle", "clear"} : Goto(c, l)
        BY <2>20 DEF AgentEnd, EmitRunFailure, ReportFails, Settle
      <3>2. PICK r : r = run[c]
        OBVIOUS
      <3>3. pc[c] \in InFlight /\ r.pending = H /\ H = <<>>
        BY <2>3, <2>20, <3>2 DEF AgentEnd, EmitRunFailure, ReportFails, Settle, InFlight,
                                 HoldsAt, Holding
      <3>4. HoldsAt(l, r)
        BY <3>1, <3>3 DEF HoldsAt, Choosing
      <3>5. run' = [run EXCEPT ![c] = r]
        BY <2>20, <3>2 DEF AgentEnd, EmitRunFailure, ReportFails, Settle, TypeOK
      <3>6. HoldInv' /\ Holds(r.pending)'
        BY <2>2, <3>1, <3>3, <3>4, <3>5, CallerHolds DEF Goto
      <3> QED
        BY <2>1, <2>20, <3>3, <3>6, MessagesKept DEF AgentEnd, EmitRunFailure, ReportFails, Settle
    <2>21. ASSUME NEW c \in Callers, ClearActiveToken(c)
           PROVE  OnceInv'
      <3>1. pc[c] \in InFlight /\ H = <<>>
        BY <2>3, <2>21 DEF ClearActiveToken, InFlight, HoldsAt, Holding
      <3>2. HoldsAt("notify", NoLocals) /\ NoLocals.pending = <<>>
        BY DEF HoldsAt, Holding, Choosing, NoLocals
      <3>3. HoldInv' /\ Holds(NoLocals.pending)'
        BY <2>2, <2>21, <3>1, <3>2, CallerHolds DEF ClearActiveToken, Goto, Locals
      <3> QED
        BY <2>1, <2>21, <3>1, <3>2, <3>3, MessagesKept DEF ClearActiveToken
    <2>22. ASSUME NEW c \in Callers, NotifyWaiters(c)
           PROVE  OnceInv'
      <3>1. pc[c] = "notify" /\ HoldsAt("idle", run[c])
        BY <2>3, <2>22 DEF NotifyWaiters, HoldsAt, Holding, Choosing
      <3>2. pc'[c] = "idle" /\ \A d \in Callers : d # c => pc'[d] = pc[d]
        BY <2>22, GotoLocals DEF NotifyWaiters
      <3>3. run' = run
        BY <2>22 DEF NotifyWaiters
      <3>4. HoldInv'
        BY <2>2, <3>1, <3>2, <3>3 DEF HoldInv
      <3>5. \A d \in Callers : pc'[d] \in InFlight <=> pc[d] \in InFlight
        BY <3>1, <3>2 DEF InFlight
      <3>6. Holds(H)'
        BY <2>1, <3>3, <3>5 DEF Holds
      <3> QED
        BY <2>1, <2>22, <3>4, <3>6, MessagesKept DEF NotifyWaiters
    <2>23. ASSUME NEW c \in Callers, RunError(c) \/ DropFuture(c)
           PROVE  OnceInv'
      <3>1. PICK l \in {"failure", "dropped"} : Goto(c, l)
        BY <2>23 DEF RunError, DropFuture
      <3>2. pc[c] \in InFlight /\ run[c].pending = H
        BY <2>3, <2>23 DEF RunError, DropFuture, InFlight
      <3>3. [run[c] EXCEPT !.pending = <<>>].pending = <<>> /\ NoLocals.pending = <<>>
        BY <2>3 DEF RunLocals, NoLocals
      <3>4. PICK r : Locals(c, r) /\ r.pending = <<>>
        BY <2>23, <3>3 DEF RunError, DropFuture
      <3>5. HoldsAt(l, r)
        BY <3>1, <3>4 DEF HoldsAt, Choosing
      <3>6. HoldInv' /\ Holds(r.pending)'
        BY <2>2, <3>1, <3>2, <3>4, <3>5, CallerHolds DEF Goto, Locals
      <3>7. Once(steering, "steer", followUp, "followUp", delivered, <<>>,
                 lost \cup IdsOf(H), lastId)
        BY <2>2, OnceHeldLost
      <3>8. lost' = lost \cup IdsOf(H) /\ UNCHANGED <<steering, followUp, delivered, lastId>>
        BY <2>23, <3>2 DEF RunError, DropFuture
      <3>9. OnceIn(r.pending)'
        BY <3>4, <3>7, <3>8 DEF OnceIn
      <3> QED
        BY <3>6, <3>9 DEF OnceInv
    <2>24. ASSUME \/ \E w \in Waiters : WaitForIdle(w) \/ WaitCheck(w) \/ WaitSleep(w) \/ WaitWake(w)
                  \/ Abort \/ EditMessages \/ SetMode \/ Reset
           PROVE  OnceInv'
      <3>1. UNCHANGED <<pc, run, steering, followUp, delivered, lost, lastId>>
        BY <2>24 DEF WaitForIdle, WaitCheck, WaitSleep, WaitWake, Abort,
                      EditMessages, SetMode, Reset
      <3> QED
        BY <2>1, <2>2, <3>1, RestHolds, MessagesKept
    <2>25. CASE Steer
      <3>1. PICK x : x = SubmittedBy("steer")
        OBVIOUS
      <3>2. x \in Message /\ x.id = lastId + 1 /\ x.via = "steer"
        BY <2>25, <3>1, SubmittedTypes DEF Steer, TypeOK, SubmittedBy
      <3>3. Once(Append(steering, x), "steer", followUp, "followUp", delivered, H, lost, lastId + 1)
        BY <2>2, <2>5, <3>2, OnceQueued
      <3>4. HoldInv' /\ Holds(H)'
        BY <2>1, <2>2, <2>25, RestHolds DEF Steer
      <3>5. OnceIn(H)'
        BY <2>25, <3>1, <3>3 DEF Steer, OnceIn
      <3> QED
        BY <3>4, <3>5 DEF OnceInv
    <2>26. CASE FollowUp
      <3>1. PICK x : x = SubmittedBy("followUp")
        OBVIOUS
      <3>2. x \in Message /\ x.id = lastId + 1 /\ x.via = "followUp"
        BY <2>26, <3>1, SubmittedTypes DEF FollowUp, TypeOK, SubmittedBy
      <3>3. Once(Append(followUp, x), "followUp", steering, "steer", delivered, H, lost, lastId + 1)
        BY <2>2, <2>5, <3>2, OnceQueued
      <3>4. Once(steering, "steer", Append(followUp, x), "followUp", delivered, H, lost, lastId + 1)
        BY <3>3, OnceEitherWay
      <3>5. HoldInv' /\ Holds(H)'
        BY <2>1, <2>2, <2>26, RestHolds DEF FollowUp
      <3>6. OnceIn(H)'
        BY <2>26, <3>1, <3>4 DEF FollowUp, OnceIn
      <3> QED
        BY <3>5, <3>6 DEF OnceInv
    <2>27. CASE ClearOneQueue \/ ResetQueues
      <3>1. UNCHANGED <<pc, run>> /\ (ClearSteering \/ ClearFollowUps)
        BY <2>27 DEF ClearOneQueue, ResetQueues
      <3>2. HoldInv' /\ Holds(H)'
        BY <2>1, <2>2, <3>1, RestHolds
      <3>3. CASE ClearSteering
        <4>1. Once(<<>>, "steer", followUp, "followUp", delivered, H,
                  lost \cup IdsOf(steering), lastId)
          BY <2>2, OnceQueueLost
        <4>2. OnceIn(H)'
          BY <3>3, <4>1 DEF ClearSteering, OnceIn
        <4> QED
          BY <3>2, <4>2 DEF OnceInv
      <3>4. CASE ClearFollowUps
        <4>1. Once(<<>>, "followUp", steering, "steer", delivered, H,
                  lost \cup IdsOf(followUp), lastId)
          BY <2>2, OnceQueueLost
        <4>2. Once(steering, "steer", <<>>, "followUp", delivered, H,
                  lost \cup IdsOf(followUp), lastId)
          BY <4>1, OnceEitherWay
        <4>3. OnceIn(H)'
          BY <3>4, <4>2 DEF ClearFollowUps, OnceIn
        <4> QED
          BY <3>2, <4>3 DEF OnceInv
      <3> QED
        BY <3>1, <3>3, <3>4
    <2> QED
      BY <2>6, <2>7, <2>8, <2>9, <2>10, <2>11, <2>12, <2>13, <2>14, <2>15, <2>16, <2>17, <2>18,
         <2>19, <2>20, <2>21, <2>22, <2>23, <2>24, <2>25, <2>26, <2>27, NextCases
  <1> QED
    BY <1>1, <1>2, TypeCorrect, OneRun, PTL DEF Spec

-----------------------------------------------------------------------------
(* A set of numbers that is not empty has a least one.                     *)
LEMMA Least ==
  ASSUME NEW S \in SUBSET Nat, S # {}
  PROVE  \E i \in S : \A j \in S : i <= j
  <1> DEFINE R == {p \in Nat \X Nat : p[1] < p[2]}
  <1>1. IsWellFoundedOn(R, Nat)
    BY NatLessThanWellFounded DEF OpToRel
  <1>2. \A y, x \in Nat : <<y, x>> \notin R => x <= y
    OBVIOUS
  <1> HIDE DEF R
  <1>3. \E x \in S : \A y \in S : ~(<<y, x>> \in R)
    BY <1>1, WFMin
  <1> QED BY <1>2, <1>3

(* The places of a queue and the ids of its messages.                      *)
LEMMA IdTypes ==
  ASSUME NEW q \in Seq(Message)
  PROVE  /\ Len(q) \in Nat /\ DOMAIN q = 1 .. Len(q)
         /\ \A j \in DOMAIN q : q[j].id \in 1 .. MaxMsgs
  <1>1. Len(q) \in Nat /\ DOMAIN q = 1 .. Len(q)
    BY LenProperties
  <1>2. \A j \in DOMAIN q : q[j] \in Message
    BY <1>1, ElementOfSeq
  <1>3. \A x \in Message : x.id \in 1 .. MaxMsgs
    BY DEF Message
  <1> QED
    BY <1>1, <1>2, <1>3

(* Ids grow along a queue, so a message's place is never beyond its id.    *)
LEMMA PlaceOfMessage ==
  ASSUME NEW q \in Seq(Message), Sorted(q), NEW k \in DOMAIN q
  PROVE  k \in 1 .. MaxMsgs
  <1>1. /\ Len(q) \in Nat /\ DOMAIN q = 1 .. Len(q)
        /\ \A j \in DOMAIN q : q[j].id \in 1 .. MaxMsgs
    BY IdTypes
  <1>2. PICK S : S = {j \in DOMAIN q : q[j].id < j}
    OBVIOUS
  <1>3. S = {}
    <2> SUFFICES ASSUME S # {} PROVE FALSE
      OBVIOUS
    <2>1. S \in SUBSET Nat
      BY <1>1, <1>2
    <2>2. PICK i \in S : \A j \in S : i <= j
      BY <2>1, Least
    <2>3. i \in DOMAIN q /\ i \in Nat /\ q[i].id < i /\ i # 1
      BY <1>1, <1>2, <2>2
    <2>4. i - 1 \in DOMAIN q /\ i - 1 < i
      BY <1>1, <2>3
    <2>5. ~(q[i - 1].id < i - 1)
      BY <1>2, <2>2, <2>3, <2>4
    <2>6. q[i - 1].id < q[i].id
      BY <2>3, <2>4 DEF Sorted
    <2>7. PICK x, y : x = q[i - 1].id /\ y = q[i].id
      OBVIOUS
    <2>8. x \in Int /\ y \in Int
      BY <1>1, <2>3, <2>4, <2>7
    <2>9. i \in Int /\ y < i /\ ~(x < i - 1) /\ x < y
      BY <2>3, <2>5, <2>6, <2>7
    <2> QED
      BY <2>8, <2>9
  <1>4. ~(q[k].id < k)
    BY <1>2, <1>3
  <1>5. PICK x : x = q[k].id
    OBVIOUS
  <1>6. x \in 1 .. MaxMsgs /\ k \in Nat /\ k >= 1 /\ ~(x < k)
    BY <1>1, <1>4, <1>5
  <1> QED
    BY <1>6, Bounds

(* A message is at one place of a queue, or at none.                       *)
LEMMA CopiesIn ==
  ASSUME NEW q, Distinct(q), NEW i
  PROVE  Cardinality(IdsIn(q, i)) = IF i \in Ids(Elems(q)) THEN 1 ELSE 0
  <1>1. CASE i \in Ids(Elems(q))
    <2>1. PICK n \in DOMAIN q : q[n].id = i
      BY <1>1 DEF Ids, Elems
    <2>2. IdsIn(q, i) = {n}
      BY <2>1 DEF IdsIn, Distinct
    <2> QED
      BY <1>1, <2>2, FS_Singleton
  <1>2. CASE i \notin Ids(Elems(q))
    <2>1. IdsIn(q, i) = {}
      BY <1>2 DEF IdsIn, Ids, Elems
    <2> QED
      BY <1>2, <2>1, FS_EmptySet
  <1> QED
    BY <1>1, <1>2

(* No id is twice in a sorted queue.                                       *)
LEMMA SortedDistinct ==
  ASSUME NEW q \in Seq(Message), Sorted(q)
  PROVE  Distinct(q)
  <1>1. \A j \in DOMAIN q : j \in Int /\ q[j].id \in Int
    BY IdTypes
  <1>2. \A m, n \in DOMAIN q : m < n => q[m].id # q[n].id
    BY <1>1 DEF Sorted
  <1>3. \A m, n \in DOMAIN q : m < n \/ n < m \/ m = n
    BY <1>1
  <1> QED
    BY <1>2, <1>3 DEF Distinct

(* The same for what the runs hold.                                        *)
LEMMA CopiesHeld ==
  ASSUME OneRunAtATime, HoldInv, NEW H \in Seq(Message), Holds(H), Sorted(H), NEW i
  PROVE  Cardinality({p \in Callers \X (1 .. MaxMsgs) : p[2] \in IdsIn(run[p[1]].pending, i)})
           = IF i \in Ids(Elems(H)) THEN 1 ELSE 0
  <1>1. PICK P : P = {p \in Callers \X (1 .. MaxMsgs) : p[2] \in IdsIn(run[p[1]].pending, i)}
    OBVIOUS
  <1>2. \A c \in Callers : pc[c] \in InFlight => run[c].pending = H
    BY DEF Holds
  <1>3. \A c \in Callers : pc[c] \notin InFlight => run[c].pending = <<>>
    BY HoldingInFlight DEF HoldInv, HoldsAt
  <1>4. IdsIn(<<>>, i) = {}
    BY DEF IdsIn
  <1>5. \A p \in P : pc[p[1]] \in InFlight /\ p[2] \in IdsIn(H, i) /\ p = <<p[1], p[2]>>
    BY <1>1, <1>2, <1>3, <1>4
  <1>6. CASE i \in Ids(Elems(H))
    <2>1. PICK n \in DOMAIN H : H[n].id = i
      BY <1>6 DEF Ids, Elems
    <2>2. IdsIn(H, i) = {n}
      BY <2>1, SortedDistinct DEF IdsIn, Distinct
    <2>3. n \in 1 .. MaxMsgs
      BY <2>1, PlaceOfMessage
    <2>4. H # <<>>
      BY <2>1
    <2>5. PICK c \in Callers : pc[c] \in InFlight
      BY <2>4 DEF Holds
    <2>6. <<c, n>> \in P
      BY <1>1, <1>2, <2>2, <2>3, <2>5
    <2>7. \A p \in P : p = <<c, n>>
      BY <1>1, <1>5, <2>2, <2>5 DEF OneRunAtATime
    <2>8. P = {<<c, n>>}
      BY <2>6, <2>7
    <2> QED
      BY <1>1, <1>6, <2>8, FS_Singleton
  <1>7. CASE i \notin Ids(Elems(H))
    <2>1. IdsIn(H, i) = {}
      BY <1>7 DEF IdsIn, Ids, Elems
    <2>2. P = {}
      BY <1>5, <2>1
    <2> QED
      BY <1>1, <1>7, <2>2, FS_EmptySet
  <1> QED
    BY <1>6, <1>7

(* No submitted message is duplicated or vanishes, and steering messages   *)
(* and follow-ups reach the transcript in the order they were sent, for    *)
(* any number of callers, messages, failing runs and dropped futures.      *)
THEOREM EveryMessageOnce == Spec => []EachMessageOnce
  <1>1. TypeOK /\ OneRunAtATime /\ OnceInv => EachMessageOnce
    <2> SUFFICES ASSUME TypeOK, OneRunAtATime, OnceInv PROVE EachMessageOnce
      OBVIOUS
    <2>1. PICK H : Holds(H) /\ OnceIn(H)
      BY DEF OnceInv
    <2>2. Once(steering, "steer", followUp, "followUp", delivered, H, lost, lastId)
      BY <2>1 DEF OnceIn
    <2>3. /\ H \in Seq(Message) /\ Sorted(H) /\ HoldInv
          /\ Distinct(steering) /\ Distinct(followUp) /\ Distinct(delivered)
      BY <2>2, SortedDistinct DEF Once, OnceInv
    <2>4. ASSUME NEW i \in 1 .. lastId
          PROVE  Copies(i) = 1
      <3>1. PICK a, b, d, e, h :
              /\ a = Cardinality(IdsIn(steering, i))
              /\ b = Cardinality(IdsIn(followUp, i))
              /\ d = Cardinality(IdsIn(delivered, i))
              /\ e = IF i \in lost THEN 1 ELSE 0
              /\ h = Cardinality({p \in Callers \X (1 .. MaxMsgs) :
                                    p[2] \in IdsIn(run[p[1]].pending, i)})
        OBVIOUS
      <3>2. /\ a = IF i \in Ids(Elems(steering)) THEN 1 ELSE 0
            /\ b = IF i \in Ids(Elems(followUp)) THEN 1 ELSE 0
            /\ d = IF i \in Ids(Elems(delivered)) THEN 1 ELSE 0
            /\ h = IF i \in Ids(Elems(H)) THEN 1 ELSE 0
        BY <2>1, <2>3, <3>1, CopiesIn, CopiesHeld
      <3>3. /\ Ids(Elems(steering)) \cap (Ids(Elems(followUp)) \cup Ids(Elems(delivered))
                                            \cup Ids(Elems(H)) \cup lost) = {}
            /\ Ids(Elems(followUp)) \cap (Ids(Elems(delivered)) \cup Ids(Elems(H)) \cup lost) = {}
            /\ Ids(Elems(delivered)) \cap (Ids(Elems(H)) \cup lost) = {}
            /\ Ids(Elems(H)) \cap lost = {}
            /\ i \in Ids(Elems(steering)) \cup Ids(Elems(followUp)) \cup Ids(Elems(delivered))
                       \cup Ids(Elems(H)) \cup lost
        BY <2>2 DEF Once
      <3>4. a + b + d + e + h = 1
        BY <3>1, <3>2, <3>3
      <3> QED
        BY <3>1, <3>4 DEF Copies
    <2>5. InOrder(delivered)
      BY <2>2 DEF Once
    <2> QED
      BY <2>4, <2>5 DEF EachMessageOnce, InOrder, Like
  <1> QED
    BY <1>1, TypeCorrect, OneRun, OnceInvHolds, PTL

=============================================================================
