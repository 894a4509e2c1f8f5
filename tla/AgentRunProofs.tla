--------------------------- MODULE AgentRunProofs ---------------------------
(***************************************************************************)
(* Proofs about AgentRun, for every bound on calls, turns, messages and    *)
(* faults: the events of a run implement RunEvents; the copies of the      *)
(* conversation agree; requests are due.                                   *)
(***************************************************************************)
EXTENDS AgentRun, SequenceTheorems, TLAPS

Reports == {"report", "reportEnd", "reportTurn", "reportAgent"}
Ending  == Reports \cup {"settle", "done"}
Opening == {"agentStart", "turnStart", "messages", "messageEnd"}
Asking  == {"poll", "pollFollowUp", "request", "stream", "responseEnd", "tools", "turnEnd",
            "afterTurn", "agentEnd"}

Message == [role : {"user", "assistant", "toolResult"},
            id : Nat,
            stop : {"", "stop", "length", "error", "aborted", "partial"},
            calls : Nat]
Users   == {m \in Message : m.role = "user"}

View == [run : {"none", "running", "failing", "ended"},
         turn : BOOLEAN,
         msg : {"none", "other", "assistant", "failure"},
         beat : BOOLEAN]

Scalars ==
  /\ pc \in Opening \cup Asking \cup Ending
  /\ first \in BOOLEAN /\ prompting \in BOOLEAN /\ more \in BOOLEAN
  /\ errorSet \in BOOLEAN /\ partial \in BOOLEAN
  /\ cancelled \in BOOLEAN /\ compacted \in BOOLEAN
  /\ updates \in Nat /\ requests \in Nat /\ late \in Nat /\ handed \in Nat /\ faults \in Nat

Messages ==
  /\ final \in Message
  /\ held \in Seq(Users)
  /\ context \in Seq(Message) /\ new \in Seq(Message)
  /\ transcript \in Seq(Message) /\ streaming \in Seq(Message)

TypeOK == Scalars /\ Messages /\ seen \in View

(* first_turn holds while the prompts are emitted and until the first poll *)
(* that follows; it finds has_more_tool_calls set.                         *)
LoopInv ==
  /\ prompting => first /\ pc \in Opening \cup Ending
  /\ pc = "agentStart" => prompting
  /\ pc = "messageEnd" => held # <<>>
  /\ first => more \/ pc \in Ending
  /\ ~prompting /\ pc # "poll" => ~first

(* What a subscriber has seen at each point of the loop and of the report. *)
Shows(r, t, m) == seen.run = r /\ seen.turn = t /\ seen.msg = m

ViewInv ==
  /\ pc = "agentStart" => Shows("none", FALSE, "none")
  /\ pc \in {"turnStart", "pollFollowUp", "afterTurn", "agentEnd"} =>
       Shows("running", FALSE, "none")
  /\ pc \in {"messages", "request", "tools", "turnEnd"} => Shows("running", TRUE, "none")
  /\ pc = "messageEnd" => Shows("running", TRUE, "other")
  /\ pc = "poll" => Shows("running", first, "none")
  /\ pc = "stream" => Shows("running", TRUE, IF partial THEN "assistant" ELSE "none")
  /\ pc = "responseEnd" => Shows("running", TRUE, "assistant")
  /\ pc = "report" => seen.run # "failing"
  /\ pc = "reportEnd" => seen.run = "failing" /\ seen.msg = "failure"
  /\ pc = "reportTurn" => seen.run = "failing" /\ seen.msg = "none"
  /\ pc = "reportAgent" => Shows("failing", FALSE, "none")

(* How the three copies of the conversation hang together.  The prompts    *)
(* are in the context and the new messages before they are emitted.        *)
CopyInv ==
  /\ pc \notin Ending =>
       (IF prompting THEN transcript \o held ELSE transcript) = Base \o new
  /\ pc \notin Ending /\ prompting /\ ~compacted => context = Base \o new
  /\ pc \notin Ending /\ ~prompting /\ ~compacted =>
       IF (pc = "stream" /\ partial) \/ pc = "responseEnd"
       THEN \E m \in Message : /\ context = Append(transcript, m)
                               /\ pc = "responseEnd" => m = final
       ELSE context = transcript
  /\ pc \in (Opening \cup Asking) \ {"messageEnd", "stream", "responseEnd"} => streaming = <<>>

(* The last message of the transcript and error_message.                   *)
LastFails == Failed(Last(transcript))

ErrorInv ==
  /\ transcript # <<>>
  /\ pc \notin Ending \cup {"agentEnd"} => ~errorSet
  /\ prompting /\ pc \notin Ending => ~LastFails
  /\ pc \in {"poll", "pollFollowUp", "afterTurn"} => ~LastFails
  /\ pc = "tools" => ~Failed(final) /\ ~LastFails
  /\ pc = "turnEnd" => (LastFails <=> Failed(final))
  /\ pc = "agentEnd" => (errorSet <=> LastFails)
  /\ pc \in {"reportTurn", "reportAgent"} => LastFails
  /\ pc = "reportAgent" => errorSet
  /\ pc \in {"settle", "done"} /\ seen.run = "ended" => (errorSet <=> LastFails)

(* The answer at hand is the one to the last request.                      *)
AnswerInv ==
  /\ pc \in {"responseEnd", "tools", "turnEnd"} => final.role = "assistant" /\ final.id = requests
  /\ pc = "tools" => ~EndsRun(final) /\ final.calls > 0

(* A token that was cancelled before a request leaves room for no other.   *)
LateInv ==
  /\ late > 0 => cancelled
  /\ late <= 1
  /\ pc \in (Opening \cup Asking) \ {"stream", "responseEnd", "turnEnd", "agentEnd"} => late = 0
  /\ pc \in {"responseEnd", "turnEnd"} /\ late > 0 => final.stop = "aborted"

(* The tool calls of the message at n are answered in the transcript s.    *)
AnsweredAt(s, n) ==
  s[n].role = "assistant" =>
    \A k \in 1 .. s[n].calls : n + k \in DOMAIN s /\ s[n + k] = Result(s[n].id, k)

CallsInv ==
  ~cancelled /\ pc \notin Ending \cup {"agentEnd"} =>
    IF pc = "tools" \/ (pc = "turnEnd" /\ EndsRun(final))
    THEN /\ Last(transcript) = final
         /\ \A n \in DOMAIN transcript : n < Len(transcript) => AnsweredAt(transcript, n)
    ELSE \A n \in DOMAIN transcript : AnsweredAt(transcript, n)

(* Where nothing is held that would be emitted before the next request,    *)
(* the last message is one to answer; has_more_tool_calls promises so.     *)
Answerable == Last(transcript).role # "assistant"

DueInv ==
  /\ prompting /\ pc \notin Ending => Answerable
  /\ pc \in {"turnStart", "messages"} /\ held = <<>> => Answerable
  /\ pc \in {"turnEnd", "afterTurn", "poll"} /\ more => Answerable
  /\ pc = "request" => Answerable

RunInv ==
  /\ TypeOK /\ LoopInv /\ ViewInv /\ CopyInv /\ ErrorInv /\ AnswerInv /\ LateInv /\ CallsInv
  /\ DueInv

-----------------------------------------------------------------------------
(***************************************************************************)
(* Lemmas about messages and sequences of messages.                        *)
(***************************************************************************)
LEMMA Constructors ==
  /\ \A i \in Nat : User(i) \in Users
  /\ \A i, k \in Nat, s \in {"stop", "length", "error", "aborted", "partial"} :
       Assistant(i, s, k) \in Message
  /\ \A i, k \in Nat : Result(i, k) \in Message
  /\ Failure \in Message
  /\ Base \in Seq(Message) /\ Base # <<>>
  /\ Users \subseteq Message
<1>1. /\ \A i \in Nat : User(i) \in Users
      /\ \A i, k \in Nat : Result(i, k) \in Message
      /\ Users \subseteq Message
  BY DEF User, Users, Message, Result
<1>2. \A i, k \in Nat, s \in {"stop", "length", "error", "aborted", "partial"} :
        Assistant(i, s, k) \in Message
  BY DEF Assistant, Message
<1>3. Failure \in Message
  BY <1>2 DEF Failure
<1>4. Base \in Seq(Message) /\ Base # <<>>
  BY <1>1 DEF Base
<1> QED BY <1>1, <1>2, <1>3, <1>4

\* What stream_assistant makes of the message it ends with.
LEMMA FinalMessagesTyped ==
  ASSUME Scalars
  PROVE  FinalMessages \subseteq Message
<1> SUFFICES ASSUME NEW m \in FinalMessages PROVE m \in Message
  OBVIOUS
<1>1. CASE late > 0
  BY Constructors DEF FinalMessages, Scalars
<1>2. CASE ~(late > 0)
  <2>1. PICK s \in {"stop", "length", "error", "aborted"}, k \in 0 .. MaxCalls \cup {0} :
          m = Assistant(requests, s, k)
    BY DEF FinalMessages
  <2>2. k \in Nat
    OBVIOUS
  <2> QED BY <2>1, Constructors DEF Scalars
<1> QED BY <1>1, <1>2

\* The results of a batch are messages,
LEMMA ResultsTyped ==
  ASSUME Scalars, NEW n \in Nat
  PROVE  Results(n) \in Seq(Message) /\ Len(Results(n)) = n
BY Constructors DEF Results, Scalars

\* and so is the context that holds them.
LEMMA AnsweredTyped ==
  ASSUME Messages, NEW n \in Answered
  PROVE  n \in 0 .. final.calls /\ (~cancelled => n = final.calls)
<1>1. final.calls \in Nat
  BY DEF Messages, Message
<1>2. Answered \in {1 .. final.calls, {final.calls}} /\ (~cancelled => Answered = {final.calls})
  BY DEF Answered
<1> QED BY <1>1, <1>2

\* Replacing the last message of a context leaves a context.
LEMMA ReplaceLastTyped ==
  ASSUME NEW s \in Seq(Message), NEW m \in Message
  PROVE  ReplaceLast(s, m) \in Seq(Message) /\ Len(ReplaceLast(s, m)) = Len(s)
<1>1. Len(s) \in Nat /\ s \in [1 .. Len(s) -> Message]
  OBVIOUS
<1>2. ReplaceLast(s, m) \in [1 .. Len(s) -> Message]
  BY <1>1 DEF ReplaceLast
<1> QED BY <1>2

(* What a poll hands out.                                                  *)
LEMMA HandedTyped ==
  ASSUME handed \in Nat, Handed
  PROVE  held' \in Seq(Users) /\ handed' \in Nat
<1>1. CASE held' = <<>> /\ UNCHANGED handed
  BY <1>1
<1>2. CASE held' = <<User(handed + 1)>> /\ handed' = handed + 1
  <2>1. User(handed + 1) \in Users
    BY Constructors
  <2> QED BY <1>2, <2>1
<1> QED BY <1>1, <1>2 DEF Handed

(* The end of a transcript that grows.                                     *)
LEMMA LastAppended ==
  ASSUME NEW s \in Seq(Message), NEW m \in Message
  PROVE  Append(s, m) # <<>> /\ Last(Append(s, m)) = m
BY DEF Last

\* The last message of a context to which others were added.
LEMMA LastConcatenated ==
  ASSUME NEW s \in Seq(Message), s # <<>>, NEW n \in Nat, Scalars
  PROVE  /\ s \o Results(n) # <<>>
         /\ IF n = 0 THEN s \o Results(n) = s
            ELSE Last(s \o Results(n)) = Result(requests, n)
<1>1. Results(n) \in Seq(Message) /\ Len(Results(n)) = n
  BY ResultsTyped
<1>2. s \o Results(n) # <<>>
  OBVIOUS
<1>3. CASE n = 0
  <2>1. Results(n) = <<>>
    BY <1>1, <1>3
  <2> QED BY <1>3, <2>1
<1>4. CASE n # 0
  <2>1. Last(s \o Results(n)) = Results(n)[n]
    BY <1>1, <1>4 DEF Last
  <2> QED BY <2>1 DEF Results
<1> QED BY <1>3, <1>4

(* Emitting the first of the held messages leaves the whole as it was.     *)
LEMMA EmitHead ==
  ASSUME NEW s \in Seq(Message), NEW h \in Seq(Message), h # <<>>
  PROVE  Append(s, Head(h)) \o Tail(h) = s \o h
<1>1. Head(h) \in Message /\ Tail(h) \in Seq(Message) /\ Len(Tail(h)) = Len(h) - 1
      /\ \A i \in 1 .. Len(h) - 1 : Tail(h)[i] = h[i + 1]
  OBVIOUS
<1>2. Append(s, Head(h)) \in Seq(Message) /\ Len(Append(s, Head(h))) = Len(s) + 1
      /\ Append(s, Head(h))[Len(s) + 1] = h[1]
      /\ \A i \in 1 .. Len(s) : Append(s, Head(h))[i] = s[i]
  OBVIOUS
<1> DEFINE t == Append(s, Head(h)) \o Tail(h)
<1>3. t \in Seq(Message) /\ s \o h \in Seq(Message) /\ Len(t) = Len(s \o h)
  OBVIOUS
<1>4. \A i \in 1 .. Len(t) : t[i] = (s \o h)[i]
  <2> SUFFICES ASSUME NEW i \in 1 .. Len(t) PROVE t[i] = (s \o h)[i]
    OBVIOUS
  <2>1. CASE i <= Len(s)
    OBVIOUS
  <2>2. CASE i = Len(s) + 1
    OBVIOUS
  <2>3. CASE i > Len(s) + 1
    OBVIOUS
  <2> QED OBVIOUS
<1> HIDE DEF t
<1>5. t = s \o h
  BY <1>3, <1>4, SeqEqual
<1> QED OBVIOUS

\* A message added to what is new is added to the whole.
LEMMA AppendToNew ==
  ASSUME NEW s \in Seq(Message), NEW m \in Message
  PROVE  Base \o Append(s, m) = Append(Base \o s, m)
<1>1. Base \in Seq(Message)
  BY Constructors
<1>2. Append(s, m) = s \o <<m>> /\ Append(Base \o s, m) = (Base \o s) \o <<m>>
  OBVIOUS
<1> QED OBVIOUS

\* Replacing the message just added is adding the other one.
LEMMA ReplaceAppended ==
  ASSUME NEW s \in Seq(Message), NEW m \in Message, NEW x \in Message
  PROVE  ReplaceLast(Append(s, m), x) = Append(s, x)
<1>1. Append(s, m) \in Seq(Message) /\ Len(Append(s, m)) = Len(s) + 1 /\ Len(s) \in Nat
      /\ Append(s, x) \in Seq(Message) /\ Len(Append(s, x)) = Len(s) + 1
      /\ Append(s, x)[Len(s) + 1] = x
      /\ \A i \in 1 .. Len(s) : Append(s, m)[i] = s[i] /\ Append(s, x)[i] = s[i]
  OBVIOUS
<1>2. ReplaceLast(Append(s, m), x) \in Seq(Message)
      /\ Len(ReplaceLast(Append(s, m), x)) = Len(s) + 1
  BY <1>1, ReplaceLastTyped
<1>3. \A i \in 1 .. Len(s) + 1 : ReplaceLast(Append(s, m), x)[i] = Append(s, x)[i]
  <2> DEFINE t == Append(s, m)
  <2>1. DOMAIN t = 1 .. Len(t) /\ Len(t) = Len(s) + 1
    OBVIOUS
  <2>2. \A i \in 1 .. Len(s) : t[i] = Append(s, x)[i]
    OBVIOUS
  <2> HIDE DEF t
  <2>3. \A i \in 1 .. Len(s) + 1 : ReplaceLast(t, x)[i] = IF i = Len(s) + 1 THEN x ELSE t[i]
    BY <2>1 DEF ReplaceLast
  <2>4. \A i \in 1 .. Len(s) + 1 : i = Len(s) + 1 \/ i \in 1 .. Len(s)
    OBVIOUS
  <2>5. \A i \in 1 .. Len(s) + 1 : ReplaceLast(t, x)[i] = Append(s, x)[i]
    BY <2>2, <2>3
  <2> QED BY <2>5 DEF t
<1> QED BY <1>2, <1>3

(* A call that is answered stays answered when the transcript grows.       *)
LEMMA AnsweredGrows ==
  ASSUME NEW s \in Seq(Message), NEW t \in Seq(Message), NEW n \in DOMAIN s, AnsweredAt(s, n)
  PROVE  AnsweredAt(s \o t, n)
<1>1. /\ DOMAIN s = 1 .. Len(s) /\ DOMAIN (s \o t) = 1 .. Len(s) + Len(t)
      /\ Len(s) \in Nat /\ Len(t) \in Nat
      /\ \A i \in 1 .. Len(s) : (s \o t)[i] = s[i]
  OBVIOUS
<1> HIDE DEF Message
<1> QED BY DEF AnsweredAt

\* One more result answers one more call.
LEMMA AnsweredOneMore ==
  ASSUME NEW s \in Seq(Message), NEW m \in Message
  PROVE  /\ \A n \in DOMAIN s : AnsweredAt(s, n) => AnsweredAt(Append(s, m), n)
         /\ m.role # "assistant" \/ ~(m.calls > 0) => AnsweredAt(Append(s, m), Len(s) + 1)
         /\ \A n \in DOMAIN Append(s, m) : n \in DOMAIN s \/ n = Len(s) + 1
<1>1. Append(s, m) = s \o <<m>> /\ <<m>> \in Seq(Message)
  OBVIOUS
<1>2. \A n \in DOMAIN s : AnsweredAt(s, n) => AnsweredAt(Append(s, m), n)
  BY <1>1, AnsweredGrows
<1>3. Append(s, m)[Len(s) + 1] = m /\ DOMAIN s = 1 .. Len(s)
      /\ DOMAIN Append(s, m) = 1 .. Len(s) + 1 /\ Len(s) \in Nat
  OBVIOUS
<1>4. m.role # "assistant" \/ ~(m.calls > 0) => AnsweredAt(Append(s, m), Len(s) + 1)
  <2>1. m.calls \in Nat
    BY DEF Message
  <2> QED BY <2>1 DEF AnsweredAt
<1> QED BY <1>2, <1>4

-----------------------------------------------------------------------------
(***************************************************************************)
(* Every step keeps every part of the invariant.                           *)
(***************************************************************************)

(* The types of the control variables and counters.                        *)
LEMMA ScalarsNext ==
  ASSUME Scalars, [Next]_vars
  PROVE  Scalars'
<1> USE DEF Opening, Asking, Ending, Reports
<1>1. CASE StaleSnapshot \/ AgentStart \/ TurnStart \/ MessageStart
  BY <1>1
     DEF StaleSnapshot, AgentStart, Then, TurnStart, MessageStart, Scalars, loop, state, resp,
         env
<1>2. CASE MessageEnd
  BY <1>2 DEF MessageEnd, Then, Scalars, loop, resp, env
<1>3. CASE MessagesDone
  BY <1>3 DEF MessagesDone, Scalars, loop, state, resp, env
<1>4. CASE PollSteering
  <2>1. pc' \in {"messages", "turnStart", "pollFollowUp"} /\ first' = FALSE
    BY <1>4 DEF PollSteering, AfterPoll
  <2>2. handed' \in Nat
    BY <1>4 DEF PollSteering, Handed, Scalars
  <2> QED BY <1>4, <2>1, <2>2 DEF PollSteering, Scalars, loop, state, resp, env
<1>5. CASE PollFollowUp
  BY <1>5 DEF PollFollowUp, Handed, NoFollowUps, Scalars, loop, state, resp, env
<1>6. CASE Request
  <2>1. pc' \in {"stream", "settle", "report"} /\ faults' \in Nat
    BY <1>6 DEF Request, Then, Scalars
  <2>2. requests' \in Nat /\ late' \in Nat
    BY <1>6 DEF Request, Scalars
  <2> QED BY <1>6, <2>1, <2>2 DEF Request, Scalars, loop, state, resp, env
<1>7. CASE StreamStart
  BY <1>7 DEF StreamStart, Then, Scalars, loop, env
<1>8. CASE StreamUpdate
  BY <1>8 DEF StreamUpdate, Then, Scalars, loop, env
<1>9. CASE StreamFinal
  BY <1>9 DEF StreamFinal, Then, Scalars, loop, env
<1>10. CASE StreamBroken
  BY <1>10 DEF StreamBroken, Scalars, loop, state, resp, env
<1>11. CASE ResponseEnd
  <2>1. pc' \in {"tools", "turnEnd", "settle", "report"} /\ faults' \in Nat
    BY <1>11 DEF ResponseEnd, Then, Scalars
  <2> QED BY <1>11, <2>1 DEF ResponseEnd, Scalars, loop, resp, env
<1>12. CASE Tools
  <2>1. pc' \in {"turnEnd", "report"}
    BY <1>12 DEF Tools
  <2>2. more' = more \/ more' \in BOOLEAN
    BY <1>12 DEF Tools
  <2>3. faults' = faults \/ faults' = faults + 1
    BY <1>12 DEF Tools
  <2> QED BY <1>12, <2>1, <2>2, <2>3 DEF Tools, Scalars, loop, resp, env
<1>13. CASE TurnEnd
  BY <1>13 DEF TurnEnd, ErrorAfterTurn, Then, Scalars, loop, resp, env
<1>14. CASE AfterTurn
  BY <1>14 DEF AfterTurn, Scalars, loop, state, resp, env
<1>15. CASE AgentEnd
  BY <1>15 DEF AgentEnd, Then, Scalars, loop, resp, env
<1>16. CASE ReportStart
  BY <1>16 DEF ReportStart, Then, Scalars, loop, resp, env
<1>17. CASE ReportEnd
  BY <1>17 DEF ReportEnd, Then, Scalars, loop, resp, env
<1>18. CASE ReportTurn
  BY <1>18 DEF ReportTurn, Then, Scalars, loop, resp, env
<1>19. CASE ReportAgent
  BY <1>19 DEF ReportAgent, Then, Scalars, loop, resp, env
<1>20. CASE Settle
  BY <1>20 DEF Settle, Scalars, loop, resp, env
<1>21. CASE Cancel
  BY <1>21 DEF Cancel, Scalars, loop, state, resp, env
<1>22. CASE UNCHANGED vars
  BY <1>22 DEF Scalars, vars, loop, state, resp, env
<1> QED BY <1>1, <1>2, <1>3, <1>4, <1>5, <1>6, <1>7, <1>8, <1>9, <1>10, <1>11, <1>12, <1>13,
           <1>14, <1>15, <1>16, <1>17, <1>18, <1>19, <1>20, <1>21, <1>22
           DEF Next, LoopStep, Done

(* The type of what a subscriber has seen.                                 *)
LEMMA SeenNext ==
  ASSUME seen \in View, [Next]_vars
  PROVE  (seen \in View)'
<1> USE DEF Opening, Asking, Ending, Reports
<1>1. CASE StaleSnapshot \/ AgentStart \/ TurnStart \/ MessageStart
  BY <1>1 DEF StaleSnapshot, AgentStart, Emit, TurnStart, MessageStart, View
<1>2. CASE MessageEnd \/ MessagesDone \/ PollSteering \/ PollFollowUp
  BY <1>2 DEF MessageEnd, Emit, MessagesDone, PollSteering, PollFollowUp, View, loop
<1>3. CASE Request \/ StreamStart \/ StreamUpdate \/ StreamBroken
  BY <1>3 DEF Request, StreamStart, Emit, StreamUpdate, StreamBroken, View
<1>4. CASE StreamFinal
  <2>1. seen' = seen \/ Emit([seen EXCEPT !.msg = "assistant"])
    BY <1>4 DEF StreamFinal
  <2> QED BY <2>1 DEF View, Emit
<1>5. CASE ResponseEnd \/ Tools \/ TurnEnd \/ AfterTurn
  BY <1>5 DEF ResponseEnd, Emit, Tools, TurnEnd, AfterTurn, View
<1>6. CASE AgentEnd \/ ReportStart \/ ReportEnd \/ ReportTurn
  BY <1>6 DEF AgentEnd, Emit, ReportStart, ReportEnd, ReportTurn, View, loop
<1>7. CASE ReportAgent \/ Settle \/ Cancel
  BY <1>7 DEF ReportAgent, Emit, Settle, Cancel, View
<1>8. CASE UNCHANGED vars
  BY <1>8 DEF vars
<1> QED BY <1>1, <1>2, <1>3, <1>4, <1>5, <1>6, <1>7, <1>8 DEF Next, LoopStep, Done

(* The types of the messages and of their sequences.                       *)
LEMMA MessagesNext ==
  ASSUME Scalars, LoopInv, Messages, [Next]_vars
  PROVE  Messages'
<1> USE DEF Opening, Asking, Ending, Reports
<1>1. CASE StaleSnapshot
  BY <1>1 DEF StaleSnapshot, Messages, loop, state, resp
<1>2. CASE AgentStart
  BY <1>2 DEF AgentStart, Messages, loop, state, resp
<1>3. CASE TurnStart
  BY <1>3 DEF TurnStart, Messages, loop, state, resp
<1>4. CASE MessageStart
  BY <1>4, Constructors DEF MessageStart, Messages, loop, resp
<1>5. CASE MessageEnd
  <2>1. held # <<>> /\ held \in Seq(Users)
    BY <1>5 DEF MessageEnd, Messages, LoopInv
  <2>2. Head(held) \in Users /\ Tail(held) \in Seq(Users)
    BY <2>1
  <2>3. Head(held) \in Message
    BY <2>2, Constructors
  <2> QED BY <1>5, <2>2, <2>3 DEF MessageEnd, SinkMessageEnd, Messages, loop, resp
<1>6. CASE MessagesDone
  BY <1>6 DEF MessagesDone, Messages, state, resp
<1>7. CASE PollSteering
  <2>1. held' \in Seq(Users)
    BY <1>7, HandedTyped DEF PollSteering, Scalars
  <2> QED BY <1>7, <2>1 DEF PollSteering, Messages, loop, state, resp, env
<1>8. CASE PollFollowUp
  <2>1. held' \in Seq(Users)
    BY <1>8, HandedTyped DEF PollFollowUp, Scalars
  <2> QED BY <1>8, <2>1 DEF PollFollowUp, Messages, loop, state, resp, env
<1>9. CASE Request
  BY <1>9 DEF Request, Messages, loop, state
<1>10. CASE StreamStart
  <2> DEFINE m == Assistant(requests, "partial", 0)
  <2>1. m \in Message
    BY Constructors DEF Scalars
  <2>2. context' = Append(context, m) /\ streaming' = <<m>>
    BY <1>10 DEF StreamStart
  <2> HIDE DEF m
  <2> QED BY <1>10, <2>1, <2>2 DEF StreamStart, Messages, loop
<1>11. CASE StreamUpdate
  <2> DEFINE m == Assistant(requests, "partial", updates')
  <2>1. m \in Message
    BY <1>11, Constructors DEF Scalars, StreamUpdate
  <2>2. context' = ReplaceLast(context, m) /\ streaming' = <<m>>
    BY <1>11 DEF StreamUpdate
  <2> HIDE DEF m
  <2>3. context' \in Seq(Message)
    BY <2>1, <2>2, ReplaceLastTyped DEF Messages
  <2> QED BY <1>11, <2>1, <2>2, <2>3 DEF StreamUpdate, Messages, loop
<1>12. CASE StreamFinal
  <2>1. FinalMessages \subseteq Message
    BY FinalMessagesTyped
  <2>2. PICK m \in Message : /\ final' = m /\ context' = FinalContext(m)
                            /\ streaming' \in {streaming, <<m>>}
    BY <1>12, <2>1 DEF StreamFinal
  <2>3. context' \in Seq(Message)
    <3>1. CASE partial
      BY <2>2, ReplaceLastTyped DEF FinalContext, Messages
    <3>2. CASE ~partial
      BY <2>2, <3>2 DEF FinalContext, Messages
    <3> QED BY <3>1, <3>2
  <2>4. held' = held /\ new' = new /\ transcript' = transcript
    BY <1>12 DEF StreamFinal, loop
  <2>5. streaming' \in Seq(Message)
    <3>1. <<m>> \in Seq(Message)
      OBVIOUS
    <3> QED BY <2>2, <3>1 DEF Messages
  <2> QED BY <2>2, <2>3, <2>4, <2>5 DEF Messages
<1>13. CASE StreamBroken
  BY <1>13 DEF StreamBroken, Messages, loop, state, resp
<1>14. CASE ResponseEnd
  BY <1>14 DEF ResponseEnd, SinkMessageEnd, Messages, loop, resp
<1>15. CASE Tools
  <2>1. \A n \in Answered : n \in Nat
    <3>1. final.calls \in Nat
      BY DEF Messages, Message
    <3> QED BY AnsweredTyped
  <2>2. PICK n \in Nat, k \in Nat :
          /\ context' = context \/ context' = context \o Results(n)
          /\ new' = new \/ new' = new \o Results(n)
          /\ transcript' = transcript \o Results(n) \/ transcript' = transcript \o Results(k)
    <3>1. \A n \in Nat : 0 .. n \subseteq Nat /\ n \in 0 .. n
      OBVIOUS
    <3>2. PICK n \in Answered :
            \/ /\ transcript' = transcript \o Results(n)
               /\ context' = context \o Results(n) /\ new' = new \o Results(n)
            \/ /\ \E k \in 0 .. n : transcript' = transcript \o Results(k)
               /\ context' = context /\ new' = new
      BY <1>15 DEF Tools
    <3> QED BY <2>1, <3>1, <3>2
  <2>3. Results(n) \in Seq(Message) /\ Results(k) \in Seq(Message)
    BY ResultsTyped
  <2>4. context' \in Seq(Message) /\ new' \in Seq(Message) /\ transcript' \in Seq(Message)
    BY <2>2, <2>3, ConcatProperties DEF Messages
  <2> QED BY <1>15, <2>4 DEF Tools, Messages, loop, resp
<1>16. CASE TurnEnd
  BY <1>16 DEF TurnEnd, Messages, loop, resp
<1>17. CASE AfterTurn
  BY <1>17, Constructors DEF AfterTurn, Messages, loop, state, resp, env
<1>18. CASE AgentEnd
  BY <1>18 DEF AgentEnd, Messages, loop, resp
<1>19. CASE ReportStart
  BY <1>19, Constructors DEF ReportStart, Messages, loop, resp
<1>20. CASE ReportEnd
  BY <1>20, Constructors DEF ReportEnd, SinkMessageEnd, Messages, loop, resp
<1>21. CASE ReportTurn
  BY <1>21 DEF ReportTurn, Messages, loop, resp
<1>22. CASE ReportAgent
  BY <1>22 DEF ReportAgent, Messages, loop, resp
<1>23. CASE Settle
  BY <1>23 DEF Settle, Messages, loop, resp
<1>24. CASE Cancel
  BY <1>24 DEF Cancel, Messages, loop, state, resp, env
<1>25. CASE UNCHANGED vars
  BY <1>25 DEF Messages, vars, loop, state, resp
<1> QED BY <1>1, <1>2, <1>3, <1>4, <1>5, <1>6, <1>7, <1>8, <1>9, <1>10, <1>11, <1>12, <1>13,
           <1>14, <1>15, <1>16, <1>17, <1>18, <1>19, <1>20, <1>21, <1>22, <1>23, <1>24, <1>25
           DEF Next, LoopStep, Done

(* Only the first turn has prompts and skips its TurnStart after a poll.   *)
LEMMA LoopNext ==
  ASSUME TypeOK, LoopInv, [Next]_vars
  PROVE  LoopInv'
<1> USE DEF Opening, Asking, Ending, Reports
<1>1. CASE StaleSnapshot \/ AgentStart \/ TurnStart \/ MessageStart
  BY <1>1 DEF StaleSnapshot, AgentStart, Then, TurnStart, MessageStart, LoopInv, loop
<1>2. CASE MessageEnd
  BY <1>2 DEF MessageEnd, Then, LoopInv, loop
<1>3. CASE MessagesDone
  BY <1>3 DEF MessagesDone, LoopInv, loop
<1>4. CASE PollSteering
  BY <1>4 DEF PollSteering, AfterPoll, LoopInv, loop
<1>5. CASE PollFollowUp
  BY <1>5 DEF PollFollowUp, NoFollowUps, LoopInv, loop
<1>6. CASE Request \/ StreamStart \/ StreamUpdate \/ StreamFinal
  BY <1>6 DEF Request, Then, StreamStart, StreamUpdate, StreamFinal, LoopInv, loop
<1>7. CASE StreamBroken
  BY <1>7 DEF StreamBroken, LoopInv, loop
<1>8. CASE ResponseEnd
  BY <1>8 DEF ResponseEnd, Then, LoopInv, loop
<1>9. CASE Tools
  BY <1>9 DEF Tools, LoopInv, loop
<1>10. CASE TurnEnd
  BY <1>10 DEF TurnEnd, Then, LoopInv, loop
<1>11. CASE AfterTurn \/ AgentEnd \/ ReportStart \/ ReportEnd
  BY <1>11 DEF AfterTurn, AgentEnd, Then, ReportStart, ReportEnd, LoopInv, loop
<1>12. CASE ReportTurn \/ ReportAgent \/ Settle \/ Cancel
  BY <1>12 DEF ReportTurn, Then, ReportAgent, Settle, Cancel, LoopInv, loop
<1>13. CASE UNCHANGED vars
  BY <1>13 DEF LoopInv, vars, loop
<1> QED BY <1>1, <1>2, <1>3, <1>4, <1>5, <1>6, <1>7, <1>8, <1>9, <1>10, <1>11, <1>12, <1>13
           DEF Next, LoopStep, Done

(* Each point of the loop and of the report is told in one way.            *)
LEMMA ViewNext ==
  ASSUME TypeOK, LoopInv, ViewInv, [Next]_vars
  PROVE  ViewInv'
<1> USE DEF Opening, Asking, Ending, Reports
<1>1. CASE StaleSnapshot \/ AgentStart \/ TurnStart \/ MessageStart
  BY <1>1
     DEF StaleSnapshot, AgentStart, Emit, Then, TurnStart, MessageStart, TypeOK, View,
         ViewInv, Shows
<1>2. CASE MessageEnd \/ MessagesDone \/ PollSteering \/ PollFollowUp
  BY <1>2
     DEF MessageEnd, Emit, Then, MessagesDone, PollSteering, AfterPoll, PollFollowUp,
         NoFollowUps, TypeOK, View, LoopInv, ViewInv, Shows, loop
<1>3. CASE Request \/ StreamStart \/ StreamUpdate \/ StreamBroken
  BY <1>3
     DEF Request, Then, StreamStart, Emit, StreamUpdate, StreamBroken, TypeOK, Scalars, View,
         ViewInv, Shows
<1>4. CASE StreamFinal
  <2>1. Shows("running", TRUE, IF partial THEN "assistant" ELSE "none")
    BY <1>4 DEF ViewInv, StreamFinal
  <2>2. /\ pc' \in {"responseEnd", "report"} /\ first' = first
        /\ IF partial THEN UNCHANGED seen ELSE Emit([seen EXCEPT !.msg = "assistant"])
    <3>1. CASE partial
      BY <1>4, <3>1 DEF StreamFinal, loop
    <3>2. CASE ~partial
      <4>1. Emit([seen EXCEPT !.msg = "assistant"]) /\ Then("responseEnd") /\ first' = first
        BY <1>4, <3>2 DEF StreamFinal, loop
      <4>2. seen.run = "running" /\ seen'.run = "running"
        BY <2>1, <4>1 DEF Emit, Shows
      <4> QED BY <3>2, <4>1, <4>2 DEF Then
    <3> QED BY <3>1, <3>2
  <2>3. Shows("running", TRUE, "assistant")'
    BY <2>1, <2>2 DEF Emit, Shows, TypeOK, View
  <2> QED BY <2>2, <2>3 DEF ViewInv, Shows
<1>5. CASE ResponseEnd \/ Tools \/ TurnEnd \/ AfterTurn
  BY <1>5
     DEF ResponseEnd, Emit, Then, Tools, TurnEnd, AfterTurn, TypeOK, Scalars, View, LoopInv,
         ViewInv, Shows, loop
<1>6. CASE AgentEnd \/ ReportStart \/ ReportEnd \/ ReportTurn
  BY <1>6
     DEF AgentEnd, Emit, Then, ReportStart, ReportEnd, ReportTurn, TypeOK, View, ViewInv,
         Shows
<1>7. CASE ReportAgent \/ Settle \/ Cancel
  BY <1>7 DEF ReportAgent, Then, Settle, Cancel, ViewInv, Shows, loop, resp
<1>8. CASE UNCHANGED vars
  BY <1>8 DEF ViewInv, Shows, vars, loop, resp
<1> QED BY <1>1, <1>2, <1>3, <1>4, <1>5, <1>6, <1>7, <1>8 DEF Next, LoopStep, Done

(* The copies of the conversation grow together.                           *)
LEMMA CopyNext ==
  ASSUME TypeOK, LoopInv, CopyInv, [Next]_vars
  PROVE  CopyInv'
<1> USE DEF Opening, Asking, Ending, Reports
<1>1. CASE StaleSnapshot
  BY <1>1 DEF StaleSnapshot, CopyInv
<1>2. CASE AgentStart
  BY <1>2 DEF AgentStart, Then, CopyInv, loop, state, env
<1>3. CASE TurnStart
  BY <1>3 DEF TurnStart, Then, CopyInv, loop, state, env
<1>4. CASE MessageStart
  BY <1>4 DEF MessageStart, Then, CopyInv, loop, env
<1>5. CASE MessageEnd
  <2>1. held # <<>> /\ held \in Seq(Users) /\ Head(held) \in Users
    BY <1>5 DEF MessageEnd, LoopInv, TypeOK, Messages
  <2>2. Head(held) \in Message /\ held \in Seq(Message)
    BY <2>1, Constructors
  <2>3. /\ transcript' = Append(transcript, Head(held)) /\ held' = Tail(held) /\ streaming' = <<>>
        /\ prompting' = prompting /\ compacted' = compacted /\ pc' # "stream" /\ pc' # "responseEnd"
        /\ context' = IF JoinsRun THEN Append(context, Head(held)) ELSE context
        /\ new' = IF JoinsRun THEN Append(new, Head(held)) ELSE new
        /\ pc = "messageEnd"
    BY <1>5 DEF MessageEnd, SinkMessageEnd, Then, env
  <2>4. CASE prompting
    <3>1. transcript' \o held' = transcript \o held
      BY <2>1, <2>3
    <3> QED BY <2>3, <2>4, <3>1 DEF CopyInv, JoinsRun
  <2>5. CASE ~prompting
    <3>1. Base \o new' = Append(Base \o new, Head(held))
      BY <2>2, <2>3, <2>5, AppendToNew DEF JoinsRun, TypeOK, Messages
    <3> QED BY <2>3, <2>5, <3>1 DEF CopyInv
  <2> QED BY <2>4, <2>5
<1>6. CASE MessagesDone
  <2>1. held = <<>> => transcript \o held = transcript
    OBVIOUS
  <2> QED BY <1>6 DEF MessagesDone, CopyInv, state, env
<1>7. CASE PollSteering
  BY <1>7 DEF PollSteering, AfterPoll, LoopInv, CopyInv, state, env
<1>8. CASE PollFollowUp
  BY <1>8 DEF PollFollowUp, NoFollowUps, LoopInv, CopyInv, state, env
<1>9. CASE Request
  BY <1>9 DEF Request, Then, CopyInv, loop, state, resp, env
<1>10. CASE StreamStart
  <2> DEFINE m == Assistant(requests, "partial", 0)
  <2>1. m \in Message
    BY Constructors DEF TypeOK, Scalars
  <2>2. /\ context' = Append(context, m) /\ partial' = TRUE
        /\ UNCHANGED <<transcript, new, held, prompting, compacted>>
        /\ pc' \in {"stream"} \cup Ending /\ pc = "stream" /\ ~partial
    BY <1>10 DEF StreamStart, Then, loop, env
  <2> HIDE DEF m
  <2> QED BY <2>1, <2>2 DEF CopyInv, LoopInv
<1>11. CASE StreamUpdate
  <2> DEFINE m == Assistant(requests, "partial", updates')
  <2>1. m \in Message
    BY <1>11, Constructors DEF TypeOK, Scalars, StreamUpdate
  <2>2. /\ context' = ReplaceLast(context, m) /\ partial' = partial
        /\ UNCHANGED <<transcript, new, held, prompting, compacted>>
        /\ pc' \in {"stream"} \cup Ending /\ pc = "stream" /\ partial
    BY <1>11 DEF StreamUpdate, Then, loop, env
  <2> HIDE DEF m
  <2>3. ~compacted => context' = Append(transcript, m)
    <3>1. ASSUME ~compacted PROVE \E x \in Message : context = Append(transcript, x)
      BY <2>2, <3>1 DEF CopyInv, LoopInv
    <3> QED BY <2>1, <2>2, <3>1, ReplaceAppended, ZenonT(40) DEF TypeOK, Messages
  <2> QED BY <2>1, <2>2, <2>3 DEF CopyInv, LoopInv
<1>12. CASE StreamFinal
  <2>1. FinalMessages \subseteq Message
    BY FinalMessagesTyped DEF TypeOK
  <2>2. /\ UNCHANGED <<transcript, new, held, prompting, compacted>>
        /\ pc' \in {"responseEnd"} \cup Ending /\ pc = "stream"
    BY <1>12 DEF StreamFinal, Then, loop, env
  <2>3. final' \in Message /\ context' = FinalContext(final')
    BY <1>12, <2>1 DEF StreamFinal
  <2>4. ~compacted => context' = Append(transcript, final')
    <3>1. CASE partial
      <4>1. ASSUME ~compacted PROVE \E x \in Message : context = Append(transcript, x)
        BY <2>2, <3>1, <4>1 DEF CopyInv, LoopInv
      <4> QED BY <2>3, <3>1, <4>1, ReplaceAppended, ZenonT(40) DEF FinalContext, TypeOK, Messages
    <3>2. CASE ~partial
      BY <2>2, <2>3, <3>2 DEF FinalContext, CopyInv, LoopInv
    <3> QED BY <3>1, <3>2
  <2> QED BY <2>2, <2>3, <2>4 DEF CopyInv, LoopInv
<1>13. CASE StreamBroken
  BY <1>13 DEF StreamBroken, CopyInv
<1>14. CASE ResponseEnd
  <2>1. /\ transcript' = Append(transcript, final) /\ streaming' = <<>> /\ new' = Append(new, final)
        /\ UNCHANGED <<context, prompting, held, compacted>>
        /\ pc' \in {"tools", "turnEnd"} \cup Ending /\ pc = "responseEnd"
    BY <1>14 DEF ResponseEnd, SinkMessageEnd, Then, env
  <2>2. Base \o new' = Append(Base \o new, final)
    BY <2>1
  <2> QED BY <2>1, <2>2 DEF CopyInv, LoopInv
<1>15. CASE Tools
  <2>1. ~prompting /\ pc = "tools" /\ UNCHANGED <<prompting, held, compacted, streaming>>
    BY <1>15 DEF Tools, LoopInv, env
  <2>2. CASE pc' = "report"
    BY <2>2 DEF CopyInv
  <2>3. CASE pc' = "turnEnd"
    <3>1. PICK n \in Nat : /\ transcript' = transcript \o Results(n)
                          /\ context' = context \o Results(n) /\ new' = new \o Results(n)
      <4>1. \A n \in Answered : n \in Nat
        <5>1. final.calls \in Nat
          BY DEF TypeOK, Messages, Message
        <5> QED BY AnsweredTyped DEF TypeOK
      <4> QED BY <1>15, <2>3, <4>1 DEF Tools
    <3>2. (Base \o new) \o Results(n) = Base \o new'
      <4>1. Base \in Seq(Message) /\ new \in Seq(Message) /\ Results(n) \in Seq(Message)
        BY Constructors, ResultsTyped DEF TypeOK, Messages
      <4> QED BY <3>1, <4>1, ConcatAssociative, SMTT(30)
    <3> QED BY <2>1, <2>3, <3>1, <3>2 DEF CopyInv
  <2>4. pc' \in {"report", "turnEnd"}
    BY <1>15 DEF Tools
  <2> QED BY <2>2, <2>3, <2>4
<1>16. CASE TurnEnd
  BY <1>16 DEF TurnEnd, Then, CopyInv, loop, env
<1>17. CASE AfterTurn
  BY <1>17 DEF AfterTurn, LoopInv, CopyInv, loop, state, env
<1>18. CASE AgentEnd
  BY <1>18 DEF AgentEnd, Then, CopyInv
<1>19. CASE ReportStart
  BY <1>19 DEF ReportStart, Then, CopyInv
<1>20. CASE ReportEnd \/ ReportTurn \/ ReportAgent \/ Settle
  BY <1>20 DEF ReportEnd, Then, ReportTurn, ReportAgent, Settle, CopyInv
<1>21. CASE Cancel
  BY <1>21 DEF Cancel, CopyInv, loop, state, resp, env
<1>22. CASE UNCHANGED vars
  BY <1>22 DEF CopyInv, vars, loop, state, resp, env
<1> QED BY <1>1, <1>2, <1>3, <1>4, <1>5, <1>6, <1>7, <1>8, <1>9, <1>10, <1>11, <1>12, <1>13,
           <1>14, <1>15, <1>16, <1>17, <1>18, <1>19, <1>20, <1>21, <1>22
           DEF Next, LoopStep, Done

(* error_message follows the last message.                                 *)
LEMMA ErrorNext ==
  ASSUME TypeOK, LoopInv, ViewInv, ErrorInv, [Next]_vars
  PROVE  ErrorInv'
<1> USE DEF Opening, Asking, Ending, Reports
<1>1. CASE StaleSnapshot \/ AgentStart \/ TurnStart \/ MessageStart
  BY <1>1
     DEF StaleSnapshot, AgentStart, Then, TurnStart, MessageStart, ErrorInv, LastFails,
         ViewInv, Shows, loop, state
<1>2. CASE MessageEnd
  <2>1. held # <<>> /\ Head(held) \in Users
    BY <1>2 DEF MessageEnd, LoopInv, TypeOK, Messages
  <2>2. Head(held) \in Message /\ ~Failed(Head(held))
    BY <2>1 DEF Failed, Users
  <2>3. transcript' = Append(transcript, Head(held)) /\ UNCHANGED <<errorSet, prompting>>
    BY <1>2 DEF MessageEnd, SinkMessageEnd
  <2>4. transcript' # <<>> /\ ~LastFails'
    BY <2>2, <2>3, LastAppended DEF TypeOK, Messages, LastFails
  <2>5. pc' \in {"messages", "report"} /\ ~errorSet
    <3>1. Shows("running", TRUE, "other")
      BY <1>2 DEF MessageEnd, ViewInv
    <3>2. seen'.run = "running"
      BY <1>2, <3>1 DEF MessageEnd, Emit, Shows
    <3>3. ~errorSet
      BY <1>2 DEF ErrorInv, MessageEnd
    <3> QED BY <1>2, <3>1, <3>2, <3>3 DEF MessageEnd, Then, Shows
  <2> QED BY <2>3, <2>4, <2>5 DEF ErrorInv
<1>3. CASE MessagesDone \/ PollSteering \/ PollFollowUp \/ Request
  BY <1>3
     DEF MessagesDone, PollSteering, AfterPoll, PollFollowUp, NoFollowUps, Request, Then,
         ErrorInv, LastFails, loop, state
<1>4. CASE StreamStart \/ StreamUpdate \/ StreamFinal \/ StreamBroken
  BY <1>4
     DEF StreamStart, Then, StreamUpdate, StreamFinal, StreamBroken, LoopInv, ErrorInv,
         ViewInv, Shows, loop, state
<1>5. CASE ResponseEnd
  <2>1. transcript' = Append(transcript, final) /\ UNCHANGED <<errorSet, prompting, final>>
    BY <1>5 DEF ResponseEnd, SinkMessageEnd, resp
  <2>2. transcript' # <<>> /\ (LastFails' <=> Failed(final))
    BY <2>1, LastAppended DEF TypeOK, Messages, LastFails
  <2>3. pc' \in {"tools", "turnEnd", "report"} /\ ~errorSet /\ ~prompting
        /\ (pc' = "tools" => ~EndsRun(final))
    <3>1. Shows("running", TRUE, "assistant")
      BY <1>5 DEF ResponseEnd, ViewInv
    <3>2. seen'.run = "running"
      BY <1>5, <3>1 DEF ResponseEnd, Emit, Shows
    <3>3. ~errorSet /\ ~prompting
      BY <1>5 DEF ErrorInv, LoopInv, ResponseEnd
    <3> QED BY <1>5, <3>1, <3>2, <3>3 DEF ResponseEnd, Then, Shows
  <2>4. Failed(final) => EndsRun(final)
    BY DEF Failed, EndsRun
  <2>5. Failed(final') = Failed(final)
    BY <2>1
  <2> QED BY <2>1, <2>2, <2>3, <2>4 DEF ErrorInv
<1>6. CASE Tools
  <2>1. ~Failed(final) /\ ~LastFails /\ ~errorSet /\ ~prompting /\ transcript # <<>>
    BY <1>6 DEF ErrorInv, LoopInv, Tools
  <2>2. UNCHANGED <<errorSet, prompting, final>> /\ pc' \in {"turnEnd", "report"}
    BY <1>6 DEF Tools, resp
  <2>3. PICK n \in Nat : transcript' = transcript \o Results(n)
    <3>1. \A n \in Answered : n \in Nat /\ 0 .. n \subseteq Nat
      <4>1. final.calls \in Nat
        BY DEF TypeOK, Messages, Message
      <4> QED BY AnsweredTyped DEF TypeOK
    <3>2. PICK n \in Answered : \/ transcript' = transcript \o Results(n)
                               \/ \E k \in 0 .. n : transcript' = transcript \o Results(k)
      BY <1>6 DEF Tools
    <3> QED BY <3>1, <3>2
  <2>4. transcript' # <<>> /\ ~LastFails'
    <3>1. ~Failed(Result(requests, n))
      BY DEF Failed, Result
    <3> QED BY <2>1, <2>3, <3>1, LastConcatenated DEF TypeOK, Messages, LastFails
  <2>5. Failed(final') = Failed(final)
    BY <2>2
  <2> QED BY <2>1, <2>2, <2>4 DEF ErrorInv
<1>7. CASE TurnEnd \/ AfterTurn \/ AgentEnd \/ ReportStart
  BY <1>7
     DEF TurnEnd, ErrorAfterTurn, EndsRun, Then, AfterTurn, AgentEnd, ReportStart, TypeOK,
         Scalars, ErrorInv, LastFails, Failed, View, ViewInv, Shows, loop, state
<1>8. CASE ReportEnd
  <2>1. transcript' = Append(transcript, Failure) /\ UNCHANGED errorSet
    BY <1>8 DEF ReportEnd, SinkMessageEnd
  <2>2. transcript' # <<>> /\ LastFails'
    <3>1. Failed(Failure)
      BY DEF Failed, Failure, Assistant
    <3> QED BY <2>1, <3>1, LastAppended, Constructors DEF TypeOK, Messages, LastFails
  <2>3. seen'.run = "failing" /\ pc' \in {"reportTurn", "settle"}
    BY <1>8 DEF ReportEnd, Emit, Then, ViewInv
  <2> QED BY <2>2, <2>3 DEF ErrorInv
<1>9. CASE ReportTurn \/ ReportAgent \/ Settle \/ Cancel
  BY <1>9
     DEF ReportTurn, Then, ReportAgent, Settle, Cancel, ErrorInv, LastFails, loop, state, resp
<1>10. CASE UNCHANGED vars
  BY <1>10 DEF ErrorInv, LastFails, vars, loop, state, resp
<1> QED BY <1>1, <1>2, <1>3, <1>4, <1>5, <1>6, <1>7, <1>8, <1>9, <1>10
           DEF Next, LoopStep, Done

(* The final message answers the last request.                             *)
LEMMA AnswerNext ==
  ASSUME TypeOK, AnswerInv, [Next]_vars
  PROVE  AnswerInv'
<1> USE DEF Opening, Asking, Ending, Reports
<1>1. CASE StaleSnapshot \/ AgentStart \/ TurnStart \/ MessageStart
  BY <1>1 DEF StaleSnapshot, AgentStart, Then, TurnStart, MessageStart, AnswerInv
<1>2. CASE MessageEnd \/ MessagesDone \/ PollSteering \/ PollFollowUp
  BY <1>2
     DEF MessageEnd, Then, MessagesDone, PollSteering, AfterPoll, PollFollowUp, NoFollowUps,
         AnswerInv, loop
<1>3. CASE Request \/ StreamStart \/ StreamUpdate \/ StreamFinal
  BY <1>3
     DEF Request, Then, StreamStart, StreamUpdate, StreamFinal, FinalMessages, AnswerInv,
         Assistant, EndsRun, loop
<1>4. CASE StreamBroken \/ ResponseEnd \/ Tools \/ TurnEnd
  BY <1>4 DEF StreamBroken, ResponseEnd, Then, Tools, TurnEnd, AnswerInv, resp
<1>5. CASE AfterTurn \/ AgentEnd \/ ReportStart \/ ReportEnd
  BY <1>5 DEF AfterTurn, AgentEnd, Then, ReportStart, ReportEnd, AnswerInv
<1>6. CASE ReportTurn \/ ReportAgent \/ Settle \/ Cancel
  BY <1>6 DEF ReportTurn, Then, ReportAgent, Settle, Cancel, AnswerInv, resp
<1>7. CASE UNCHANGED vars
  BY <1>7 DEF AnswerInv, vars, resp
<1> QED BY <1>1, <1>2, <1>3, <1>4, <1>5, <1>6, <1>7 DEF Next, LoopStep, Done

(* A request that finds its token cancelled is the last one.               *)
LEMMA LateNext ==
  ASSUME TypeOK, LateInv, [Next]_vars
  PROVE  LateInv'
<1> USE DEF Opening, Asking, Ending, Reports
<1>1. CASE StaleSnapshot \/ AgentStart \/ TurnStart \/ MessageStart
  BY <1>1 DEF StaleSnapshot, AgentStart, TurnStart, MessageStart, LateInv, resp
<1>2. CASE MessageEnd \/ MessagesDone \/ PollSteering \/ PollFollowUp
  BY <1>2
     DEF MessageEnd, MessagesDone, PollSteering, PollFollowUp, LateInv, EndsRun, Assistant,
         loop, resp, env
<1>3. CASE Request \/ StreamStart \/ StreamUpdate \/ StreamFinal
  BY <1>3
     DEF Request, Then, StreamStart, StreamUpdate, StreamFinal, FinalMessages, LateInv,
         Assistant, env
<1>4. CASE StreamBroken
  BY <1>4 DEF StreamBroken, LateInv, resp, env
<1>5. CASE ResponseEnd
  BY <1>5 DEF ResponseEnd, EndsRun, Then, TypeOK, Scalars, LateInv, Assistant, loop, resp, env
<1>6. CASE Tools
  BY <1>6 DEF Tools, LateInv, EndsRun, Assistant, loop, resp
<1>7. CASE TurnEnd
  BY <1>7 DEF TurnEnd, EndsRun, Then, TypeOK, Scalars, LateInv, resp, env
<1>8. CASE AfterTurn \/ AgentEnd \/ ReportStart \/ ReportEnd
  BY <1>8 DEF AfterTurn, AgentEnd, Then, ReportStart, ReportEnd, LateInv, resp, env
<1>9. CASE ReportTurn \/ ReportAgent \/ Settle \/ Cancel
  BY <1>9 DEF ReportTurn, Then, ReportAgent, Settle, Cancel, LateInv, resp, env
<1>10. CASE UNCHANGED vars
  BY <1>10 DEF LateInv, vars, resp, env
<1> QED BY <1>1, <1>2, <1>3, <1>4, <1>5, <1>6, <1>7, <1>8, <1>9, <1>10
           DEF Next, LoopStep, Done

(* Tool calls are answered before anything follows them.                   *)
LEMMA CallsNext ==
  ASSUME TypeOK, LoopInv, ViewInv, AnswerInv, CallsInv, [Next]_vars
  PROVE  CallsInv'
<1> USE DEF Opening, Asking, Ending, Reports
<1>1. CASE StaleSnapshot \/ AgentStart \/ TurnStart \/ MessageStart
  BY <1>1 DEF StaleSnapshot, AgentStart, Then, TurnStart, MessageStart, CallsInv, state, env
<1>2. CASE MessageEnd
  <2>1. held # <<>> /\ held \in Seq(Users) /\ Head(held) \in Users
    BY <1>2 DEF MessageEnd, LoopInv, TypeOK, Messages
  <2>2. Head(held) \in Message /\ Head(held).role # "assistant"
    BY <2>1 DEF Users
  <2>3. /\ transcript' = Append(transcript, Head(held)) /\ cancelled' = cancelled
        /\ pc' \in {"messages"} \cup Ending /\ pc = "messageEnd"
    BY <1>2 DEF MessageEnd, SinkMessageEnd, Then, env
  <2>4. ASSUME ~cancelled, NEW n \in DOMAIN transcript' PROVE AnsweredAt(transcript', n)
    <3>1. \A i \in DOMAIN transcript : AnsweredAt(transcript, i)
      BY <2>3, <2>4 DEF CallsInv
    <3> QED BY <2>2, <2>3, <3>1, AnsweredOneMore DEF TypeOK, Messages
  <2> QED BY <2>3, <2>4 DEF CallsInv
<1>3. CASE MessagesDone \/ PollSteering \/ PollFollowUp \/ Request
  BY <1>3
     DEF MessagesDone, PollSteering, AfterPoll, PollFollowUp, NoFollowUps, Request, Then,
         CallsInv, state, env
<1>4. CASE StreamStart \/ StreamUpdate \/ StreamFinal \/ StreamBroken
  BY <1>4 DEF StreamStart, Then, StreamUpdate, StreamFinal, StreamBroken, CallsInv, env
<1>5. CASE ResponseEnd
  <2>1. /\ transcript' = Append(transcript, final) /\ UNCHANGED <<cancelled, final>>
        /\ pc' \in {"tools", "turnEnd"} \cup Ending /\ pc = "responseEnd"
        /\ pc' = "turnEnd" => EndsRun(final) \/ ~(final.calls > 0)
        /\ pc' = "tools" => final.calls > 0
    BY <1>5 DEF ResponseEnd, SinkMessageEnd, Then, env, resp
  <2>2. final \in Message /\ transcript \in Seq(Message) /\ final.calls \in Nat
    BY DEF TypeOK, Messages, Message
  <2>3. Last(transcript') = final /\ Len(transcript') = Len(transcript) + 1
        /\ DOMAIN transcript' = 1 .. Len(transcript) + 1 /\ Len(transcript) \in Nat
    BY <2>1, <2>2, LastAppended
  <2>4. ASSUME ~cancelled, NEW n \in 1 .. Len(transcript) PROVE AnsweredAt(transcript', n)
    <3>1. \A i \in DOMAIN transcript : AnsweredAt(transcript, i)
      BY <2>1, <2>4 DEF CallsInv
    <3> QED BY <2>1, <2>2, <3>1, AnsweredOneMore
  <2>5. ASSUME ~(final.calls > 0) PROVE AnsweredAt(transcript', Len(transcript) + 1)
    BY <2>1, <2>2, <2>5, AnsweredOneMore
  <2>6. EndsRun(final)' <=> EndsRun(final)
    BY <2>1
  <2>7. CASE pc' \in Ending
    BY <2>7 DEF CallsInv
  <2>8. CASE pc' = "tools" \/ (pc' = "turnEnd" /\ EndsRun(final))
    BY <2>1, <2>3, <2>4, <2>8 DEF CallsInv
  <2>9. CASE pc' = "turnEnd" /\ ~EndsRun(final)
    BY <2>1, <2>3, <2>4, <2>5 DEF CallsInv
  <2> QED BY <2>1, <2>7, <2>8, <2>9
<1>6. CASE Tools
  <2>1. pc' \in {"report", "turnEnd"} /\ UNCHANGED <<cancelled, final>> /\ pc = "tools"
    BY <1>6 DEF Tools, resp, env
  <2>2. CASE pc' = "report" \/ cancelled
    BY <2>1, <2>2 DEF CallsInv
  <2>3. CASE pc' = "turnEnd" /\ ~cancelled
    <3> DEFINE r == Results(final.calls)
    <3>1. final.calls \in Nat /\ transcript \in Seq(Message) /\ Len(transcript) \in Nat
      <4>1. transcript \in Seq(Message) /\ final \in Message
        BY DEF TypeOK, Messages
      <4>2. final.calls \in Nat
        BY <4>1 DEF Message
      <4> QED BY <4>1, <4>2
    <3>2. transcript' = transcript \o r
      <4>1. \A n \in Answered : n = final.calls
        BY <2>3, AnsweredTyped DEF TypeOK
      <4> QED BY <1>6, <2>3, <4>1 DEF Tools
    <3>3. r \in Seq(Message) /\ Len(r) = final.calls
          /\ \A k \in 1 .. final.calls : r[k] = Result(final.id, k)
      BY <2>1, <3>1, ResultsTyped DEF TypeOK, AnswerInv, Results
    <3>4. Last(transcript) = final
          /\ \A n \in DOMAIN transcript : n < Len(transcript) => AnsweredAt(transcript, n)
      BY <2>1, <2>3 DEF CallsInv
    <3> HIDE DEF r
    <3>5. /\ DOMAIN transcript' = 1 .. Len(transcript) + final.calls
          /\ DOMAIN transcript = 1 .. Len(transcript)
          /\ \A i \in 1 .. Len(transcript) : transcript'[i] = transcript[i]
          /\ \A k \in 1 .. final.calls : transcript'[Len(transcript) + k] = Result(final.id, k)
      BY <3>2, <3>3
    <3>6. ASSUME NEW n \in DOMAIN transcript' PROVE AnsweredAt(transcript', n)
      <4>1. CASE n < Len(transcript)
        BY <3>1, <3>2, <3>3, <3>4, <4>1, AnsweredGrows
      <4>2. CASE n = Len(transcript)
        BY <3>1, <3>4, <3>5, <4>2 DEF AnsweredAt, Last
      <4>3. CASE n > Len(transcript)
        <5>1. PICK k \in 1 .. final.calls : n = Len(transcript) + k
          <6>1. n - Len(transcript) \in 1 .. final.calls /\ n = Len(transcript) + (n - Len(transcript))
            BY <3>1, <3>5, <4>3
          <6> QED BY <6>1
        <5>2. transcript'[n] = Result(final.id, k)
          BY <3>5, <5>1
        <5>3. Result(final.id, k).role # "assistant"
          BY DEF Result
        <5> QED BY <5>2, <5>3 DEF AnsweredAt
      <4> QED BY <3>1, <4>1, <4>2, <4>3
    <3>7. ~EndsRun(final)'
      BY <2>1 DEF AnswerInv
    <3> QED BY <2>3, <3>6, <3>7 DEF CallsInv
  <2> QED BY <2>1, <2>2, <2>3
<1>7. CASE TurnEnd \/ AfterTurn \/ AgentEnd \/ ReportStart
  BY <1>7 DEF TurnEnd, Then, AfterTurn, AgentEnd, ReportStart, CallsInv, state, env
<1>8. CASE ReportEnd \/ ReportTurn \/ ReportAgent \/ Settle
  BY <1>8 DEF ReportEnd, Then, ReportTurn, ReportAgent, Settle, CallsInv
<1>9. CASE Cancel
  BY <1>9 DEF Cancel, CallsInv
<1>10. CASE UNCHANGED vars
  BY <1>10 DEF CallsInv, EndsRun, vars, state, resp, env
<1> QED BY <1>1, <1>2, <1>3, <1>4, <1>5, <1>6, <1>7, <1>8, <1>9, <1>10
           DEF Next, LoopStep, Done

(* An empty poll leads to a request only behind tool results.              *)
LEMMA DueNext ==
  ASSUME TypeOK, LoopInv, AnswerInv, DueInv, [Next]_vars
  PROVE  DueInv'
<1> USE DEF Opening, Asking, Ending, Reports
<1>1. CASE StaleSnapshot \/ AgentStart \/ TurnStart \/ MessageStart
  BY <1>1
     DEF StaleSnapshot, AgentStart, Then, TurnStart, MessageStart, LoopInv, DueInv, Answerable,
         loop, state
<1>2. CASE MessageEnd
  <2>1. held # <<>> /\ held \in Seq(Users) /\ Head(held) \in Users
    BY <1>2 DEF MessageEnd, LoopInv, TypeOK, Messages
  <2>2. Head(held) \in Message /\ Head(held).role # "assistant"
    BY <2>1 DEF Users
  <2>3. transcript' = Append(transcript, Head(held))
    BY <1>2 DEF MessageEnd, SinkMessageEnd
  <2>4. Answerable'
    BY <2>2, <2>3, LastAppended DEF Answerable, TypeOK, Messages
  <2> QED BY <2>4 DEF DueInv
<1>3. CASE MessagesDone
  BY <1>3 DEF MessagesDone, DueInv, Answerable, state
<1>4. CASE PollSteering
  BY <1>4 DEF PollSteering, AfterPoll, LoopInv, DueInv, Answerable, state
<1>5. CASE PollFollowUp
  BY <1>5 DEF PollFollowUp, NoFollowUps, LoopInv, DueInv, Answerable, state
<1>6. CASE Request \/ StreamStart \/ StreamUpdate \/ StreamFinal
  BY <1>6 DEF Request, Then, StreamStart, StreamUpdate, StreamFinal, LoopInv, DueInv, loop
<1>7. CASE StreamBroken
  BY <1>7 DEF StreamBroken, LoopInv, DueInv, loop
<1>8. CASE ResponseEnd
  BY <1>8 DEF ResponseEnd, Then, LoopInv, DueInv
<1>9. CASE Tools
  <2>1. pc' \in {"report", "turnEnd"} /\ pc = "tools" /\ UNCHANGED prompting
    BY <1>9 DEF Tools
  <2>2. CASE pc' = "report"
    BY <2>2 DEF DueInv
  <2>3. CASE pc' = "turnEnd"
    <3>1. PICK n \in Answered : transcript' = transcript \o Results(n)
      BY <1>9, <2>3 DEF Tools
    <3>2. n \in Nat /\ n # 0
      <4>1. final.calls \in Nat /\ final.calls > 0
        BY <2>1 DEF AnswerInv, TypeOK, Messages, Message
      <4> QED BY <4>1 DEF Answered
    <3>3. Results(n) \in Seq(Message) /\ Len(Results(n)) = n /\ Results(n)[n].role = "toolResult"
      <4>1. Results(n) \in Seq(Message) /\ Len(Results(n)) = n
        BY <3>2, ResultsTyped DEF TypeOK
      <4>2. Results(n)[n] = Result(requests, n)
        BY <3>2 DEF Results
      <4>3. Result(requests, n).role = "toolResult"
        BY DEF Result
      <4> QED BY <4>1, <4>2, <4>3
    <3> HIDE DEF Results
    <3>4. Last(transcript \o Results(n)) = Results(n)[n]
      BY <3>2, <3>3 DEF Last, TypeOK, Messages
    <3>5. Answerable'
      BY <3>1, <3>3, <3>4 DEF Answerable
    <3> QED BY <2>3, <3>5 DEF DueInv
  <2> QED BY <2>1, <2>2, <2>3
<1>10. CASE TurnEnd
  BY <1>10 DEF TurnEnd, Then, LoopInv, DueInv, Answerable, loop
<1>11. CASE AfterTurn
  BY <1>11 DEF AfterTurn, LoopInv, DueInv, Answerable, loop, state
<1>12. CASE AgentEnd \/ ReportStart \/ ReportEnd
  BY <1>12 DEF AgentEnd, Then, ReportStart, ReportEnd, LoopInv, DueInv, loop
<1>13. CASE ReportTurn \/ ReportAgent \/ Settle
  BY <1>13 DEF ReportTurn, Then, ReportAgent, Settle, LoopInv, DueInv, loop
<1>14. CASE Cancel
  BY <1>14 DEF Cancel, DueInv, Answerable, loop, state
<1>15. CASE UNCHANGED vars
  BY <1>15 DEF DueInv, Answerable, vars, loop, state
<1> QED BY <1>1, <1>2, <1>3, <1>4, <1>5, <1>6, <1>7, <1>8, <1>9, <1>10, <1>11, <1>12, <1>13,
           <1>14, <1>15
           DEF Next, LoopStep, Done

(* Every step is an allowed event or none.                                 *)
LEMMA StepsRefine ==
  ASSUME TypeOK, LoopInv, ViewInv, [Next]_vars
  PROVE  [Events!Next]_Events!vars
<1> USE DEF Opening, Asking, Ending, Reports
<1>1. CASE StaleSnapshot \/ AgentStart \/ TurnStart \/ MessageStart
  BY <1>1
     DEF StaleSnapshot, AgentStart, Emit, TurnStart, MessageStart, TypeOK, View, ViewInv,
         Shows, Events!vars, Events!Next, Events!Event, Events!AgentStart, Events!TurnStart,
         Events!MessageStart
<1>2. CASE MessageEnd \/ MessagesDone \/ PollSteering \/ PollFollowUp
  BY <1>2
     DEF MessageEnd, Emit, MessagesDone, PollSteering, PollFollowUp, TypeOK, View, ViewInv,
         Shows, Events!vars, Events!Next, Events!Event, Events!MessageEnd, loop
<1>3. CASE Request \/ StreamStart \/ StreamUpdate \/ StreamBroken
  BY <1>3
     DEF Request, StreamStart, Emit, StreamUpdate, StreamBroken, TypeOK, View, ViewInv, Shows,
         Events!vars, Events!Next, Events!Event, Events!MessageStart, Events!MessageUpdate
<1>4. CASE StreamFinal
  <2>1. Shows("running", TRUE, IF partial THEN "assistant" ELSE "none")
    BY <1>4 DEF ViewInv, StreamFinal
  <2>2. CASE partial
    BY <1>4, <2>2 DEF StreamFinal, Events!vars
  <2>3. CASE ~partial
    <3>1. Emit([seen EXCEPT !.msg = "assistant"])
      BY <1>4, <2>3 DEF StreamFinal
    <3>2. Events!MessageStart
      BY <2>1, <2>3, <3>1 DEF Emit, Shows, Events!MessageStart, Events!Event
    <3> QED BY <3>2 DEF Events!Next
  <2> QED BY <2>2, <2>3
<1>5. CASE ResponseEnd \/ Tools \/ TurnEnd \/ AfterTurn
  BY <1>5
     DEF ResponseEnd, Emit, Tools, TurnEnd, AfterTurn, TypeOK, View, ViewInv, Shows,
         Events!vars, Events!Next, Events!Event, Events!MessageEnd, Events!TurnEnd
<1>6. CASE AgentEnd \/ ReportStart \/ ReportEnd \/ ReportTurn
  BY <1>6
     DEF AgentEnd, Emit, ReportStart, ReportEnd, ReportTurn, TypeOK, View, ViewInv, Shows,
         Events!Next, Events!Event, Events!MessageEnd, Events!AgentEnd, Events!ReportStart,
         Events!ReportTurnEnd
<1>7. CASE ReportAgent \/ Settle \/ Cancel
  BY <1>7
     DEF ReportAgent, Emit, Settle, Cancel, TypeOK, View, ViewInv, Shows, Events!vars,
         Events!Next, Events!Event, Events!AgentEnd
<1>8. CASE UNCHANGED vars
  BY <1>8 DEF Events!vars, vars
<1> QED BY <1>1, <1>2, <1>3, <1>4, <1>5, <1>6, <1>7, <1>8 DEF Next, LoopStep, Done

-----------------------------------------------------------------------------
(***************************************************************************)
(* The invariant and the properties.                                       *)
(***************************************************************************)

\* The invariant holds at first.
LEMMA RunInvInit == Init => RunInv
<1> SUFFICES ASSUME Init PROVE RunInv
  OBVIOUS
<1> USE DEF Init, Opening, Asking, Ending, Reports
<1>1. held \in Seq(Users) /\ held \in Seq(Message)
  <2>1. User(1) \in Users /\ User(1) \in Message
    BY Constructors
  <2>2. <<>> \in Seq(Users) /\ <<>> \in Seq(Message)
    OBVIOUS
  <2>3. <<User(1)>> \in Seq(Users) /\ <<User(1)>> \in Seq(Message)
    BY <2>1
  <2>4. held = <<>> \/ held = <<User(1)>>
    OBVIOUS
  <2> QED BY <2>2, <2>3
<1>2. Base \in Seq(Message) /\ Base # <<>> /\ Last(Base) = User(0) /\ Len(Base) = 1 /\ Base[1] = User(0)
  BY Constructors DEF Base, Last
<1>3. TypeOK
  <2>1. Scalars
    BY DEF Scalars
  <2>2. Messages
    BY <1>1, Constructors DEF Messages
  <2>3. seen \in View
    BY DEF View
  <2> QED BY <2>1, <2>2, <2>3 DEF TypeOK
<1>4. LoopInv /\ ViewInv /\ LateInv
  BY DEF LoopInv, ViewInv, Shows, LateInv
<1>5. AnswerInv
  BY DEF AnswerInv
<1>6. CopyInv
  BY DEF CopyInv
<1>7. ErrorInv
  <2>1. ~LastFails
    <3>1. ~Failed(User(0))
      BY DEF Failed, User
    <3> QED BY <1>2, <3>1 DEF LastFails
  <2> QED BY <1>2, <2>1 DEF ErrorInv
<1>8. CallsInv
  <2>1. DOMAIN transcript = {1} /\ transcript[1] = User(0)
    BY <1>2
  <2>2. User(0).role # "assistant"
    BY DEF User
  <2>3. \A n \in DOMAIN transcript : AnsweredAt(transcript, n)
    BY <2>1, <2>2 DEF AnsweredAt
  <2> QED BY <2>3 DEF CallsInv
<1>9. DueInv
  <2>1. Last(transcript) = User(0)
    BY <1>2
  <2>2. User(0).role # "assistant"
    BY DEF User
  <2> QED BY <2>1, <2>2 DEF Answerable, DueInv
<1> QED BY <1>3, <1>4, <1>5, <1>6, <1>7, <1>8, <1>9 DEF RunInv

\* At every await point of run_loop its context, the new messages and the
\* transcript of the agent hold what was emitted, and no more.
THEOREM RunInvariant == Spec => []RunInv
<1>1. Init => RunInv
  BY RunInvInit
<1>2. ASSUME RunInv, [Next]_vars PROVE RunInv'
  <2>1. TypeOK'
    BY <1>2, ScalarsNext, MessagesNext, SeenNext DEF RunInv, TypeOK
  <2>2. LoopInv' /\ ViewInv' /\ CopyInv' /\ ErrorInv'
    BY <1>2, LoopNext, ViewNext, CopyNext, ErrorNext DEF RunInv
  <2>3. AnswerInv' /\ LateInv' /\ CallsInv' /\ DueInv'
    BY <1>2, AnswerNext, LateNext, CallsNext, DueNext DEF RunInv
  <2> QED BY <2>1, <2>2, <2>3 DEF RunInv
<1> QED BY <1>1, <1>2, PTL DEF Spec

(* What a subscriber sees of a run, of its failures and of their reports   *)
(* is a behaviour of RunEvents: the loop and emit_run_failure implement    *)
(* the README's event flow, whatever fails and whenever.                   *)
THEOREM EventsImplemented == Spec => SubscribersSeeRunEvents
<1>1. Init => Events!Init
  BY DEF Init, Events!Init
<1>2. RunInv /\ [Next]_vars => [Events!Next]_Events!vars
  BY StepsRefine DEF RunInv
<1> QED BY <1>1, <1>2, RunInvariant, PTL DEF Spec, SubscribersSeeRunEvents, Events!Spec

(* The context of the loop, the transcript of the agent and the new        *)
(* messages of the run agree where they are used, whatever the provider    *)
(* streamed and the tools returned; and error_message tells how the        *)
(* transcript ends.                                                        *)
THEOREM CopiesStayTogether == Spec => []CopiesAgree
<1>1. RunInv => CopiesAgree
  BY DEF RunInv, CopiesAgree, CopyInv, ErrorInv, LoopInv, LastFails, Opening, Asking, Ending,
         Reports
<1> QED BY <1>1, RunInvariant, PTL

(* A request is made when a prompt, a message of a queue or a tool result  *)
(* is the last of the transcript.  Unless the run is cancelled by then,    *)
(* each call in the transcript has its results right behind its message,   *)
(* all of them and in order; and no more than one request of a run is made *)
(* with a cancelled token.                                                 *)
THEOREM RequestsWereDue == Spec => []RequestsAreDue
<1>1. RunInv => RequestsAreDue
  <2> SUFFICES ASSUME RunInv PROVE CallsAnsweredBeforeRequest /\ late <= 1 /\ SomebodySpokeLast
    BY DEF RequestsAreDue, OneRequestAfterCancel
  <2>1. CallsAnsweredBeforeRequest
    BY DEF RunInv, CallsInv, AnsweredAt, CallsAnsweredBeforeRequest, Ending, Reports
  <2>2. late <= 1
    BY DEF RunInv, LateInv
  <2>3. SomebodySpokeLast
    BY DEF RunInv, DueInv, Answerable, SomebodySpokeLast
  <2> QED BY <2>1, <2>2, <2>3
<1> QED BY <1>1, RunInvariant, PTL

=============================================================================
