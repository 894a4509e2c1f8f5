---------------------------- MODULE EventStream -----------------------------
(***************************************************************************)
(* utils/event_stream.rs: the channel between a provider and its consumer, *)
(* and the stream that drives the provider.                                *)
(*                                                                         *)
(* stream_from_producer polls the provider's future only while the         *)
(* consumer waits for an event and the channel is empty (the select is     *)
(* biased towards the channel); within such a poll the provider may push   *)
(* several events.  polled is TRUE while that may happen.  A provider that *)
(* spawns a task of its own (faux.rs) pushes whenever it likes.            *)
(***************************************************************************)
EXTENDS Naturals, Sequences, FiniteSets

VARIABLES
  chan,      \* events pushed and not yet received
  sender,    \* the producer's sender is alive
  outcome,   \* of the producer's future: running, ok, error, aborted, gone
  polled,    \* the consumer waits and the channel was empty when it began to
  view       \* what the consumer has been told

streamVars == <<chan, sender, outcome, polled, view>>

StreamInit ==
  /\ chan = <<>>
  /\ sender = TRUE
  /\ outcome = "running"
  /\ polled = TRUE
  /\ view = [phase |-> "waiting", blocks |-> <<>>, closed |-> FALSE, final |-> <<>>]

-----------------------------------------------------------------------------
(* Events.  add counts fragments; a delta that only opens or closes a      *)
(* wrapper, or separates two paragraphs, adds none.                        *)

Start == [type |-> "start"]
BlockStart(i, k) == [type |-> "blockStart", block |-> i, kind |-> k]
Delta(i, k, n) == [type |-> "delta", block |-> i, kind |-> k, add |-> n]
BlockEnd(i, k, n) == [type |-> "blockEnd", block |-> i, kind |-> k, len |-> n]
Terminal(t, content) == [type |-> t, content |-> content]

IsTerminal(e) == e.type \in {"done", "error"}

\* AssistantMessageEventStreamSender::push, for a list of events: a terminal
\* event takes the sender away, and what is pushed after it is dropped.
Push(events) ==
  LET before == {n \in 0..Len(events) : \A m \in 1..n : m < n => ~IsTerminal(events[m])}
      sent == SubSeq(events, 1, CHOOSE n \in before : \A m \in before : m <= n)
  IN /\ chan' = IF sender THEN chan \o sent ELSE chan
     /\ sender' = (sender /\ \A n \in DOMAIN events : ~IsTerminal(events[n]))

-----------------------------------------------------------------------------
(* The consumer's side.                                                    *)

\* A function with one more or one other value.
At(f, key, value) == [x \in DOMAIN f \cup {key} |-> IF x = key THEN value ELSE f[x]]

\* What the consumer makes of an event.
Heard(v, e) ==
  CASE e.type = "start" ->
         [v EXCEPT !.phase = "open"]
    [] e.type = "blockStart" ->
         [v EXCEPT !.blocks = At(@, e.block, [kind |-> e.kind, len |-> 0, ended |-> FALSE])]
    [] e.type = "delta" ->
         LET before == v.blocks[e.block]
         IN  [v EXCEPT !.blocks = At(@, e.block,
                [kind |-> e.kind, len |-> before.len + e.add, ended |-> before.ended])]
    [] e.type = "blockEnd" ->
         [v EXCEPT !.blocks = At(@, e.block, [kind |-> e.kind, len |-> e.len, ended |-> TRUE])]
    [] IsTerminal(e) ->
         [v EXCEPT !.phase = e.type, !.final = e.content]

\* receiver.recv() yields, or try_recv after the producer has finished.
Receive ==
  /\ ~view.closed
  /\ chan # <<>>
  /\ view' = Heard(view, Head(chan))
  /\ chan' = Tail(chan)
  /\ polled' = (Tail(chan) = <<>>)
  /\ UNCHANGED <<sender, outcome>>

\* The producer returned an error: it becomes the last event, after all
\* that the producer had pushed.
DeliverError(content) ==
  /\ ~view.closed
  /\ chan = <<>> /\ sender
  /\ outcome \in {"error", "aborted"}
  /\ view' = Heard(view, Terminal("error", content))
  /\ outcome' = "gone"
  /\ UNCHANGED <<chan, sender, polled>>

\* The channel is closed and empty, or the producer's result has been handled.
Close ==
  /\ ~view.closed
  /\ chan = <<>>
  /\ ~sender \/ outcome \in {"ok", "gone"}
  /\ view' = [view EXCEPT !.closed = TRUE]
  /\ UNCHANGED <<chan, sender, outcome, polled>>

=============================================================================
