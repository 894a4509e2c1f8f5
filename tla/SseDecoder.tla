----------------------------- MODULE SseDecoder -----------------------------
(***************************************************************************)
(* utils/sse.rs: a response body, cut into chunks anywhere, becomes events.*)
(*                                                                         *)
(* A byte is the beginning of an "event" field (e), of a "data" field (d), *)
(* of a comment or of a field the decoder does not know (c), or half of a  *)
(* line ending.  What a line is goes by its first byte, and the line       *)
(* itself stands for its value.                                            *)
(***************************************************************************)
EXTENDS Naturals, SequencesExt, FiniteSetsExt

CONSTANTS
  MaxText,   \* bytes of a body
  MaxLine,   \* max_line_bytes
  MaxEvent   \* max_event_bytes

ASSUME SseAssumption == {MaxText, MaxLine, MaxEvent} \subseteq Nat

CR == "\r"
LF == "\n"
LineEnding == {CR, LF}
Bytes == {"e", "d", "c"} \cup LineEnding

\* A line ending of two bytes begins at b[i].
IsCrLf(b, i) == i < Len(b) /\ b[i] = CR /\ b[i + 1] = LF

VARIABLES
  text,     \* the body the server sends
  pos,      \* bytes of it received
  buffer,   \* bytes received that are not yet part of a line
  event,    \* the last event field since the last flush: a line, or <<>>
  data,     \* the data fields since the last flush
  raw,      \* all lines since the last event that came out
  out,      \* events that came out
  sizes,    \* lengths of the last two chunks
  pc        \* read, lines, flush, done, lineTooLong, eventTooLong, cancelled

vars == <<text, pos, buffer, event, data, raw, out, sizes, pc>>

Init ==
  /\ text \in UNION {[1..n -> Bytes] : n \in 0..MaxText}
  /\ pos = 0 /\ buffer = <<>>
  /\ event = <<>> /\ data = <<>> /\ raw = <<>> /\ out = <<>>
  /\ sizes = <<0, 0>>
  /\ pc = "read"

-----------------------------------------------------------------------------
Bytesize(lines) == FoldSeq(LAMBDA l, n : Len(l) + n, 0, lines)

\* flush
Flush ==
  IF event = <<>> /\ data = <<>>
  THEN UNCHANGED <<event, data, raw, out>>
  ELSE /\ out' = Append(out, [event |-> event, data |-> data])
       /\ event' = <<>> /\ data' = <<>> /\ raw' = <<>>

Fits(line) == Bytesize(raw) + Len(line) <= MaxEvent

\* decode_line; then is where the caller goes on.
DecodeLine(line, then) ==
  IF line = <<>> THEN Flush /\ pc' = then
  ELSE IF ~Fits(line)
  THEN pc' = "eventTooLong" /\ UNCHANGED <<event, data, raw, out>>
  ELSE /\ raw' = Append(raw, line)
       /\ event' = IF Head(line) = "e" THEN line ELSE event
       /\ data' = IF Head(line) = "d" THEN Append(data, line) ELSE data
       /\ pc' = then
       /\ UNCHANGED out

\* consume_line: where the first line ends and the next one begins, unless
\* the ending may be cut in half.  The mutant does not wait for the other half.
HasLineEagerly == \E i \in DOMAIN buffer : buffer[i] \in LineEnding
HasLine == \E i \in DOMAIN buffer :
  buffer[i] \in LineEnding /\ ~(i = Len(buffer) /\ buffer[i] = CR)

FirstEnding == Min({i \in DOMAIN buffer : buffer[i] \in LineEnding})

EndingLength == IF IsCrLf(buffer, FirstEnding) THEN 2 ELSE 1

-----------------------------------------------------------------------------
\* A chunk arrives.
ReadChunk ==
  /\ pc = "read"
  /\ \E n \in 1..(Len(text) - pos) :
       /\ pos' = pos + n
       /\ buffer' = buffer \o SubSeq(text, pos + 1, pos + n)
       /\ sizes' = <<sizes[2], n>>
  /\ pc' = IF Len(buffer') > MaxLine /\ \A i \in DOMAIN buffer' : buffer'[i] \notin LineEnding
           THEN "lineTooLong" ELSE "lines"
  /\ UNCHANGED <<text, event, data, raw, out>>

\* One turn of the loop over complete lines, up to the event it may yield.
ConsumeLine ==
  /\ pc = "lines" /\ HasLine
  /\ buffer' = SubSeq(buffer, FirstEnding + EndingLength, Len(buffer))
  /\ IF FirstEnding - 1 > MaxLine
     THEN pc' = "lineTooLong" /\ UNCHANGED <<event, data, raw, out>>
     ELSE DecodeLine(SubSeq(buffer, 1, FirstEnding - 1), "lines")
  /\ UNCHANGED <<text, pos, sizes>>

NoMoreLines ==
  /\ pc = "lines" /\ ~HasLine
  /\ pc' = "read"
  /\ UNCHANGED <<text, pos, buffer, event, data, raw, out, sizes>>

\* trim_final_line_ending
Unended(b) == IF b # <<>> /\ Last(b) \in LineEnding THEN Front(b) ELSE b

\* The body ends: what is left is the last line.
EndOfBody ==
  /\ pc = "read" /\ pos = Len(text)
  /\ IF Len(buffer) > MaxLine
     THEN pc' = "lineTooLong" /\ UNCHANGED <<event, data, raw, out>>
     ELSE IF buffer = <<>> THEN pc' = "flush" /\ UNCHANGED <<event, data, raw, out>>
     ELSE DecodeLine(Unended(buffer), "flush")
  /\ buffer' = <<>>
  /\ UNCHANGED <<text, pos, sizes>>

FinalFlush ==
  /\ pc = "flush"
  /\ Flush
  /\ pc' = "done"
  /\ UNCHANGED <<text, pos, buffer, sizes>>

\* The token is cancelled while a chunk is awaited, or the connection breaks.
Interrupted ==
  /\ pc = "read"
  /\ pc' = "cancelled"
  /\ UNCHANGED <<text, pos, buffer, event, data, raw, out, sizes>>

Failures == {"lineTooLong", "eventTooLong", "cancelled"}

Ended == pc \in Failures \cup {"done"} /\ UNCHANGED vars

Next ==
  \/ ReadChunk \/ ConsumeLine \/ NoMoreLines \/ EndOfBody \/ FinalFlush
  \/ Interrupted \/ Ended

Spec == Init /\ [][Next]_vars

-----------------------------------------------------------------------------
(* The reference: the lines of a whole text by the places where they end,  *)
(* and the events by the blank lines that end them.                        *)

\* Last bytes of the line endings of t.
Ends(t) == {i \in DOMAIN t : t[i] \in LineEnding /\ ~IsCrLf(t, i)}

Sorted(S) == [n \in 1..Cardinality(S) |-> CHOOSE i \in S : Cardinality({j \in S : j <= i}) = n]

LineEndingAt(t, i) ==
  LET first == Max({0} \cup {j \in Ends(t) : j < i}) + 1
      length == IF i > first /\ IsCrLf(t, i - 1) THEN 2 ELSE 1
  IN SubSeq(t, first, i - length)

Lines(t) ==
  LET ends == Sorted(Ends(t))
  IN [n \in DOMAIN ends |-> LineEndingAt(t, ends[n])]

Rest(t) == SubSeq(t, Max({0} \cup Ends(t)) + 1, Len(t))

Is(line, field) == line # <<>> /\ Head(line) = field

\* The lines before blank line n, back to the last blank line.
Group(lines, n) ==
  SubSeq(lines, Max({0} \cup {m \in 1..(n - 1) : lines[m] = <<>>}) + 1, n - 1)

Dispatches(lines) ==
  {n \in DOMAIN lines :
     /\ lines[n] = <<>>
     /\ \E m \in DOMAIN Group(lines, n) : Is(Group(lines, n)[m], "e") \/ Is(Group(lines, n)[m], "d")}

EventAt(lines, n) ==
  LET named == SelectSeq(Group(lines, n), LAMBDA l : Is(l, "e"))
  IN [event |-> IF named = <<>> THEN <<>> ELSE Last(named),
      data |-> SelectSeq(Group(lines, n), LAMBDA l : Is(l, "d"))]

EventsOf(lines) ==
  LET at == Sorted(Dispatches(lines))
  IN [k \in DOMAIN at |-> EventAt(lines, at[k])]

\* The last line needs no ending, the last event no blank line.
AllLines == Append(Lines(text), Rest(text))
AllEvents == EventsOf(Append(AllLines, <<>>))

\* The lines received so far that are surely complete.
Complete(t) == IF t # <<>> /\ Last(t) = CR THEN Lines(Front(t)) ELSE Lines(t)

-----------------------------------------------------------------------------
\* Bytes between two events that come out, comments included.
EventSizes ==
  LET lines == Append(AllLines, <<>>)
      starts == {0} \cup Dispatches(lines)
  IN {Bytesize(SubSeq(lines, s + 1, Min({n \in starts : n > s} \cup {Len(lines)}))) : s \in starts}

\* However the body is cut into chunks, what comes out is what the text says:
\* at each wait for a chunk the events of the lines that are complete, in the
\* end all of them, and never more than a part of them.  A body is refused for a
\* line or an event above the limit and for no other reason, and none above the
\* limit is let through; between chunks the buffer holds no more than a line and
\* two chunks.  The exception is a last line of exactly the limit that ends with
\* a lone CR, which is refused when the body ends there.
EventsMatchText ==
  LET tooLong == \E n \in DOMAIN AllLines : Len(AllLines[n]) > MaxLine
      tooBig == \E size \in EventSizes : size > MaxEvent
      loneCR == text # <<>> /\ Last(text) = CR /\ \E n \in DOMAIN AllLines : Len(AllLines[n]) = MaxLine
  IN /\ pc = "read" => out = EventsOf(Complete(SubSeq(text, 1, pos)))
     /\ pc = "done" => out = AllEvents
     /\ IsPrefix(out, AllEvents)
     /\ pc = "lineTooLong" => tooLong \/ loneCR
     /\ pc = "eventTooLong" => tooBig
     /\ pc = "done" => ~tooLong /\ ~tooBig
     /\ pc = "read" => Len(buffer) <= MaxLine + sizes[1] + sizes[2]

=============================================================================
