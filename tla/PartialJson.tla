----------------------------- MODULE PartialJson -----------------------------
(***************************************************************************)
(* utils/json.rs: the arguments of a tool call while they are streamed.    *)
(* After every fragment the text so far is parsed as far as it goes, and a *)
(* consumer is shown the result.                                           *)
(*                                                                         *)
(* A text is a sequence of symbols: punctuation, "quote", "escape" (a      *)
(* backslash), letters ("n" and "u" mean something after an escape, "x"    *)
(* does not), "hh" for two hexadecimal digits, a digit and the other signs *)
(* of numbers, the halves of two literals, and two blanks.                 *)
(***************************************************************************)
EXTENDS Naturals, SequencesExt

CONSTANT Documents   \* texts that a server may stream

VARIABLES
  text,    \* what it streams
  entry,   \* the part that has arrived
  shown    \* the arguments a consumer is shown

vars == <<text, entry, shown>>

Blank == {"space", "newline"}
Escapable == {"quote", "escape", "n", "u"}

\* Values.
Str(s) == [type |-> "string", of |-> s]
Num(s) == [type |-> "number", of |-> s]
Lit(s) == [type |-> "literal", of |-> s]
Arr(s) == [type |-> "array", of |-> s]
Obj(f) == [type |-> "object", of |-> f]
Empty == Obj(<<>>)

With(f, key, v) == [k \in DOMAIN f \cup {key} |-> IF k = key THEN v ELSE f[k]]

\* Where parsing has come to, and what it has found, if anything.
Found(v, i) == [ok |-> TRUE, v |-> v, next |-> i]
Missing(i) == [ok |-> FALSE, v |-> Empty, next |-> i]

Peek(t, i) == IF i <= Len(t) THEN t[i] ELSE "end"
Pair(t, i) == <<Peek(t, i), Peek(t, i + 1)>>
The(found) == CHOOSE x \in found : TRUE
Skip(t, i) ==
  CHOOSE j \in i..(Len(t) + 1) :
    Peek(t, j) \notin Blank /\ \A k \in i..(j - 1) : t[k] \in Blank
Trim(t) ==
  LET kept == {k \in DOMAIN t : t[k] \notin Blank}
      first == CHOOSE k \in kept : \A l \in kept : k <= l
      last == CHOOSE k \in kept : \A l \in kept : k >= l
  IN IF kept = {} THEN <<>> ELSE SubSeq(t, first, last)

-----------------------------------------------------------------------------
(* repair_json: escapes that mean nothing and control characters.  The     *)
(* mutant knows no \u.                                                     *)
RepairNoUnicode(t) ==
  LET Step(r, c) ==
        CASE ~r.inside -> [r EXCEPT !.out = Append(@, c), !.inside = (c = "quote")]
          [] r.inside /\ r.escaped ->
               [r EXCEPT !.escaped = FALSE,
                         !.out = @ \o IF c \in Escapable \ {"u"} THEN <<"escape", c>>
                                      ELSE <<"escape", "escape", c>>]
          [] r.inside /\ ~r.escaped /\ c = "escape" -> [r EXCEPT !.escaped = TRUE]
          [] OTHER ->
               [r EXCEPT !.inside = (c # "quote"),
                         !.out = @ \o IF c = "newline" THEN <<"escape", "n">> ELSE <<c>>]
      r == FoldLeft(Step, [inside |-> FALSE, escaped |-> FALSE, out |-> <<>>], t)
  IN IF r.escaped THEN r.out \o <<"escape", "escape">> ELSE r.out
Repair(t) ==
  LET Step(r, c) ==
        CASE ~r.inside -> [r EXCEPT !.out = Append(@, c), !.inside = (c = "quote")]
          [] r.inside /\ r.escaped ->
               [r EXCEPT !.escaped = FALSE,
                         !.out = @ \o IF c \in Escapable THEN <<"escape", c>>
                                      ELSE <<"escape", "escape", c>>]
          [] r.inside /\ ~r.escaped /\ c = "escape" -> [r EXCEPT !.escaped = TRUE]
          [] OTHER ->
               [r EXCEPT !.inside = (c # "quote"),
                         !.out = @ \o IF c = "newline" THEN <<"escape", "n">> ELSE <<c>>]
      r == FoldLeft(Step, [inside |-> FALSE, escaped |-> FALSE, out |-> <<>>], t)
  IN IF r.escaped THEN r.out \o <<"escape", "escape">> ELSE r.out

-----------------------------------------------------------------------------
(* Strings.  Escapes(t, i)[j] says that the escape at j counts, in a       *)
(* string that opens at i.                                                 *)
Escapes(t, i) ==
  LET e[j \in i..Len(t)] == j > i /\ t[j] = "escape" /\ ~e[j - 1] IN e

\* Where the string closes; after the text if it does not.
Closing(t, i) ==
  LET e == Escapes(t, i)
      ends == {j \in (i + 1)..Len(t) : t[j] = "quote" /\ ~e[j - 1]}
  IN IF ends = {} THEN Len(t) + 1 ELSE CHOOSE j \in ends : \A k \in ends : j <= k

\* serde_json decodes the inside of a string: {} if it is malformed.
Decode(inside) ==
  LET Step(d, c) ==
        CASE d.at = "plain" /\ c = "escape" -> [d EXCEPT !.at = "escape"]
          [] d.at = "plain" /\ c \notin {"escape", "newline"} -> [d EXCEPT !.out = Append(@, c)]
          [] d.at = "escape" /\ c = "u" -> [d EXCEPT !.at = "u"]
          [] d.at = "escape" /\ c \in Escapable \ {"u"} ->
               [at |-> "plain", out |-> Append(d.out, IF c = "n" THEN "newline" ELSE c)]
          [] d.at = "u" /\ c = "hh" -> [d EXCEPT !.at = "uhh"]
          [] d.at = "uhh" /\ c = "hh" -> [at |-> "plain", out |-> Append(d.out, "letter")]
          [] OTHER -> [d EXCEPT !.at = "malformed"]
      d == FoldLeft(Step, [at |-> "plain", out |-> <<>>], inside)
  IN IF d.at = "plain" THEN {d.out} ELSE {}

\* The numbers that occur.
Numbers ==
  {sign \o int \o frac \o exp : sign \in {<<>>, <<"-">>}, int \in {<<"1">>, <<"1", "1">>},
                                frac \in {<<>>, <<".", "1">>}, exp \in {<<>>, <<"e", "1">>}}
NumberSigns == {"-", "1", ".", "e"}
Literals == {<<"tr", "ue">>, <<"nu", "ll">>}

-----------------------------------------------------------------------------
(* serde_json::from_str: the whole text, or nothing.                       *)
RECURSIVE StrictValue(_, _), StrictItems(_, _, _), StrictMembers(_, _, _)

StringOf(decoded, next) ==
  IF decoded = {} THEN Missing(next) ELSE Found(Str(The(decoded)), next)

StrictString(t, i, end) ==
  IF end > Len(t) THEN Missing(end) ELSE StringOf(Decode(SubSeq(t, i + 1, end - 1)), end + 1)

StrictNumber(t, i, end) ==
  IF SubSeq(t, i, end - 1) \in Numbers THEN Found(Num(SubSeq(t, i, end - 1)), end) ELSE Missing(i)

EndOfSigns(t, i) ==
  CHOOSE j \in i..(Len(t) + 1) :
    Peek(t, j) \notin NumberSigns /\ \A k \in i..(j - 1) : t[k] \in NumberSigns

StrictAt(t, i) ==
  CASE Peek(t, i) = "quote" -> StrictString(t, i, Closing(t, i))
    [] Peek(t, i) \in NumberSigns -> StrictNumber(t, i, EndOfSigns(t, i))
    [] Peek(t, i) = "{" ->
         IF Peek(t, Skip(t, i + 1)) = "}" THEN Found(Empty, Skip(t, i + 1) + 1)
         ELSE StrictMembers(t, i + 1, <<>>)
    [] Peek(t, i) = "[" ->
         IF Peek(t, Skip(t, i + 1)) = "]" THEN Found(Arr(<<>>), Skip(t, i + 1) + 1)
         ELSE StrictItems(t, i + 1, <<>>)
    [] OTHER ->
         IF Pair(t, i) \in Literals THEN Found(Lit(t[i]), i + 2) ELSE Missing(i)

StrictValue(t, i) == StrictAt(t, Skip(t, i))

StrictItems(t, i, sofar) ==
  LET Then(items, j) ==
        CASE Peek(t, j) = "," -> StrictItems(t, j + 1, items)
          [] Peek(t, j) = "]" -> Found(Arr(items), j + 1)
          [] OTHER -> Missing(j)
      First(item) ==
        IF item.ok THEN Then(Append(sofar, item.v), Skip(t, item.next)) ELSE item
  IN First(StrictValue(t, i))

StrictMembers(t, i, sofar) ==
  LET Then(members, j) ==
        CASE Peek(t, j) = "," -> StrictMembers(t, j + 1, members)
          [] Peek(t, j) = "}" -> Found(Obj(members), j + 1)
          [] OTHER -> Missing(j)
      Member(key, value) ==
        IF value.ok THEN Then(With(sofar, key, value.v), Skip(t, value.next)) ELSE value
      Key(key, colon) ==
        IF key.ok /\ key.v.type = "string" /\ Peek(t, colon) = ":"
        THEN Member(key.v.of, StrictValue(t, colon + 1)) ELSE Missing(colon)
      First(key) == Key(key, Skip(t, key.next))
  IN First(StrictValue(t, i))

Strict(t) ==
  LET Alone(r) == IF r.ok /\ Skip(t, r.next) > Len(t) THEN {r.v} ELSE {}
  IN Alone(StrictValue(t, 1))

-----------------------------------------------------------------------------
(* PartialJsonParser: what is there already.                               *)

\* parse_string, where an escape without its letter is left out.
PartialString(t, i) ==
  LET end == Closing(t, i)
      cut == IF end <= Len(t) THEN end - 1
             ELSE IF Escapes(t, i)[Len(t)] THEN Len(t) - 1 ELSE Len(t)
  IN IF Peek(t, i) # "quote" THEN Missing(i)
     ELSE StringOf(Decode(SubSeq(t, i + 1, cut)), IF end <= Len(t) THEN end + 1 ELSE end)

\* parse_number, which gives up an exponent that has not come yet.
PartialNumber(t, i) ==
  LET end == CHOOSE j \in i..(Len(t) + 1) :
               /\ Peek(t, j) \in {",", "]", "}", "end"}
               /\ \A k \in i..(j - 1) : t[k] \notin {",", "]", "}"}
      Mantissa(raw) == SelectLastInSeq(raw, LAMBDA c : c = "e") - 1
      Read(raw) ==
        CASE raw \in Numbers -> Found(Num(raw), end)
          [] raw \notin Numbers /\ SubSeq(raw, 1, Mantissa(raw)) \in Numbers ->
               Found(Num(SubSeq(raw, 1, Mantissa(raw))), end)
          [] OTHER -> Missing(end)
  IN Read(Trim(SubSeq(t, i, end - 1)))

\* parse_partial_literal.
PartialLiteral(t, i) ==
  IF Pair(t, i) \in Literals \/ (i = Len(t) /\ \E l \in Literals : l[1] = t[i])
  THEN Found(Lit(t[i]), IF i = Len(t) THEN i + 1 ELSE i + 2)
  ELSE Missing(i)

RECURSIVE PartialValue(_, _), PartialItems(_, _, _), PartialMembers(_, _, _)

PartialAt(t, i) ==
  CASE Peek(t, i) = "end" -> Missing(i)
    [] Peek(t, i) = "quote" -> PartialString(t, i)
    [] Peek(t, i) = "{" -> PartialMembers(t, i + 1, <<>>)
    [] Peek(t, i) = "[" -> PartialItems(t, i + 1, <<>>)
    [] Peek(t, i) \in {"-", "1"} -> PartialNumber(t, i)
    [] OTHER -> PartialLiteral(t, i)

PartialValue(t, i) == PartialAt(t, Skip(t, i))

AfterComma(t, i) == LET j == Skip(t, i) IN IF Peek(t, j) = "," THEN j + 1 ELSE j

PartialItems(t, i, sofar) ==
  LET Item(item) ==
        IF item.ok THEN PartialItems(t, AfterComma(t, item.next), Append(sofar, item.v))
        ELSE Found(Arr(sofar), item.next)
      First(j) ==
        IF Peek(t, j) = "]" THEN Found(Arr(sofar), j + 1) ELSE Item(PartialValue(t, j))
  IN First(Skip(t, i))

PartialMembers(t, i, sofar) ==
  LET Member(key, value) ==
        IF value.ok
        THEN PartialMembers(t, AfterComma(t, value.next), With(sofar, key, value.v))
        ELSE Found(Obj(sofar), value.next)
      Colon(j) == IF Peek(t, j) = ":" THEN j + 1 ELSE j
      Key(key) ==
        IF key.ok THEN Member(key.v.of, PartialValue(t, Colon(Skip(t, key.next))))
        ELSE Found(Obj(sofar), key.next)
      First(j) ==
        IF Peek(t, j) = "}" THEN Found(Obj(sofar), j + 1) ELSE Key(PartialString(t, j))
  IN First(Skip(t, i))

-----------------------------------------------------------------------------
(* complete_partial_json: close what is open.                              *)
Complete(t) ==
  LET Step(r, c) ==
        CASE r.inside -> [r EXCEPT !.escaped = ~r.escaped /\ c = "escape",
                                   !.inside = r.escaped \/ c # "quote"]
          [] ~r.inside /\ c = "quote" -> [r EXCEPT !.inside = TRUE]
          [] ~r.inside /\ c = "{" -> [r EXCEPT !.open = <<"}">> \o @]
          [] ~r.inside /\ c = "[" -> [r EXCEPT !.open = <<"]">> \o @]
          [] ~r.inside /\ r.open # <<>> /\ c = Head(r.open) -> [r EXCEPT !.open = Tail(@)]
          [] OTHER -> r
      r == FoldLeft(Step, [inside |-> FALSE, escaped |-> FALSE, open |-> <<>>], t)
  IN t \o (IF r.inside THEN <<"quote">> ELSE <<>>) \o r.open

Partial(t) ==
  LET Value(r) == IF r.ok THEN {r.v} ELSE {} IN Value(PartialValue(t, 1))

\* parse_streaming_json: the first reading that gives a value.
ParseStreaming(t) ==
  LET Readings(repaired) ==
        <<Strict(t), Strict(repaired), Partial(Trim(repaired)), Strict(Complete(repaired))>>
      First(good) == IF good = <<>> THEN Empty ELSE The(good[1])
  IN IF Trim(t) = <<>> THEN Empty
     ELSE First(SelectSeq(Readings(Repair(t)), LAMBDA r : r # {}))

-----------------------------------------------------------------------------
Init ==
  /\ text \in Documents
  /\ entry = <<>>
  /\ shown = Empty

\* A delta of one symbol: what a longer one shows depends on its end only.
Arrive ==
  /\ entry # text
  /\ entry' = SubSeq(text, 1, Len(entry) + 1)
  /\ shown' = ParseStreaming(entry')
  /\ UNCHANGED text

Done ==
  /\ entry = text
  /\ UNCHANGED vars

Next == Arrive \/ Done
Spec == Init /\ [][Next]_vars

-----------------------------------------------------------------------------
(* What a consumer is shown is part of the arguments.                      *)

\* The arguments, where the whole text has any.
Whole == IF Strict(text) # {} THEN Strict(text) ELSE Strict(Repair(text))

\* The beginning of a string, but for a backslash at its end: repair_json
\* doubles the one of an escape that has not come yet.
Begins(s, whole) ==
  \/ IsPrefix(s, whole)
  \/ s # <<>> /\ Last(s) = "escape" /\ IsPrefix(Front(s), whole)

RECURSIVE IsPart(_, _)
IsPart(p, v) ==
  /\ p.type = v.type
  /\ CASE p.type = "string" -> Begins(p.of, v.of)
       [] p.type = "number" -> IsPrefix(p.of, v.of)
       [] p.type = "literal" -> p.of = v.of
       [] p.type = "array" ->
            /\ Len(p.of) <= Len(v.of)
            /\ \A k \in DOMAIN p.of : IsPart(p.of[k], v.of[k])
       [] p.type = "object" ->
            /\ DOMAIN p.of \subseteq DOMAIN v.of
            /\ \A k \in DOMAIN p.of : IsPart(p.of[k], v.of[k])

\* Wherever the text is cut, every member, item, digit and letter that is
\* shown is one the complete arguments have at that place (a string may end
\* in one backslash more): a key without its value, half an escape or half a
\* number never makes up something.
PreviewIsPart == \A v \in Whole : IsPart(shown, v)

=============================================================================
