------------------------ MODULE ProviderStreamProofs ------------------------
(***************************************************************************)
(* Proofs about a streamed request, for every number of items, fragments,  *)
(* events and retries.                                                     *)
(*                                                                         *)
(* The invariant has two parts.  Assembled says that the message under     *)
(* construction and the server's items belong together.  Flow says where   *)
(* the events in the channel lead: from what the consumer has been told,   *)
(* by steps its contract allows, to what the producer has made (Produced)  *)
(* or, once the producer has returned, to a view that ends as it should    *)
(* (Settled).  What a provider pushes is shown to lead from the view of    *)
(* its message before the step to the view of its message after it, so     *)
(* that neither a provider nor its consumer has to know the other.         *)
(***************************************************************************)
EXTENDS ProviderStream, SequenceTheorems, TLAPS

-----------------------------------------------------------------------------
(* Events, what the consumer makes of them, and where they lead.           *)

Told == [kind : Kinds, len : Nat, ended : BOOLEAN]
Content == [kind : Kinds, item : Nat, len : Nat]

Views ==
  [phase : {"waiting", "open", "done", "error"}, blocks : Seq(Told),
   closed : BOOLEAN, final : Seq(Content)]

Events ==
  [type : {"start"}]
    \cup [type : {"blockStart"}, block : Nat, kind : Kinds]
    \cup [type : {"delta"}, block : Nat, kind : Kinds, add : Nat]
    \cup [type : {"blockEnd"}, block : Nat, kind : Kinds, len : Nat]
    \cup [type : {"done", "error"}, content : Seq(Content)]

\* The content of a terminal event is what was told, except for arguments of a
\* faux tool call that is still open.
Faithful(a, content, blks) ==
  /\ DOMAIN content = DOMAIN blks
  /\ \A b \in DOMAIN content :
       /\ content[b].kind = blks[b].kind
       /\ \/ content[b].len = blks[b].len
          \/ a = "faux" /\ content[b].kind = "tool" /\ ~blks[b].ended

OpenIn(v, b, k) ==
  b \in DOMAIN v.blocks /\ v.blocks[b].kind = k /\ ~v.blocks[b].ended

\* The contract lets a consumer of api a that was told v be told e.
Legal(a, v, e) ==
  /\ ~v.closed
  /\ e.type = "start" => v.phase = "waiting"
  /\ e.type = "blockStart" => v.phase = "open" /\ e.block = Len(v.blocks) + 1
  /\ e.type = "delta" => v.phase = "open" /\ OpenIn(v, e.block, e.kind)
  /\ e.type = "blockEnd" =>
       v.phase = "open" /\ OpenIn(v, e.block, e.kind) /\ e.len >= v.blocks[e.block].len
  /\ e.type = "done" =>
       /\ v.phase = "open" /\ Faithful(a, e.content, v.blocks)
       /\ \A b \in DOMAIN v.blocks : v.blocks[b].ended
  /\ e.type = "error" => v.phase \in {"waiting", "open"} /\ Faithful(a, e.content, v.blocks)

\* The events es lead from v to w, each of them legal where it comes.
Leads(a, h, v, es, w) ==
  /\ h \in [0..Len(es) -> Views]
  /\ h[0] = v /\ h[Len(es)] = w
  /\ \A n \in 1..Len(es) : Legal(a, h[n - 1], es[n]) /\ h[n] = Heard(h[n - 1], es[n])

Path(a, v, es, w) == \E h \in [0..Len(es) -> Views] : Leads(a, h, v, es, w)

\* The fields of an event.
LEMMA EventTyped ==
  ASSUME NEW e \in Events
  PROVE  /\ e.type \in {"start", "blockStart", "delta", "blockEnd", "done", "error"}
         /\ e.type \in {"blockStart", "delta", "blockEnd"} => e.block \in Nat /\ e.kind \in Kinds
         /\ e.type = "delta" => e.add \in Nat
         /\ e.type = "blockEnd" => e.len \in Nat
         /\ e.type \in {"done", "error"} => e.content \in Seq(Content)
BY DEF Events

\* The fields of a view.
LEMMA ViewTyped ==
  ASSUME NEW v \in Views
  PROVE  /\ v.phase \in {"waiting", "open", "done", "error"}
         /\ v.blocks \in Seq(Told) /\ v.closed \in BOOLEAN /\ v.final \in Seq(Content)
         /\ \A s \in Seq(Told) : [v EXCEPT !.blocks = s] \in Views
BY DEF Views

\* A block is put where one is, or behind the last.
LEMMA AtLast ==
  ASSUME NEW s \in Seq(Told), NEW new \in Told
  PROVE  At(s, Len(s) + 1, new) = Append(s, new)
<1> DEFINE f == At(s, Len(s) + 1, new)
<1>1. DOMAIN s = 1..Len(s) /\ Len(s) \in Nat
  BY LenProperties
<1>2. /\ DOMAIN f = 1..(Len(s) + 1)
      /\ \A i \in 1..(Len(s) + 1) : f[i] = IF i = Len(s) + 1 THEN new ELSE s[i]
      /\ f = [i \in 1..(Len(s) + 1) |-> f[i]]
  BY <1>1 DEF At
<1> HIDE DEF f
<1>3. /\ Append(s, new) \in Seq(Told) /\ Len(Append(s, new)) = Len(s) + 1
      /\ \A i \in 1..Len(s) : Append(s, new)[i] = s[i]
      /\ Append(s, new)[Len(s) + 1] = new
  BY AppendProperties
<1>4. \A i \in 1..(Len(s) + 1) : f[i] \in Told
  BY <1>1, <1>2, ElementOfSeq
<1>5. f \in Seq(Told) /\ Len(f) = Len(s) + 1
  BY <1>1, <1>2, <1>4
<1>6. \A i \in 1..Len(f) : f[i] = Append(s, new)[i]
  BY <1>1, <1>2, <1>3, <1>5
<1> QED
  BY <1>3, <1>5, <1>6, SeqEqual DEF f

\* Behind AtLast: a value for a key that is there.
LEMMA AtOld ==
  ASSUME NEW s \in Seq(Told), NEW b \in DOMAIN s, NEW new \in Told
  PROVE  At(s, b, new) = [s EXCEPT ![b] = new]
BY DEF At

\* What Heard makes of each kind of event, and that the outcome is a view.
LEMMA HeardStart ==
  ASSUME NEW v \in Views, NEW e \in Events, e.type = "start"
  PROVE  Heard(v, e) = [v EXCEPT !.phase = "open"] /\ Heard(v, e) \in Views
<1>1. Heard(v, e) = [v EXCEPT !.phase = "open"]
  BY DEF Heard, IsTerminal
<1> QED
  BY <1>1 DEF Views

\* A block that opens is appended.
LEMMA HeardBlockStart ==
  ASSUME NEW v \in Views, NEW e \in Events, e.type = "blockStart", e.block = Len(v.blocks) + 1
  PROVE  /\ Heard(v, e) = [v EXCEPT !.blocks =
                             Append(v.blocks, [kind |-> e.kind, len |-> 0, ended |-> FALSE])]
         /\ Heard(v, e) \in Views
<1> DEFINE new == [kind |-> e.kind, len |-> 0, ended |-> FALSE]
<1>1. v.blocks \in Seq(Told) /\ new \in Told
  BY ViewTyped, EventTyped DEF Told
<1>2. Heard(v, e) = [v EXCEPT !.blocks = At(v.blocks, e.block, new)]
  BY DEF Heard, IsTerminal
<1> HIDE DEF new
<1>3. At(v.blocks, e.block, new) = Append(v.blocks, new)
  BY <1>1, AtLast
<1>4. Append(v.blocks, new) \in Seq(Told)
  BY <1>1, AppendProperties
<1> QED
  BY <1>2, <1>3, <1>4, ViewTyped DEF new

\* A delta adds to its block.
LEMMA HeardDelta ==
  ASSUME NEW v \in Views, NEW e \in Events, e.type = "delta", e.block \in DOMAIN v.blocks
  PROVE  /\ Heard(v, e) = [v EXCEPT !.blocks = [v.blocks EXCEPT ![e.block] =
                             [kind |-> e.kind, len |-> v.blocks[e.block].len + e.add,
                              ended |-> v.blocks[e.block].ended]]]
         /\ Heard(v, e) \in Views
<1> DEFINE new == [kind |-> e.kind, len |-> v.blocks[e.block].len + e.add,
                   ended |-> v.blocks[e.block].ended]
<1>1. v.blocks \in Seq(Told) /\ v.blocks[e.block] \in Told
  BY ViewTyped, ElementOfSeq
<1>2. new \in Told
  BY <1>1, EventTyped DEF Told
<1>3. Heard(v, e) = [v EXCEPT !.blocks = At(v.blocks, e.block, new)]
  BY DEF Heard, IsTerminal
<1> HIDE DEF new
<1> DEFINE s == [v.blocks EXCEPT ![e.block] = new]
<1>4. At(v.blocks, e.block, new) = s
  BY <1>1, <1>2, AtOld
<1>5. s \in Seq(Told)
  BY <1>1, <1>2, ExceptSeq
<1> HIDE DEF s
<1>6. Heard(v, e) = [v EXCEPT !.blocks = s] /\ Heard(v, e) \in Views
  BY <1>3, <1>4, <1>5, ViewTyped
<1> QED
  BY <1>6, Zenon DEF new, s

\* The end of a block repeats its length.
LEMMA HeardBlockEnd ==
  ASSUME NEW v \in Views, NEW e \in Events, e.type = "blockEnd", e.block \in DOMAIN v.blocks
  PROVE  /\ Heard(v, e) = [v EXCEPT !.blocks = [v.blocks EXCEPT ![e.block] =
                             [kind |-> e.kind, len |-> e.len, ended |-> TRUE]]]
         /\ Heard(v, e) \in Views
<1> DEFINE new == [kind |-> e.kind, len |-> e.len, ended |-> TRUE]
<1>1. v.blocks \in Seq(Told) /\ new \in Told
  BY ViewTyped, EventTyped DEF Told
<1>3. Heard(v, e) = [v EXCEPT !.blocks = At(v.blocks, e.block, new)]
  BY DEF Heard, IsTerminal
<1> HIDE DEF new
<1> DEFINE s == [v.blocks EXCEPT ![e.block] = new]
<1>4. At(v.blocks, e.block, new) = s
  BY <1>1, AtOld
<1>5. s \in Seq(Told)
  BY <1>1, ExceptSeq
<1> HIDE DEF s
<1>6. Heard(v, e) = [v EXCEPT !.blocks = s] /\ Heard(v, e) \in Views
  BY <1>3, <1>4, <1>5, ViewTyped
<1> QED
  BY <1>6, Zenon DEF new, s

\* A terminal event leaves the blocks as they are.
LEMMA HeardTerminal ==
  ASSUME NEW v \in Views, NEW e \in Events, e.type \in {"done", "error"}
  PROVE  /\ Heard(v, e) = [v EXCEPT !.phase = e.type, !.final = e.content]
         /\ Heard(v, e) \in Views
<1>1. Heard(v, e) = [v EXCEPT !.phase = e.type, !.final = e.content]
  BY DEF Heard, IsTerminal
<1> QED
  BY <1>1 DEF Views, Events

\* What is legal for a view leads to a view.
LEMMA HeardTyped ==
  ASSUME NEW a, NEW v \in Views, NEW e \in Events, Legal(a, v, e)
  PROVE  Heard(v, e) \in Views
<1>1. CASE e.type = "start"
  BY <1>1, HeardStart
<1>2. CASE e.type = "blockStart"
  BY <1>2, HeardBlockStart DEF Legal
<1>3. CASE e.type = "delta"
  BY <1>3, HeardDelta DEF Legal, OpenIn
<1>4. CASE e.type = "blockEnd"
  BY <1>4, HeardBlockEnd DEF Legal, OpenIn
<1>5. CASE e.type \in {"done", "error"}
  BY <1>5, HeardTerminal
<1> QED
  BY <1>1, <1>2, <1>3, <1>4, <1>5, EventTyped

\* No event leads from a view to itself.
LEMMA PathEmpty ==
  ASSUME NEW a, NEW v \in Views
  PROVE  Path(a, v, <<>>, v)
<1> DEFINE h == [n \in 0..Len(<<>>) |-> v]
<1>1. h \in [0..Len(<<>>) -> Views] /\ h[0] = v /\ Len(<<>>) = 0
  OBVIOUS
<1>2. Leads(a, h, v, <<>>, v)
  BY <1>1 DEF Leads
<1> QED
  BY <1>1, <1>2 DEF Path

\* The one way along no events is to stay.
LEMMA PathStays ==
  ASSUME NEW a, NEW v, NEW w, Path(a, v, <<>>, w)
  PROVE  v = w
<1>1. Len(<<>>) = 0
  OBVIOUS
<1> QED
  BY <1>1 DEF Path, Leads

\* Paths are joined where one ends and the other begins.
LEMMA PathConcat ==
  ASSUME NEW a, NEW u, NEW v, NEW w, NEW es \in Seq(Events), NEW fs \in Seq(Events),
         Path(a, u, es, v), Path(a, v, fs, w)
  PROVE  Path(a, u, es \o fs, w)
<1>1. PICK g \in [0..Len(es) -> Views] : Leads(a, g, u, es, v)
  BY DEF Path
<1>2. PICK h \in [0..Len(fs) -> Views] : Leads(a, h, v, fs, w)
  BY DEF Path
<1> DEFINE p == Len(es)
           q == Len(fs)
           f == [n \in 0..(p + q) |-> IF n <= p THEN g[n] ELSE h[n - p]]
<1>3. /\ p \in Nat /\ q \in Nat
      /\ es \o fs \in Seq(Events) /\ Len(es \o fs) = p + q
      /\ \A n \in 1..(p + q) : (es \o fs)[n] = IF n <= p THEN es[n] ELSE fs[n - p]
  BY ConcatProperties, LenProperties
<1>4. f \in [0..Len(es \o fs) -> Views]
  BY <1>3
<1>5. f[0] = u /\ f[p + q] = w
  <2>1. g[0] = u /\ g[p] = v /\ h[0] = v /\ h[q] = w
    BY <1>1, <1>2 DEF Leads
  <2>2. f[0] = g[0]
    BY <1>3
  <2>3. q = 0 => f[p + q] = g[p]
    BY <1>3
  <2>4. q # 0 => ~(p + q <= p) /\ (p + q) - p = q /\ p + q \in 0..(p + q)
    BY <1>3
  <2>5. q # 0 => f[p + q] = h[q]
    BY <2>4
  <2> QED
    BY <2>1, <2>2, <2>3, <2>5
<1>6. ASSUME NEW n \in 1..(p + q)
      PROVE  Legal(a, f[n - 1], (es \o fs)[n]) /\ f[n] = Heard(f[n - 1], (es \o fs)[n])
  <2>1. CASE n <= p
    <3>1. n \in 1..p /\ f[n - 1] = g[n - 1] /\ f[n] = g[n] /\ (es \o fs)[n] = es[n]
      BY <1>3, <2>1
    <3> QED
      BY <1>1, <3>1 DEF Leads
  <2>2. CASE ~(n <= p)
    <3>1. n - p \in 1..q /\ f[n] = h[n - p] /\ (es \o fs)[n] = fs[n - p]
      BY <1>3, <2>2
    <3>2. f[n - 1] = h[(n - p) - 1]
      <4>1. CASE n - 1 = p
        BY <1>1, <1>2, <1>3, <4>1 DEF Leads
      <4>2. CASE n - 1 # p
        BY <1>3, <2>2, <4>2
      <4> QED
        BY <4>1, <4>2
    <3> HIDE DEF f
    <3> QED
      BY <1>2, <3>1, <3>2 DEF Leads
  <2> QED
    BY <2>1, <2>2
<1> HIDE DEF f, p, q
<1>7. Leads(a, f, u, es \o fs, w)
  BY <1>3, <1>4, <1>5, <1>6 DEF Leads
<1> QED
  BY <1>4, <1>7 DEF Path

\* A legal event is a path.
LEMMA PathOne ==
  ASSUME NEW a, NEW v \in Views, NEW e \in Events, Legal(a, v, e)
  PROVE  Path(a, v, <<e>>, Heard(v, e))
<1> DEFINE h == [n \in 0..Len(<<e>>) |-> IF n = 0 THEN v ELSE Heard(v, e)]
<1>1. Heard(v, e) \in Views
  BY HeardTyped
<1>2. Len(<<e>>) = 1 /\ <<e>>[1] = e
  OBVIOUS
<1>3. /\ h \in [0..Len(<<e>>) -> Views]
      /\ h[0] = v /\ h[1] = Heard(v, e)
  BY <1>1, <1>2
<1> HIDE DEF h
<1>4. \A n \in 1..Len(<<e>>) : Legal(a, h[n - 1], <<e>>[n]) /\ h[n] = Heard(h[n - 1], <<e>>[n])
  BY <1>2, <1>3
<1>5. Leads(a, h, v, <<e>>, Heard(v, e))
  BY <1>2, <1>3, <1>4 DEF Leads
<1> QED
  BY <1>3, <1>5 DEF Path

\* One more event, and the first one taken.
LEMMA PathAppend ==
  ASSUME NEW a, NEW u, NEW v \in Views, NEW es \in Seq(Events), NEW e \in Events,
         Path(a, u, es, v), Legal(a, v, e)
  PROVE  Path(a, u, Append(es, e), Heard(v, e))
<1>1. <<e>> \in Seq(Events) /\ Append(es, e) = es \o <<e>>
  BY AppendIsConcat
<1> QED
  BY <1>1, PathOne, PathConcat

\* The first event of a path was legal, and the others go on from there.
LEMMA PathTail ==
  ASSUME NEW a, NEW v \in Views, NEW w, NEW es \in Seq(Events), es # <<>>, Path(a, v, es, w)
  PROVE  /\ Head(es) \in Events /\ Tail(es) \in Seq(Events)
         /\ Legal(a, v, Head(es))
         /\ Path(a, Heard(v, Head(es)), Tail(es), w)
<1>1. PICK h \in [0..Len(es) -> Views] : Leads(a, h, v, es, w)
  BY DEF Path
<1>2. /\ Head(es) \in Events /\ Tail(es) \in Seq(Events) /\ Head(es) = es[1]
      /\ Len(es) \in Nat /\ Len(es) >= 1 /\ Len(Tail(es)) = Len(es) - 1
      /\ \A n \in 1..(Len(es) - 1) : Tail(es)[n] = es[n + 1]
  BY HeadTailProperties, LenProperties, EmptySeq
<1>3. Legal(a, h[0], es[1]) /\ h[1] = Heard(h[0], es[1])
  BY <1>1, <1>2 DEF Leads
<1> DEFINE f == [n \in 0..Len(Tail(es)) |-> h[n + 1]]
<1>4. /\ f \in [0..Len(Tail(es)) -> Views]
      /\ \A n \in 0..Len(Tail(es)) : f[n] = h[n + 1]
  BY <1>2
<1> HIDE DEF f
<1>5. ASSUME NEW n \in 1..Len(Tail(es))
      PROVE  Legal(a, f[n - 1], Tail(es)[n]) /\ f[n] = Heard(f[n - 1], Tail(es)[n])
  <2>1. n + 1 \in 1..Len(es) /\ n - 1 \in 0..Len(Tail(es)) /\ n \in 0..Len(Tail(es))
    BY <1>2
  <2>2. f[n - 1] = h[(n + 1) - 1] /\ f[n] = h[n + 1] /\ Tail(es)[n] = es[n + 1]
    BY <1>2, <1>4, <2>1
  <2> QED
    BY <1>1, <2>1, <2>2 DEF Leads
<1>6. f[0] = Heard(v, Head(es)) /\ f[Len(Tail(es))] = w
  BY <1>1, <1>2, <1>3, <1>4 DEF Leads
<1>7. Leads(a, f, Heard(v, Head(es)), Tail(es), w)
  BY <1>4, <1>5, <1>6 DEF Leads
<1> QED
  BY <1>1, <1>2, <1>3, <1>4, <1>7 DEF Path, Leads

-----------------------------------------------------------------------------
(* Steps of a view, block by block.                                        *)

WithNew(v, k) ==
  [v EXCEPT !.blocks = Append(v.blocks, [kind |-> k, len |-> 0, ended |-> FALSE])]

WithLen(v, b, n, over) ==
  [v EXCEPT !.blocks = [v.blocks EXCEPT ![b] =
     [kind |-> v.blocks[b].kind, len |-> n, ended |-> over]]]

\* v with other blocks.
Same(v, w) == w \in Views /\ w.phase = v.phase /\ w.closed = v.closed /\ w.final = v.final

\* Replacing the blocks keeps the rest of a view.
LEMMA SameBlocks ==
  ASSUME NEW v \in Views, NEW s \in Seq(Told)
  PROVE  Same(v, [v EXCEPT !.blocks = s]) /\ [v EXCEPT !.blocks = s].blocks = s
BY DEF Views, Same

\* A view with one more block.
LEMMA NewTyped ==
  ASSUME NEW v \in Views, NEW k \in Kinds
  PROVE  /\ Same(v, WithNew(v, k))
         /\ DOMAIN WithNew(v, k).blocks = 1..(Len(v.blocks) + 1)
         /\ Len(WithNew(v, k).blocks) = Len(v.blocks) + 1
         /\ \A b \in 1..Len(v.blocks) : WithNew(v, k).blocks[b] = v.blocks[b]
         /\ WithNew(v, k).blocks[Len(v.blocks) + 1] = [kind |-> k, len |-> 0, ended |-> FALSE]
<1> DEFINE new == [kind |-> k, len |-> 0, ended |-> FALSE]
           s == Append(v.blocks, new)
<1>1. v.blocks \in Seq(Told) /\ new \in Told
  BY ViewTyped DEF Told
<1> HIDE DEF new
<1>2. /\ s \in Seq(Told) /\ Len(s) = Len(v.blocks) + 1
      /\ \A b \in 1..Len(v.blocks) : s[b] = v.blocks[b]
      /\ s[Len(v.blocks) + 1] = new
  BY <1>1, AppendProperties
<1> HIDE DEF s
<1>3. DOMAIN s = 1..(Len(v.blocks) + 1)
  BY <1>2, LenProperties
<1>4. WithNew(v, k) = [v EXCEPT !.blocks = s]
  BY Zenon DEF WithNew, s, new
<1> QED
  BY <1>2, <1>3, <1>4, SameBlocks DEF new

\* A view with another length in one block.
LEMMA LenTyped ==
  ASSUME NEW v \in Views, NEW b \in DOMAIN v.blocks, NEW n \in Nat, NEW over \in BOOLEAN
  PROVE  /\ Same(v, WithLen(v, b, n, over))
         /\ DOMAIN WithLen(v, b, n, over).blocks = DOMAIN v.blocks
         /\ Len(WithLen(v, b, n, over).blocks) = Len(v.blocks)
         /\ \A c \in DOMAIN v.blocks : c # b => WithLen(v, b, n, over).blocks[c] = v.blocks[c]
         /\ WithLen(v, b, n, over).blocks[b] =
              [kind |-> v.blocks[b].kind, len |-> n, ended |-> over]
<1> DEFINE new == [kind |-> v.blocks[b].kind, len |-> n, ended |-> over]
           s == [v.blocks EXCEPT ![b] = new]
<1>1. v.blocks \in Seq(Told) /\ new \in Told
  <2>1. v.blocks \in Seq(Told) /\ v.blocks[b] \in Told
    BY ViewTyped, ElementOfSeq
  <2> QED
    BY <2>1 DEF Told
<1> HIDE DEF new
<1>2. /\ s \in Seq(Told) /\ Len(s) = Len(v.blocks)
      /\ \A c \in 1..Len(v.blocks) : s[c] = IF c = b THEN new ELSE v.blocks[c]
  BY <1>1, ExceptSeq
<1> HIDE DEF s
<1>3. DOMAIN s = DOMAIN v.blocks /\ DOMAIN v.blocks = 1..Len(v.blocks)
  BY <1>1, <1>2, LenProperties
<1>4. WithLen(v, b, n, over) = [v EXCEPT !.blocks = s]
  BY Zenon DEF WithLen, s, new
<1> QED
  BY <1>2, <1>3, <1>4, SameBlocks DEF new

\* Which view the events about a block lead to, where they are legal.
LEMMA PathOpens ==
  ASSUME NEW a, NEW v \in Views, v.phase = "open", ~v.closed, NEW k \in Kinds
  PROVE  /\ Path(a, v, <<BlockStart(Len(v.blocks) + 1, k)>>, WithNew(v, k))
         /\ BlockStart(Len(v.blocks) + 1, k) \in Events
<1> DEFINE e == BlockStart(Len(v.blocks) + 1, k)
<1>1. Len(v.blocks) + 1 \in Nat
  BY ViewTyped, LenProperties
<1>2. e \in Events /\ e.type = "blockStart" /\ e.block = Len(v.blocks) + 1 /\ e.kind = k
  BY <1>1 DEF BlockStart, Events
<1> HIDE DEF e
<1>3. Legal(a, v, e)
  BY <1>2 DEF Legal
<1>4. Heard(v, e) = WithNew(v, k)
  BY <1>2, HeardBlockStart DEF WithNew
<1> QED
  BY <1>2, <1>3, <1>4, PathOne DEF e

\* A delta of an open block is legal and leads to a longer block.
LEMMA PathGrows ==
  ASSUME NEW a, NEW v \in Views, v.phase = "open", ~v.closed,
         NEW b, NEW k \in Kinds, OpenIn(v, b, k), NEW n \in Nat
  PROVE  /\ Path(a, v, <<Delta(b, k, n)>>, WithLen(v, b, v.blocks[b].len + n, FALSE))
         /\ Delta(b, k, n) \in Events
<1> DEFINE e == Delta(b, k, n)
<1>1. b \in Nat /\ b \in DOMAIN v.blocks /\ v.blocks[b].kind = k /\ v.blocks[b].ended = FALSE
  <2>1. v.blocks \in Seq(Told) /\ b \in DOMAIN v.blocks /\ v.blocks[b] \in Told
    BY ViewTyped, ElementOfSeq DEF OpenIn
  <2> QED
    BY <2>1, LenProperties DEF OpenIn, Told
<1>2. e \in Events /\ e.type = "delta" /\ e.block = b /\ e.kind = k /\ e.add = n
  BY <1>1 DEF Delta, Events
<1> HIDE DEF e
<1>3. Legal(a, v, e)
  BY <1>2 DEF Legal
<1>4. Heard(v, e) = WithLen(v, b, v.blocks[b].len + n, FALSE)
  <2> DEFINE new == [kind |-> v.blocks[b].kind, len |-> v.blocks[b].len + n, ended |-> FALSE]
             old == [kind |-> e.kind, len |-> v.blocks[e.block].len + e.add,
                     ended |-> v.blocks[e.block].ended]
  <2>1. old = new /\ e.block = b
    BY <1>1, <1>2
  <2>2. Heard(v, e) = [v EXCEPT !.blocks = [v.blocks EXCEPT ![e.block] = old]]
    BY <1>1, <1>2, HeardDelta
  <2> HIDE DEF old, new
  <2>3. Heard(v, e) = [v EXCEPT !.blocks = [v.blocks EXCEPT ![b] = new]]
    BY <2>1, <2>2, Zenon
  <2> QED
    BY <2>3, Zenon DEF WithLen, new
<1> QED
  BY <1>2, <1>3, <1>4, PathOne DEF e

\* The end of an open block is legal when it takes nothing back.
LEMMA PathEnds ==
  ASSUME NEW a, NEW v \in Views, v.phase = "open", ~v.closed,
         NEW b, NEW k \in Kinds, OpenIn(v, b, k), NEW n \in Nat, n >= v.blocks[b].len
  PROVE  /\ Path(a, v, <<BlockEnd(b, k, n)>>, WithLen(v, b, n, TRUE))
         /\ BlockEnd(b, k, n) \in Events
<1> DEFINE e == BlockEnd(b, k, n)
<1>1. b \in Nat /\ b \in DOMAIN v.blocks /\ v.blocks[b].kind = k
  <2>1. v.blocks \in Seq(Told) /\ b \in DOMAIN v.blocks
    BY ViewTyped DEF OpenIn
  <2> QED
    BY <2>1, LenProperties DEF OpenIn
<1>2. e \in Events /\ e.type = "blockEnd" /\ e.block = b /\ e.kind = k /\ e.len = n
  BY <1>1 DEF BlockEnd, Events
<1> HIDE DEF e
<1>3. Legal(a, v, e)
  BY <1>2 DEF Legal
<1>4. Heard(v, e) = WithLen(v, b, n, TRUE)
  <2> DEFINE new == [kind |-> v.blocks[b].kind, len |-> n, ended |-> TRUE]
             old == [kind |-> e.kind, len |-> e.len, ended |-> TRUE]
  <2>1. old = new /\ e.block = b
    BY <1>1, <1>2
  <2>2. Heard(v, e) = [v EXCEPT !.blocks = [v.blocks EXCEPT ![e.block] = old]]
    BY <1>1, <1>2, HeardBlockEnd
  <2> HIDE DEF old, new
  <2>3. Heard(v, e) = [v EXCEPT !.blocks = [v.blocks EXCEPT ![b] = new]]
    BY <2>1, <2>2, Zenon
  <2> QED
    BY <2>3, Zenon DEF WithLen, new
<1> QED
  BY <1>2, <1>3, <1>4, PathOne DEF e

\* Views that agree field by field and block by block are the same.
LEMMA SameView ==
  ASSUME NEW v \in Views, NEW w \in Views,
         v.phase = w.phase, v.closed = w.closed, v.final = w.final,
         Len(v.blocks) = Len(w.blocks),
         \A b \in 1..Len(v.blocks) : /\ v.blocks[b].kind = w.blocks[b].kind
                                     /\ v.blocks[b].len = w.blocks[b].len
                                     /\ v.blocks[b].ended = w.blocks[b].ended
  PROVE  v = w
<1>1. v.blocks \in Seq(Told) /\ w.blocks \in Seq(Told)
  BY ViewTyped
<1>2. ASSUME NEW b \in 1..Len(v.blocks) PROVE v.blocks[b] = w.blocks[b]
  <2>1. v.blocks[b] \in Told /\ w.blocks[b] \in Told
    BY <1>1, ElementOfSeq
  <2> QED
    BY <2>1 DEF Told
<1>3. v.blocks = w.blocks
  BY <1>1, <1>2, SeqEqual
<1> QED
  BY <1>3 DEF Views

-----------------------------------------------------------------------------
(* Pushing.                                                                *)

\* A list whose last event alone may be terminal is pushed whole.
LEMMA PushAll ==
  ASSUME NEW es \in Seq(Events), \A n \in 1..Len(es) : n < Len(es) => ~IsTerminal(es[n]),
         sender, Push(es)
  PROVE  /\ chan' = chan \o es
         /\ sender' \in BOOLEAN
         /\ (\A n \in 1..Len(es) : ~IsTerminal(es[n])) => sender'
         /\ (\E n \in 1..Len(es) : IsTerminal(es[n])) => ~sender'
<1> DEFINE before == {n \in 0..Len(es) : \A m \in 1..n : m < n => ~IsTerminal(es[m])}
           last == CHOOSE n \in before : \A m \in before : m <= n
<1>1. Len(es) \in Nat /\ DOMAIN es = 1..Len(es)
  BY LenProperties
<1>2. before = 0..Len(es)
  BY <1>1
<1>3. last = Len(es)
  <2>1. Len(es) \in before /\ \A m \in before : m <= Len(es)
    BY <1>1, <1>2
  <2>2. last \in before /\ \A m \in before : m <= last
    BY <2>1
  <2> HIDE DEF last, before
  <2>3. last \in Int /\ last <= Len(es)
    BY <1>1, <1>2, <2>1, <2>2
  <2>4. Len(es) <= last
    BY <2>1, <2>2
  <2> QED
    <3>1. \A m, n \in Int : m <= n /\ n <= m => m = n
      OBVIOUS
    <3>2. Len(es) \in Int
      BY <1>1
    <3> QED
      BY <2>3, <2>4, <3>1, <3>2
<1>4. SubSeq(es, 1, last) = es
  BY <1>3, SubSeqFull
<1>5. /\ chan' = IF sender THEN chan \o SubSeq(es, 1, last) ELSE chan
      /\ sender' = (sender /\ \A n \in DOMAIN es : ~IsTerminal(es[n]))
  BY Zenon DEF Push
<1> HIDE DEF last, before
<1>6. chan' = chan \o es
  BY <1>4, <1>5
<1>7. sender' = \A n \in 1..Len(es) : ~IsTerminal(es[n])
  BY <1>1, <1>5
<1> QED
  BY <1>6, <1>7

-----------------------------------------------------------------------------
(* The invariant: the message under construction.                          *)

Waiting == {"entry", "check", "sending", "sleeping", "refusing", "errorBody"}

DataOK ==
  /\ api \in Apis
  /\ blocks \in Seq(Content)
  /\ item \in [Items -> {"new", "open", "closed"}]
  /\ sent \in [Items -> Nat]
  /\ told \in [Items -> SUBSET {"index", "id", "otherId"}]
  /\ script \in [content : Seq(ScriptedBlocks), stop : {"stop", "error"}, said : Nat]

\* Blocks and items belong together, one to one, and agree on what was sent.
Homes ==
  api # "faux" =>
    /\ \A b \in DOMAIN blocks : /\ blocks[b].item \in Items
                                /\ blocks[b].len = sent[blocks[b].item]
                                /\ item[blocks[b].item] # "new"
    /\ \A b, c \in DOMAIN blocks : blocks[b].item = blocks[c].item => b = c
    /\ \A i \in Items : item[i] # "new" => \E b \in DOMAIN blocks : blocks[b].item = i
    /\ \A i \in Items : item[i] = "new" => sent[i] = 0 /\ told[i] = {}

\* An index or an id under which an item may come leads to its block.
Slots ==
  /\ DOMAIN slot \subseteq Items
  /\ \A i \in DOMAIN slot : slot[i] \in DOMAIN blocks /\ blocks[slot[i]].item = i
  /\ api \in {"anthropic", "responses"} => \A i \in Items : item[i] = "open" => i \in DOMAIN slot

ItemOfId(d) == IF d \in Items THEN d ELSE d - N

Ids ==
  api = "completions" =>
    /\ DOMAIN byId \subseteq 1..(N + N)
    /\ \A d \in DOMAIN byId : byId[d] \in DOMAIN blocks /\ blocks[byId[d]].item = ItemOfId(d)
    /\ \A i \in Items : /\ "index" \in told[i] => i \in DOMAIN slot
                        /\ "id" \in told[i] => OwnId(i) \in DOMAIN byId
                        /\ "otherId" \in told[i] => OtherId(i) \in DOMAIN byId

\* Completions has one block of text and one of reasoning.
OneOfAKind ==
  api = "completions" =>
    \A b, c \in DOMAIN blocks :
      blocks[b].kind = blocks[c].kind /\ blocks[b].kind \in {"text", "thinking"} => b = c

\* What the flags of a loop say of its message.
Flags ==
  /\ api = "anthropic" =>
       /\ saw \in {{}, {"message_start"}, {"message_start", "message_stop"}}
       /\ saw = {} => blocks = <<>>
       /\ "message_stop" \in saw => AllClosed
  /\ api = "completions" => saw \subseteq {"finish_reason"}

Assembled == DataOK /\ Homes /\ Slots /\ Ids /\ OneOfAKind /\ Flags

-----------------------------------------------------------------------------
(* The invariant: where the events lead.                                   *)

StreamOK ==
  /\ pc \in Waiting \cup {"reading", "chunk", "returned"}
  /\ cancelled \in BOOLEAN
  /\ chan \in Seq(Events) /\ sender \in BOOLEAN
  /\ outcome \in {"running", "ok", "error", "aborted", "gone"}
  /\ view \in Views

\* Who is where; the faux task never returns a result of its own.
Control ==
  /\ api = "faux" => pc \in {"entry", "chunk", "returned"} /\ outcome = "running"
  /\ api # "faux" => pc # "chunk"
  /\ pc # "returned" => sender /\ outcome = "running" /\ ~view.closed

\* Before the response nothing is under construction.
Fresh ==
  pc \in Waiting =>
    /\ blocks = <<>> /\ slot = <<>> /\ byId = <<>> /\ saw = {}
    /\ item = [i \in Items |-> "new"] /\ sent = [i \in Items |-> 0]
    /\ told = [i \in Items |-> {}]
    /\ script.said = 0

\* The faux task has said its script up to the open block.
SaidSoFar ==
  api = "faux" /\ pc = "chunk" =>
    /\ blocks # <<>> /\ Len(blocks) <= Len(script.content)
    /\ \A b \in DOMAIN blocks : blocks[b].kind = script.content[b].kind
    /\ \A b \in DOMAIN blocks : b < Len(blocks) => blocks[b].len = Chunks(b)
    /\ script.said < Chunks(Len(blocks))
    /\ blocks[Len(blocks)].kind # "tool" => blocks[Len(blocks)].len = script.said

\* Success is told of an answer that was served whole.
Served(content) ==
  /\ api = "anthropic" => "message_stop" \in saw \/ content = <<>>
  /\ api = "completions" => "finish_reason" \in saw
  /\ api = "responses" => AllClosed
  /\ api = "faux" => Len(content) = Len(script.content)

DoneServed ==
  /\ \A n \in 1..Len(chan) : chan[n].type = "done" => pc = "returned" /\ Served(chan[n].content)
  /\ view.phase = "done" => pc = "returned" /\ Served(view.final)

FinalFaithful ==
  view.phase \in {"done", "error"} => Faithful(api, view.final, view.blocks)

\* The view that all the events pushed so far lead to, while the producer works.
HasEnded(b) ==
  \/ api \in {"anthropic", "responses"} /\ item[blocks[b].item] = "closed"
  \/ api = "faux" /\ b < Len(blocks)

ToldLen(b) == IF api = "faux" /\ b = Len(blocks) THEN script.said ELSE blocks[b].len

Produced ==
  [phase |-> IF pc \in {"reading", "chunk"} THEN "open" ELSE "waiting",
   blocks |-> [b \in DOMAIN blocks |->
                 [kind |-> blocks[b].kind, len |-> ToldLen(b), ended |-> HasEnded(b)]],
   closed |-> FALSE, final |-> <<>>]

\* The view they lead to once the producer has returned: a terminal event has
\* been pushed, or a failure is still to be delivered.
Settled(w) ==
  /\ outcome = "ok" => ~sender
  /\ outcome = "running" => api = "faux" /\ ~sender
  /\ outcome = "gone" => sender /\ chan = <<>>
  /\ sender /\ outcome # "gone" =>
       w.phase \in {"waiting", "open"} /\ ~w.closed /\ Faithful(api, blocks, w.blocks)
  /\ ~(sender /\ outcome # "gone") => w.phase \in {"done", "error"}

OnTheWay ==
  /\ pc # "returned" => Path(api, view, chan, Produced)
  /\ pc = "returned" => \E w \in Views : Path(api, view, chan, w) /\ Settled(w)

Flow == StreamOK /\ Control /\ Fresh /\ SaidSoFar /\ DoneServed /\ FinalFaithful /\ OnTheWay

ProviderInv == Assembled /\ Flow

-----------------------------------------------------------------------------
ProducedSays ==
  /\ Produced \in Views
  /\ Produced.phase = IF pc \in {"reading", "chunk"} THEN "open" ELSE "waiting"
  /\ Produced.closed = FALSE /\ Produced.final = <<>>
  /\ Len(Produced.blocks) = Len(blocks)
  /\ DOMAIN Produced.blocks = 1..Len(blocks)
  /\ \A b \in 1..Len(blocks) : /\ Produced.blocks[b].kind = blocks[b].kind
                               /\ Produced.blocks[b].len = ToldLen(b)
                               /\ Produced.blocks[b].ended = HasEnded(b)

\* What the producer has made is a view, block by block.
LEMMA ProducedFields == DataOK => ProducedSays
<1> SUFFICES ASSUME DataOK PROVE ProducedSays
  OBVIOUS
<1> DEFINE f == [b \in DOMAIN blocks |->
                   [kind |-> blocks[b].kind, len |-> ToldLen(b), ended |-> HasEnded(b)]]
<1>1. DOMAIN blocks = 1..Len(blocks) /\ Len(blocks) \in Nat
  BY LenProperties DEF DataOK
<1>2. ASSUME NEW b \in 1..Len(blocks)
      PROVE  /\ blocks[b].kind \in Kinds /\ ToldLen(b) \in Nat /\ HasEnded(b) \in BOOLEAN
             /\ f[b] = [kind |-> blocks[b].kind, len |-> ToldLen(b), ended |-> HasEnded(b)]
             /\ f[b] \in Told
  <2>1. blocks[b] \in Content /\ script.said \in Nat
    BY <1>1, ElementOfSeq DEF DataOK
  <2>2. blocks[b].kind \in Kinds /\ ToldLen(b) \in Nat /\ HasEnded(b) \in BOOLEAN
    BY <1>1, <2>1 DEF Content, ToldLen, HasEnded
  <2>3. f[b] = [kind |-> blocks[b].kind, len |-> ToldLen(b), ended |-> HasEnded(b)]
    BY <1>1
  <2>4. [kind |-> blocks[b].kind, len |-> ToldLen(b), ended |-> HasEnded(b)] \in Told
    BY <2>2 DEF Told
  <2> QED
    BY <2>2, <2>3, <2>4
<1>3. f = [b \in 1..Len(blocks) |-> f[b]]
  BY <1>1
<1>4. DOMAIN f = 1..Len(blocks)
  BY <1>1
<1>5. Produced = [phase |-> IF pc \in {"reading", "chunk"} THEN "open" ELSE "waiting",
                  blocks |-> f, closed |-> FALSE, final |-> <<>>]
  BY DEF Produced
<1> HIDE DEF f
<1>7. f \in Seq(Told) /\ Len(f) = Len(blocks)
  BY <1>1, <1>2, <1>3, <1>4
<1>8. Produced \in Views
  BY <1>5, <1>7 DEF Views
<1> QED
  BY <1>1, <1>2, <1>4, <1>5, <1>7, <1>8 DEF ProducedSays

\* The same after a step.
LEMMA ProducedFieldsNext == DataOK' => ProducedSays'
<1>1. DataOK => ProducedSays
  BY ProducedFields
<1> QED
  BY <1>1, PTL

-----------------------------------------------------------------------------
(* The consumer's steps.                                                   *)

\* The contract's form of a change of one block.
LEMMA LenAlone ==
  ASSUME NEW s \in Seq(Told), NEW i \in DOMAIN s, NEW n \in Nat
  PROVE  /\ [s EXCEPT ![i] = [kind |-> s[i].kind, len |-> n, ended |-> s[i].ended]]
              = [s EXCEPT ![i].len = n]
         /\ [s EXCEPT ![i] = [kind |-> s[i].kind, len |-> n, ended |-> TRUE]]
              = [s EXCEPT ![i].ended = TRUE, ![i].len = n]
<1>1. s[i] \in Told
  BY ElementOfSeq
<1>2. [kind |-> s[i].kind, len |-> n, ended |-> s[i].ended] = [s[i] EXCEPT !.len = n]
  BY <1>1 DEF Told
<1>3. [kind |-> s[i].kind, len |-> n, ended |-> TRUE] = [s[i] EXCEPT !.ended = TRUE, !.len = n]
  <2>1. ASSUME NEW x
        PROVE  [s[i] EXCEPT !.ended = x, !.len = n] = [kind |-> s[i].kind, len |-> n, ended |-> x]
    <3> DEFINE r == [s[i] EXCEPT !.ended = x]
    <3>1. r = [kind |-> s[i].kind, len |-> s[i].len, ended |-> x]
      BY <1>1 DEF Told
    <3> HIDE DEF r
    <3>2. [r EXCEPT !.len = n] = [kind |-> s[i].kind, len |-> n, ended |-> x]
      BY <3>1
    <3>3. [s[i] EXCEPT !.ended = x, !.len = n] = [r EXCEPT !.len = n]
      BY Zenon DEF r
    <3> QED
      BY <3>2, <3>3
  <2> QED
    BY <2>1, Zenon
<1> QED
  BY <1>2, <1>3

\* Any legal event takes the consumer one step of the contract further.
LEMMA HeardIsContractStep ==
  ASSUME view \in Views, NEW e \in Events, Legal(api, view, e), view' = Heard(view, e)
  PROVE  Contract!Next
<1>1. view.blocks \in Seq(Told) /\ DOMAIN view.blocks = 1..Len(view.blocks)
  BY ViewTyped, LenProperties
<1>2. CASE e.type = "start"
  <2>1. view' = [view EXCEPT !.phase = "open"] /\ view.phase = "waiting"
    BY <1>2, HeardStart DEF Legal
  <2>2. Contract!Begin
    BY <2>1 DEF Contract!Begin, Views
  <2> QED
    BY <2>2 DEF Contract!Next
<1>3. CASE e.type = "blockStart"
  <2>1. /\ view' = WithNew(view, e.kind) /\ e.kind \in Kinds /\ view.phase = "open"
        /\ e.block = Len(view.blocks) + 1
    BY <1>3, HeardBlockStart, EventTyped DEF Legal, WithNew
  <2>2. view'.blocks = Append(view.blocks, [kind |-> e.kind, len |-> 0, ended |-> FALSE])
    BY <2>1, ViewTyped DEF WithNew, Views
  <2>3. view'.phase = view.phase /\ view'.closed = view.closed
    <3>1. Same(view, WithNew(view, e.kind))
      BY <2>1, NewTyped
    <3> QED
      BY <2>1, <3>1 DEF Same
  <2>4. Contract!OpenBlock
    BY <2>1, <2>2, <2>3 DEF Contract!OpenBlock, Contract!Kinds, Kinds
  <2> QED
    BY <2>4 DEF Contract!Next
<1>4. CASE e.type = "delta"
  <2> DEFINE b == e.block
             n == view.blocks[b].len + e.add
             s == [view.blocks EXCEPT ![b] =
                     [kind |-> view.blocks[b].kind, len |-> n, ended |-> view.blocks[b].ended]]
  <2>1. /\ b \in DOMAIN view.blocks /\ e.kind = view.blocks[b].kind
        /\ ~view.blocks[b].ended /\ view.phase = "open"
    BY <1>4 DEF Legal, OpenIn
  <2>2. view.blocks[b].len \in Nat /\ n \in Nat /\ n >= view.blocks[b].len
    <3>1. view.blocks[b] \in Told /\ e.add \in Nat
      BY <1>1, <1>4, <2>1, ElementOfSeq, EventTyped
    <3> QED
      BY <3>1 DEF Told
  <2>3. view' = [view EXCEPT !.blocks = s]
    BY <1>4, <2>1, HeardDelta
  <2>4. s \in Seq(Told) /\ s[b].len = n
    <3>1. [kind |-> view.blocks[b].kind, len |-> n, ended |-> view.blocks[b].ended] \in Told
      BY <1>1, <2>1, <2>2, ElementOfSeq DEF Told
    <3> QED
      BY <1>1, <2>1, <3>1, ExceptSeq
  <2>5. s = [view.blocks EXCEPT ![b].len = n]
    BY <1>1, <2>1, <2>2, LenAlone
  <2> HIDE DEF s, n, b
  <2>6. view'.blocks = s /\ view'.phase = view.phase /\ view'.closed = view.closed
    BY <2>3, <2>4, SameBlocks DEF Same
  <2>7. Contract!Grow(b)
    BY <2>1, <2>2, <2>4, <2>5, <2>6 DEF Contract!Grow
  <2> QED
    BY <2>1, <2>7 DEF Contract!Next
<1>5. CASE e.type = "blockEnd"
  <2> DEFINE b == e.block
             n == e.len
             s == [view.blocks EXCEPT ![b] =
                     [kind |-> view.blocks[b].kind, len |-> n, ended |-> TRUE]]
  <2>1. /\ b \in DOMAIN view.blocks /\ e.kind = view.blocks[b].kind
        /\ ~view.blocks[b].ended /\ view.phase = "open"
        /\ n \in Nat /\ n >= view.blocks[b].len
    BY <1>5, EventTyped DEF Legal, OpenIn
  <2>3. view' = [view EXCEPT !.blocks = s]
    BY <1>5, <2>1, HeardBlockEnd
  <2>4. s \in Seq(Told) /\ s[b].len = n
    <3>1. [kind |-> view.blocks[b].kind, len |-> n, ended |-> TRUE] \in Told
      BY <1>1, <2>1, ElementOfSeq DEF Told
    <3> QED
      BY <1>1, <2>1, <3>1, ExceptSeq
  <2>5. s = [view.blocks EXCEPT ![b].ended = TRUE, ![b].len = n]
    BY <1>1, <2>1, LenAlone
  <2> HIDE DEF s, n, b
  <2>6. view'.blocks = s /\ view'.phase = view.phase /\ view'.closed = view.closed
    BY <2>3, <2>4, SameBlocks DEF Same
  <2>7. Contract!EndBlock(b)
    BY <2>1, <2>4, <2>5, <2>6 DEF Contract!EndBlock
  <2> QED
    BY <2>1, <2>7 DEF Contract!Next
<1>6. CASE e.type \in {"done", "error"}
  <2>1. view' = [view EXCEPT !.phase = e.type, !.final = e.content]
    BY <1>6, HeardTerminal
  <2>2. view'.phase = e.type /\ view'.blocks = view.blocks /\ view'.closed = view.closed
    BY <2>1 DEF Views
  <2>3. e.type = "done" => Contract!Complete
    BY <2>2 DEF Legal, Contract!Complete
  <2>4. e.type = "error" => Contract!Fail
    BY <2>2 DEF Legal, Contract!Fail
  <2> QED
    BY <1>6, <2>3, <2>4 DEF Contract!Next
<1> QED
  BY <1>2, <1>3, <1>4, <1>5, <1>6, EventTyped

\* An event taken from the channel was legal there.
LEMMA ReceiveIsLegal ==
  ASSUME ProviderInv, Receive
  PROVE  /\ Head(chan) \in Events /\ Legal(api, view, Head(chan))
         /\ view' = Heard(view, Head(chan)) /\ view' \in Views
         /\ chan' = Tail(chan) /\ chan' \in Seq(Events)
         /\ \A w : Path(api, view, chan, w) => Path(api, view', chan', w)
<1>1. chan # <<>> /\ chan \in Seq(Events) /\ view \in Views
  BY DEF Receive, ProviderInv, Flow, StreamOK
<1>2. PICK w : Path(api, view, chan, w)
  BY DEF ProviderInv, Flow, OnTheWay
<1>3. Head(chan) \in Events /\ Legal(api, view, Head(chan))
  BY <1>1, <1>2, PathTail
<1>4. view' = Heard(view, Head(chan)) /\ chan' = Tail(chan)
  BY DEF Receive
<1> QED
  BY <1>1, <1>3, <1>4, PathTail, HeardTyped

\* A failure that is delivered is legal as well.
LEMMA FailureIsLegal ==
  ASSUME ProviderInv, DeliverError(blocks)
  PROVE  /\ Terminal("error", blocks) \in Events
         /\ Legal(api, view, Terminal("error", blocks))
         /\ view' = Heard(view, Terminal("error", blocks))
         /\ pc = "returned"
<1>1. /\ chan = <<>> /\ sender /\ outcome \in {"error", "aborted"} /\ ~view.closed
      /\ view' = Heard(view, Terminal("error", blocks))
  BY DEF DeliverError
<1>2. pc = "returned"
  BY <1>1 DEF ProviderInv, Flow, Control
<1>3. PICK w \in Views : Path(api, view, chan, w) /\ Settled(w)
  BY <1>2 DEF ProviderInv, Flow, OnTheWay
<1>4. w = view
  BY <1>1, <1>3, PathStays
<1>5. view.phase \in {"waiting", "open"} /\ Faithful(api, blocks, view.blocks)
  BY <1>1, <1>3, <1>4 DEF Settled
<1>6. blocks \in Seq(Content)
  BY DEF ProviderInv, Assembled, DataOK
<1> DEFINE e == Terminal("error", blocks)
<1>7. e \in Events /\ e.type = "error" /\ e.content = blocks
  BY <1>6 DEF Terminal, Events
<1> HIDE DEF e
<1>8. Legal(api, view, e)
  BY <1>1, <1>5, <1>7 DEF Legal
<1> QED
  BY <1>1, <1>2, <1>7, <1>8 DEF e

\* A stream ends only after a terminal event.
LEMMA CloseIsLegal ==
  ASSUME ProviderInv, Close
  PROVE  /\ view.phase \in {"done", "error"} /\ ~view.closed /\ chan = <<>> /\ pc = "returned"
         /\ Settled(view)
<1>1. chan = <<>> /\ ~view.closed /\ (~sender \/ outcome \in {"ok", "gone"})
  BY DEF Close
<1>2. pc = "returned"
  BY <1>1 DEF ProviderInv, Flow, Control
<1>3. PICK w \in Views : Path(api, view, chan, w) /\ Settled(w)
  BY <1>2 DEF ProviderInv, Flow, OnTheWay
<1>4. w = view
  BY <1>1, <1>3, PathStays
<1> QED
  BY <1>1, <1>2, <1>3, <1>4 DEF Settled

-----------------------------------------------------------------------------
(* What the ways to push and to return do to the invariant.                *)

streamless == <<outputVars, item, sent, told, script, api>>

\* The message is well-formed as long as nobody touches it.
LEMMA AssembledStays ==
  ASSUME Assembled, UNCHANGED <<blocks, slot, byId, saw, item, sent, told, script, api>>
  PROVE  Assembled'
BY DEF Assembled, DataOK, Homes, Slots, Ids, ItemOfId, OneOfAKind, Flags, AllClosed

\* While the producer works nothing is settled.
LEMMA Working ==
  ASSUME ProviderInv, pc # "returned"
  PROVE  /\ sender /\ outcome = "running" /\ ~view.closed
         /\ Path(api, view, chan, Produced) /\ ProducedSays
         /\ \A n \in 1..Len(chan) : chan[n].type # "done"
         /\ view.phase # "done" /\ chan \in Seq(Events) /\ view \in Views
BY ProducedFields DEF ProviderInv, Assembled, Flow, Control, OnTheWay, DoneServed, StreamOK

\* Nothing is pushed, and the request goes on or the token is cancelled.
LEMMA QuietInv ==
  ASSUME ProviderInv, UNCHANGED <<streamVars, streamless>>, cancelled' \in BOOLEAN,
         pc' = pc \/ (pc \in Waiting /\ pc' \in Waiting /\ api # "faux")
  PROVE  ProviderInv'
<1>1. Assembled'
  BY AssembledStays DEF ProviderInv, streamless, outputVars
<1>2. StreamOK' /\ Control' /\ Fresh' /\ SaidSoFar'
  BY DEF ProviderInv, Flow, StreamOK, Control, Fresh, SaidSoFar, Chunks, Waiting, streamless,
         outputVars, streamVars
<1>3. DoneServed' /\ FinalFaithful'
  BY DEF ProviderInv, Flow, DoneServed, Served, AllClosed, FinalFaithful, Waiting, streamless,
         outputVars, streamVars
<1>4. OnTheWay'
  <2>1. Produced' = Produced
    BY DEF Produced, ToldLen, HasEnded, Waiting, streamless, outputVars
  <2>2. UNCHANGED <<api, view, chan, sender, outcome, blocks>>
    BY DEF streamless, outputVars, streamVars
  <2>3. CASE pc # "returned"
    BY <2>1, <2>2, <2>3 DEF ProviderInv, Flow, OnTheWay, Waiting
  <2>4. CASE pc = "returned"
    <3>1. PICK w \in Views : Path(api, view, chan, w) /\ Settled(w)
      BY <2>4 DEF ProviderInv, Flow, OnTheWay
    <3>2. Path(api, view, chan, w)' /\ Settled(w)'
      BY <2>2, <3>1 DEF Settled
    <3> QED
      BY <2>4, <3>2 DEF OnTheWay, Waiting
  <2> QED
    BY <2>3, <2>4
<1> QED
  BY <1>1, <1>2, <1>3, <1>4 DEF ProviderInv, Flow

\* The producer returns a failure, which is delivered later.
LEMMA FailInv ==
  ASSUME ProviderInv, pc # "returned", api # "faux", NEW kind \in {"error", "aborted"}, Fail(kind),
         UNCHANGED <<blocks, slot, byId, saw, item, sent, told, script, api, cancelled>>
  PROVE  ProviderInv'
<1>1. Assembled'
  BY AssembledStays DEF ProviderInv
<1>2. /\ UNCHANGED <<chan, sender, view>> /\ outcome' = kind /\ pc' = "returned"
  BY DEF Fail
<1>3. StreamOK' /\ Control' /\ Fresh' /\ SaidSoFar'
  BY <1>2 DEF ProviderInv, Flow, StreamOK, Control, Fresh, SaidSoFar, Waiting
<1>4. DoneServed' /\ FinalFaithful'
  BY <1>2, Working DEF ProviderInv, Flow, DoneServed, FinalFaithful
<1>5. OnTheWay'
  <2>1. blocks \in Seq(Content) /\ DOMAIN blocks = 1..Len(blocks)
    BY LenProperties DEF ProviderInv, Assembled, DataOK
  <2>2. PICK w \in Views : w = Produced
    BY Working DEF ProducedSays
  <2>3. Faithful(api, blocks, w.blocks) /\ w.phase \in {"waiting", "open"} /\ ~w.closed
    BY <2>1, <2>2, Working DEF Faithful, ProducedSays, ToldLen
  <2>4. Path(api', view', chan', w)
    BY <1>2, <2>2, Working
  <2>5. Settled(w)'
    BY <1>2, <2>3, Working DEF Settled
  <2> QED
    BY <1>2, <2>4, <2>5 DEF OnTheWay
<1> QED
  BY <1>1, <1>3, <1>4, <1>5 DEF ProviderInv, Flow

\* The producer goes on after pushing events that lead to what it then has.
LEMMA EmitInv ==
  ASSUME ProviderInv, pc # "returned", NEW es \in Seq(Events),
         \A n \in 1..Len(es) : ~IsTerminal(es[n]), Push(es),
         pc' \in {"reading", "chunk"}, pc' = "chunk" <=> api = "faux",
         UNCHANGED <<outcome, view, cancelled, api>>, Assembled', SaidSoFar',
         Path(api, Produced, es, Produced')
  PROVE  ProviderInv'
<1>1. chan' = chan \o es /\ sender' = TRUE
  BY Working, PushAll
<1>2. chan' \in Seq(Events) /\ Path(api, view, chan', Produced')
  BY <1>1, Working, PathConcat
<1>3. StreamOK' /\ Control' /\ Fresh'
  BY <1>1, <1>2, Working DEF ProviderInv, Flow, StreamOK, Control, Fresh, Waiting
<1>4. DoneServed'
  <2>1. ASSUME NEW n \in 1..Len(chan') PROVE chan'[n].type # "done"
    <3>1. /\ Len(chan') = Len(chan) + Len(es) /\ Len(chan) \in Nat /\ Len(es) \in Nat
          /\ chan'[n] = IF n <= Len(chan) THEN chan[n] ELSE es[n - Len(chan)]
      BY <1>1, Working, ConcatProperties, LenProperties
    <3>2. CASE n <= Len(chan)
      BY <3>1, <3>2, Working
    <3>3. CASE ~(n <= Len(chan))
      <4>1. n - Len(chan) \in 1..Len(es)
        BY <3>1, <3>3
      <4> QED
        BY <3>1, <3>3, <4>1 DEF IsTerminal
    <3> QED
      BY <3>2, <3>3
  <2> QED
    BY <2>1, Working DEF DoneServed
<1>5. FinalFaithful' /\ OnTheWay'
  BY <1>2 DEF ProviderInv, Flow, FinalFaithful, OnTheWay
<1> QED
  BY <1>3, <1>4, <1>5 DEF ProviderInv, Flow

\* The producer returns after pushing a terminal event.
LEMMA FinishInv ==
  ASSUME ProviderInv, pc # "returned", NEW es \in Seq(Events), NEW type \in {"done", "error"},
         NEW content \in Seq(Content), NEW w \in Views,
         \A n \in 1..Len(es) : ~IsTerminal(es[n]),
         Push(Append(es, Terminal(type, content))), pc' = "returned",
         outcome' = IF api = "faux" THEN "running" ELSE "ok",
         UNCHANGED <<view, cancelled, api>>, Assembled',
         Path(api, Produced, es, w), Legal(api, w, Terminal(type, content)),
         type = "done" => Served(content)'
  PROVE  ProviderInv'
<1> DEFINE e == Terminal(type, content)
           all == Append(es, e)
<1>1. e \in Events /\ e.type = type /\ e.content = content /\ IsTerminal(e)
  BY DEF Terminal, Events, IsTerminal
<1>2. Push(all) /\ Legal(api, w, e)
  OBVIOUS
<1> HIDE DEF e
<1>3. /\ all \in Seq(Events) /\ Len(all) = Len(es) + 1 /\ Len(es) \in Nat
      /\ \A n \in 1..Len(es) : all[n] = es[n]
      /\ all[Len(es) + 1] = e
  BY <1>1, AppendProperties, LenProperties
<1> HIDE DEF all
<1>4. chan' = chan \o all /\ sender' = FALSE
  <2>1. \A n \in 1..Len(all) : n < Len(all) => ~IsTerminal(all[n])
    BY <1>3
  <2>2. \E n \in 1..Len(all) : IsTerminal(all[n])
    BY <1>1, <1>3
  <2> QED
    BY <1>2, <1>3, <2>1, <2>2, Working, PushAll
<1>5. Heard(w, e) \in Views /\ Heard(w, e).phase = type
  <2>1. /\ Heard(w, e) = [w EXCEPT !.phase = e.type, !.final = e.content]
        /\ Heard(w, e) \in Views
    BY <1>1, HeardTerminal
  <2>2. [w EXCEPT !.phase = e.type, !.final = e.content].phase = e.type
    BY DEF Views
  <2> QED
    BY <1>1, <2>1, <2>2
<1>6. chan' \in Seq(Events) /\ Path(api, view, chan', Heard(w, e))
  <2>1. Path(api, Produced, all, Heard(w, e))
    BY <1>1, <1>2, PathAppend DEF all
  <2> QED
    BY <1>3, <1>4, <2>1, Working, PathConcat
<1>7. StreamOK' /\ Control' /\ Fresh' /\ SaidSoFar'
  BY <1>4, <1>6, Working DEF ProviderInv, Flow, StreamOK, Control, Fresh, SaidSoFar, Waiting
<1>8. DoneServed'
  <2>1. ASSUME NEW n \in 1..Len(chan'), chan'[n].type = "done"
        PROVE  type = "done" /\ chan'[n].content = content
    <3>0. chan \in Seq(Events) /\ Len(chan') = Len(chan) + Len(all) /\ Len(chan) \in Nat
      BY <1>3, <1>4, Working, ConcatProperties, LenProperties
    <3>1. /\ Len(chan') = Len(chan) + Len(all) /\ Len(chan) \in Nat /\ n \in Int
          /\ 1 <= n /\ n <= Len(chan) + (Len(es) + 1)
      BY <1>3, <3>0
    <3>2. chan'[n] = IF n <= Len(chan) THEN chan[n] ELSE all[n - Len(chan)]
      BY <1>3, <1>4, Working, ConcatProperties
    <3>3. ~(n <= Len(chan))
      BY <2>1, <3>1, <3>2, Working
    <3>4. chan'[n] = all[n - Len(chan)] /\ n - Len(chan) \in 1..(Len(es) + 1)
      BY <1>3, <3>1, <3>2, <3>3
    <3>5. CASE n - Len(chan) = Len(es) + 1
      BY <1>1, <1>3, <2>1, <3>4, <3>5
    <3>6. CASE n - Len(chan) # Len(es) + 1
      <4>1. n - Len(chan) \in 1..Len(es)
        BY <1>3, <3>1, <3>4, <3>6
      <4> QED
        BY <1>3, <2>1, <3>4, <4>1 DEF IsTerminal
    <3> QED
      BY <3>5, <3>6
  <2>2. ASSUME NEW n \in 1..Len(chan'), chan'[n].type = "done"
        PROVE  Served(chan[n].content)'
    <3>1. type = "done" /\ chan'[n].content = content
      BY <2>1, <2>2
    <3>2. Served(content)'
      BY <3>1
    <3> QED
      BY <3>1, <3>2 DEF Served
  <2> QED
    BY <2>2, Working DEF DoneServed
<1>9. FinalFaithful' /\ OnTheWay'
  <2>1. PICK x \in Views : x = Heard(w, e)
    BY <1>5
  <2>2. Settled(x)'
    BY <1>4, <1>5, <2>1 DEF Settled
  <2>3. Path(api', view', chan', x)
    BY <1>6, <2>1
  <2> QED
    BY <2>2, <2>3 DEF ProviderInv, Flow, FinalFaithful, OnTheWay
<1> QED
  BY <1>7, <1>8, <1>9 DEF ProviderInv, Flow

-----------------------------------------------------------------------------
(* What a consumer makes of a message: its blocks, where over says which   *)
(* of them have ended.                                                     *)

ViewOf(s, over) ==
  [phase |-> "open",
   blocks |-> [b \in DOMAIN s |-> [kind |-> s[b].kind, len |-> s[b].len, ended |-> over[b]]],
   closed |-> FALSE, final |-> <<>>]

\* t is s with n fragments in block b.
Sized(s, t, b, n) ==
  /\ t \in Seq(Content) /\ Len(t) = Len(s)
  /\ \A c \in 1..Len(s) : /\ t[c].kind = s[c].kind /\ t[c].item = s[c].item
                          /\ t[c].len = IF c = b THEN n ELSE s[c].len

\* t is s with a block of kind k for item i, of n fragments.
Opens(s, t, k, i, n) ==
  /\ t \in Seq(Content) /\ Len(t) = Len(s) + 1
  /\ \A c \in 1..Len(s) : t[c] = s[c]
  /\ t[Len(s) + 1] = [kind |-> k, item |-> i, len |-> n]

\* Changing the length of one block.
LEMMA SizedExcept ==
  ASSUME NEW s \in Seq(Content), NEW b \in DOMAIN s, NEW n \in Nat
  PROVE  Sized(s, [s EXCEPT ![b].len = n], b, n)
<1> DEFINE new == [s[b] EXCEPT !.len = n]
<1>1. s[b] \in Content
  BY ElementOfSeq
<1>2. new \in Content /\ new.kind = s[b].kind /\ new.item = s[b].item /\ new.len = n
  BY <1>1 DEF Content
<1>3. [s EXCEPT ![b].len = n] = [s EXCEPT ![b] = new]
  OBVIOUS
<1> HIDE DEF new
<1> DEFINE t == [s EXCEPT ![b] = new]
<1>4. /\ t \in Seq(Content) /\ Len(t) = Len(s)
      /\ \A c \in 1..Len(s) : t[c] = IF c = b THEN new ELSE s[c]
  BY <1>2, ExceptSeq
<1> HIDE DEF t
<1>5. Sized(s, t, b, n)
  BY <1>2, <1>4 DEF Sized
<1> QED
  BY <1>3, <1>5 DEF t

\* An append opens a block.
LEMMA OpensAppend ==
  ASSUME NEW s \in Seq(Content), NEW k \in Kinds, NEW i \in Nat, NEW n \in Nat
  PROVE  Opens(s, Append(s, [kind |-> k, item |-> i, len |-> n]), k, i, n)
<1> DEFINE new == [kind |-> k, item |-> i, len |-> n]
<1>1. new \in Content
  BY DEF Content
<1> HIDE DEF new
<1>2. /\ Append(s, new) \in Seq(Content) /\ Len(Append(s, new)) = Len(s) + 1
      /\ \A c \in 1..Len(s) : Append(s, new)[c] = s[c]
      /\ Append(s, new)[Len(s) + 1] = new
  BY <1>1, AppendProperties
<1> QED
  BY <1>2 DEF Opens, new

\* A block that is opened and grows in one step.
LEMMA OpensSized ==
  ASSUME NEW s, NEW t, NEW u, NEW k, NEW i, NEW n, NEW m, Len(s) \in Nat,
         Opens(s, t, k, i, n), Sized(t, u, Len(s) + 1, m)
  PROVE  \A c \in 1..Len(s) : u[c] = s[c]
<1>1. ASSUME NEW c \in 1..Len(s) PROVE u[c] = s[c]
  <2>1. /\ c \in 1..Len(t) /\ c # Len(s) + 1 /\ t[c] = s[c]
        /\ c \in 1..Len(u)
    BY DEF Opens, Sized
  <2>2. u[c].kind = t[c].kind /\ u[c].item = t[c].item /\ u[c].len = t[c].len
    BY <2>1 DEF Sized
  <2>3. t[c] \in Content /\ u[c] \in Content
    BY <2>1, ElementOfSeq, LenProperties DEF Opens, Sized
  <2> QED
    BY <2>1, <2>2, <2>3 DEF Content
<1> QED
  BY <1>1

\* over says of each block of s whether it has ended.
Tells(over, s) == \A b \in 1..Len(s) : over[b] \in BOOLEAN
StillOpen(over, b) == over[b] = FALSE
NowOver(over, b) == over[b] = TRUE

\* The fields of the view of a message.
LEMMA ViewOfFields ==
  ASSUME NEW s \in Seq(Content), NEW over, Tells(over, s)
  PROVE  /\ ViewOf(s, over) \in Views
         /\ ViewOf(s, over).phase = "open"
         /\ ~ViewOf(s, over).closed
         /\ ViewOf(s, over).final = <<>>
         /\ Len(ViewOf(s, over).blocks) = Len(s)
         /\ DOMAIN ViewOf(s, over).blocks = 1..Len(s)
         /\ \A b \in 1..Len(s) : /\ ViewOf(s, over).blocks[b].kind = s[b].kind
                                 /\ ViewOf(s, over).blocks[b].len = s[b].len
                                 /\ ViewOf(s, over).blocks[b].ended = over[b]
<1> DEFINE f == [b \in DOMAIN s |-> [kind |-> s[b].kind, len |-> s[b].len, ended |-> over[b]]]
<1>1. DOMAIN s = 1..Len(s) /\ Len(s) \in Nat
  BY LenProperties
<1>2. ASSUME NEW b \in 1..Len(s)
      PROVE  /\ f[b].kind = s[b].kind /\ f[b].len = s[b].len /\ f[b].ended = over[b]
             /\ f[b] \in Told
  <2>1. s[b] \in Content
    BY <1>1, ElementOfSeq
  <2>2. s[b].kind \in Kinds /\ s[b].len \in Nat /\ over[b] \in BOOLEAN
    BY <2>1 DEF Content, Tells
  <2>3. f[b] = [kind |-> s[b].kind, len |-> s[b].len, ended |-> over[b]]
    BY <1>1
  <2> QED
    BY <2>2, <2>3 DEF Told
<1>3. f = [b \in 1..Len(s) |-> f[b]]
  BY <1>1, Zenon
<1>4. DOMAIN f = 1..Len(s)
  BY <1>1
<1>5. ViewOf(s, over) = [phase |-> "open", blocks |-> f, closed |-> FALSE, final |-> <<>>]
  BY Zenon DEF ViewOf
<1> HIDE DEF f
<1>6. f \in Seq(Told) /\ Len(f) = Len(s)
  BY <1>1, <1>2, <1>3, <1>4
<1>7. ViewOf(s, over) \in Views
  BY <1>5, <1>6 DEF Views
<1> QED
  BY <1>2, <1>4, <1>5, <1>6, <1>7

\* A view is known by its blocks.
LEMMA ViewOfSame ==
  ASSUME NEW s \in Seq(Content), NEW over, Tells(over, s), NEW w \in Views,
         w.phase = "open", ~w.closed, w.final = <<>>, Len(w.blocks) = Len(s),
         \A b \in 1..Len(s) : /\ w.blocks[b].kind = s[b].kind
                             /\ w.blocks[b].len = s[b].len
                             /\ w.blocks[b].ended = over[b]
  PROVE  w = ViewOf(s, over)
<1>1. w.closed = ViewOf(s, over).closed
  BY ViewOfFields, ViewTyped
<1> QED
  BY <1>1, ViewOfFields, SameView

\* Opening a block of the message is what BlockStart tells.
LEMMA ViewOfOpens ==
  ASSUME NEW a, NEW s \in Seq(Content), NEW t, NEW k \in Kinds, NEW i,
         Opens(s, t, k, i, 0), NEW over, Tells(over, s),
         NEW out, \A c \in 1..Len(s) : out[c] = over[c], out[Len(s) + 1] = FALSE
  PROVE  /\ Path(a, ViewOf(s, over), <<BlockStart(Len(s) + 1, k)>>, ViewOf(t, out))
         /\ BlockStart(Len(s) + 1, k) \in Events
<1>1. PICK v \in Views : v = ViewOf(s, over)
  BY ViewOfFields
<1>2. PICK w \in Views : w = WithNew(v, k)
  BY NewTyped DEF Same
<1>3. /\ v.phase = "open" /\ ~v.closed /\ v.final = <<>> /\ Len(v.blocks) = Len(s)
      /\ Len(s) \in Nat
  BY <1>1, ViewOfFields, LenProperties
<1>4. /\ t \in Seq(Content) /\ Len(t) = Len(s) + 1
      /\ \A c \in 1..Len(s) : t[c] = s[c]
      /\ t[Len(s) + 1].kind = k /\ t[Len(s) + 1].len = 0
  BY DEF Opens
<1>5. /\ w.phase = "open" /\ ~w.closed /\ w.final = <<>> /\ Len(w.blocks) = Len(t)
      /\ \A c \in 1..Len(s) : w.blocks[c] = v.blocks[c]
      /\ w.blocks[Len(s) + 1] = [kind |-> k, len |-> 0, ended |-> FALSE]
  BY <1>2, <1>3, <1>4, NewTyped DEF Same
<1>6. ASSUME NEW b \in 1..Len(t)
      PROVE  /\ w.blocks[b].kind = t[b].kind
             /\ w.blocks[b].len = t[b].len
             /\ w.blocks[b].ended = out[b]
             /\ out[b] \in BOOLEAN
  <2>1. CASE b = Len(s) + 1
    <3>1. w.blocks[b].kind = k /\ w.blocks[b].len = 0 /\ w.blocks[b].ended = FALSE
      BY <1>5, <2>1
    <3>2. t[b].kind = k /\ t[b].len = 0 /\ out[b] = FALSE
      BY <1>4, <2>1
    <3>3. FALSE \in BOOLEAN
      OBVIOUS
    <3> QED
      BY <3>1, <3>2, <3>3, Zenon
  <2>2. CASE b # Len(s) + 1
    <3>1. b \in 1..Len(s)
      BY <1>3, <1>4, <2>2
    <3>2. /\ v.blocks[b].kind = s[b].kind
          /\ v.blocks[b].len = s[b].len
          /\ v.blocks[b].ended = over[b]
      BY <1>1, <3>1, ViewOfFields
    <3> QED
      BY <1>4, <1>5, <3>1, <3>2 DEF Tells
  <2> QED
    BY <2>1, <2>2
<1>7. w = ViewOf(t, out)
  <2>1. Tells(out, t)
    BY <1>6 DEF Tells
  <2>2. \A b \in 1..Len(t) : /\ w.blocks[b].kind = t[b].kind
                             /\ w.blocks[b].len = t[b].len
                             /\ w.blocks[b].ended = out[b]
    BY <1>6
  <2>3. w.phase = "open" /\ ~w.closed /\ w.final = <<>> /\ Len(w.blocks) = Len(t)
    BY <1>5
  <2>4. t \in Seq(Content)
    BY <1>4
  <2> QED
    BY <2>1, <2>2, <2>3, <2>4, ViewOfSame
<1>8. /\ Path(a, v, <<BlockStart(Len(v.blocks) + 1, k)>>, w)
      /\ BlockStart(Len(v.blocks) + 1, k) \in Events
  BY <1>2, <1>3, PathOpens
<1> QED
  BY <1>1, <1>3, <1>7, <1>8

\* The view of a message in which one block has another length.
LEMMA ViewOfSized ==
  ASSUME NEW s \in Seq(Content), NEW t, NEW b \in 1..Len(s), NEW n \in Nat, Sized(s, t, b, n),
         NEW over, Tells(over, s), NEW x \in BOOLEAN,
         NEW out, out[b] = x, \A c \in 1..Len(s) : c # b => out[c] = over[c]
  PROVE  WithLen(ViewOf(s, over), b, n, x) = ViewOf(t, out)
<1>1. PICK v \in Views : v = ViewOf(s, over)
  BY ViewOfFields
<1>2. /\ v.phase = "open" /\ ~v.closed /\ v.final = <<>> /\ Len(v.blocks) = Len(s)
      /\ DOMAIN v.blocks = 1..Len(s)
  BY <1>1, ViewOfFields
<1>3. PICK w \in Views : w = WithLen(v, b, n, x)
  BY <1>2, LenTyped DEF Same
<1>4. /\ w.phase = "open" /\ ~w.closed /\ w.final = <<>> /\ Len(w.blocks) = Len(s)
      /\ \A c \in 1..Len(s) : c # b => w.blocks[c] = v.blocks[c]
      /\ w.blocks[b] = [kind |-> v.blocks[b].kind, len |-> n, ended |-> x]
  BY <1>2, <1>3, LenTyped DEF Same
<1>5. /\ t \in Seq(Content) /\ Len(t) = Len(s)
      /\ \A c \in 1..Len(s) : t[c].kind = s[c].kind /\ t[c].len = IF c = b THEN n ELSE s[c].len
  BY DEF Sized
<1>6. ASSUME NEW c \in 1..Len(t)
      PROVE  /\ w.blocks[c].kind = t[c].kind
             /\ w.blocks[c].len = t[c].len
             /\ w.blocks[c].ended = out[c]
             /\ out[c] \in BOOLEAN
  <2>1. /\ v.blocks[c].kind = s[c].kind
        /\ v.blocks[c].len = s[c].len
        /\ v.blocks[c].ended = over[c]
    BY <1>1, <1>5, ViewOfFields
  <2>2. CASE c = b
    BY <1>4, <1>5, <2>1, <2>2
  <2>3. CASE c # b
    BY <1>4, <1>5, <2>1, <2>3 DEF Tells
  <2> QED
    BY <2>2, <2>3
<1>7. w = ViewOf(t, out)
  BY <1>4, <1>5, <1>6, ViewOfSame DEF Tells
<1> QED
  BY <1>1, <1>3, <1>7

\* Growing a block of the message is what Delta tells.
LEMMA ViewOfGrows ==
  ASSUME NEW a, NEW s \in Seq(Content), NEW t, NEW b \in 1..Len(s), NEW n \in Nat,
         Sized(s, t, b, s[b].len + n), NEW over, Tells(over, s), StillOpen(over, b),
         NEW out, \A c \in 1..Len(s) : out[c] = over[c]
  PROVE  /\ Path(a, ViewOf(s, over), <<Delta(b, s[b].kind, n)>>, ViewOf(t, out))
         /\ Delta(b, s[b].kind, n) \in Events
<1>1. PICK v \in Views : v = ViewOf(s, over)
  BY ViewOfFields
<1>2. s[b] \in Content
  BY ElementOfSeq
<1>3. s[b].kind \in Kinds /\ s[b].len \in Nat /\ s[b].len + n \in Nat
  BY <1>2 DEF Content
<1>4. /\ v.phase = "open" /\ ~v.closed /\ b \in DOMAIN v.blocks
      /\ v.blocks[b].kind = s[b].kind /\ v.blocks[b].len = s[b].len
      /\ v.blocks[b].ended = FALSE
  BY <1>1, ViewOfFields DEF StillOpen
<1>5. OpenIn(v, b, s[b].kind)
  BY <1>4 DEF OpenIn
<1>6. /\ Path(a, v, <<Delta(b, s[b].kind, n)>>, WithLen(v, b, v.blocks[b].len + n, FALSE))
      /\ Delta(b, s[b].kind, n) \in Events
  BY <1>3, <1>4, <1>5, PathGrows
<1>7. PICK x \in BOOLEAN : x = FALSE /\ x = out[b]
  BY DEF StillOpen
<1>8. WithLen(ViewOf(s, over), b, s[b].len + n, x) = ViewOf(t, out)
  <2>1. out[b] = x
    BY <1>7
  <2> QED
    BY <1>3, <2>1, ViewOfSized
<1> QED
  BY <1>1, <1>4, <1>6, <1>7, <1>8, Zenon

\* Ending a block of the message is what BlockEnd tells.
LEMMA ViewOfEnds ==
  ASSUME NEW a, NEW s \in Seq(Content), NEW t, NEW b \in 1..Len(s), NEW n \in Nat,
         n >= s[b].len, Sized(s, t, b, n), NEW over, Tells(over, s), StillOpen(over, b),
         NEW out, NowOver(out, b), \A c \in 1..Len(s) : c # b => out[c] = over[c]
  PROVE  /\ Path(a, ViewOf(s, over), <<BlockEnd(b, s[b].kind, n)>>, ViewOf(t, out))
         /\ BlockEnd(b, s[b].kind, n) \in Events
<1>1. PICK v \in Views : v = ViewOf(s, over)
  BY ViewOfFields
<1>2. s[b] \in Content
  BY ElementOfSeq
<1>3. s[b].kind \in Kinds /\ s[b].len \in Nat
  BY <1>2 DEF Content
<1>4. /\ v.phase = "open" /\ ~v.closed /\ b \in DOMAIN v.blocks
      /\ v.blocks[b].kind = s[b].kind /\ v.blocks[b].len = s[b].len
      /\ v.blocks[b].ended = FALSE
  BY <1>1, ViewOfFields DEF StillOpen
<1>5. OpenIn(v, b, s[b].kind)
  BY <1>4 DEF OpenIn
<1>6. /\ Path(a, v, <<BlockEnd(b, s[b].kind, n)>>, WithLen(v, b, n, TRUE))
      /\ BlockEnd(b, s[b].kind, n) \in Events
  BY <1>3, <1>4, <1>5, PathEnds
<1>7. PICK x \in BOOLEAN : x = TRUE /\ x = out[b]
  BY DEF NowOver
<1>8. WithLen(ViewOf(s, over), b, n, x) = ViewOf(t, out)
  <2>1. out[b] = x
    BY <1>7
  <2> QED
    BY <2>1, ViewOfSized
<1> QED
  BY <1>1, <1>6, <1>7, <1>8, Zenon

\* The first event opens the message.
LEMMA ViewOfStart ==
  ASSUME NEW a, NEW v \in Views, v.phase = "waiting", ~v.closed, v.final = <<>>,
         Len(v.blocks) = 0, NEW over
  PROVE  Path(a, v, <<Start>>, ViewOf(<<>>, over)) /\ Start \in Events
<1>1. Start \in Events /\ Start.type = "start" /\ Legal(a, v, Start)
  BY DEF Start, Events, Legal
<1>2. Heard(v, Start) = [v EXCEPT !.phase = "open"] /\ Heard(v, Start) \in Views
  BY <1>1, HeardStart
<1>3. PICK w \in Views : w = Heard(v, Start)
  BY <1>2
<1>4. /\ w.phase = "open" /\ w.closed = v.closed /\ w.final = v.final /\ w.blocks = v.blocks
  BY <1>2, <1>3 DEF Views
<1>5. <<>> \in Seq(Content) /\ Len(<<>>) = 0
  BY EmptySeq
<1>6. w = ViewOf(<<>>, over)
  <2> DEFINE s == <<>>
  <2>1. s \in Seq(Content) /\ Len(s) = 0 /\ 1..Len(s) = {}
    BY <1>5
  <2> HIDE DEF s
  <2>2. w = ViewOf(s, over)
    BY <1>4, <2>1, ViewOfSame DEF Tells
  <2> QED
    BY <2>2 DEF s
<1> QED
  BY <1>1, <1>3, <1>6, PathOne

\* The first n blocks have ended.
UpTo(n, s) == [c \in 1..Len(s) |-> IF c <= n THEN TRUE ELSE FALSE]

\* All blocks are ended, one after the other.
LEMMA ViewOfEndsAll ==
  ASSUME NEW a, NEW s \in Seq(Content),
         NEW es, es = [b \in DOMAIN s |-> BlockEnd(b, s[b].kind, s[b].len)]
  PROVE  /\ es \in Seq(Events)
         /\ \A n \in 1..Len(es) : ~IsTerminal(es[n])
         /\ Path(a, ViewOf(s, UpTo(0, s)), es, ViewOf(s, UpTo(Len(s), s)))
<1>1. DOMAIN s = 1..Len(s) /\ Len(s) \in Nat
  BY LenProperties
<1> DEFINE h == [n \in 0..Len(s) |-> ViewOf(s, UpTo(n, s))]
<1>2. \A n \in 0..Len(s) : Tells(UpTo(n, s), s) /\ ViewOf(s, UpTo(n, s)) \in Views
  <2>1. \A n \in 0..Len(s) : Tells(UpTo(n, s), s)
    BY DEF Tells, UpTo
  <2> QED
    BY <2>1, ViewOfFields
<1>3. ASSUME NEW b \in 1..Len(s)
      PROVE  /\ es[b] = BlockEnd(b, s[b].kind, s[b].len)
             /\ es[b] \in Events
             /\ Legal(a, h[b - 1], es[b])
             /\ h[b] = Heard(h[b - 1], es[b])
  <2>1. s[b] \in Content
    BY ElementOfSeq
  <2>2. s[b].len \in Nat /\ s[b].len >= s[b].len
    BY <2>1 DEF Content
  <2>3. Sized(s, s, b, s[b].len)
    BY DEF Sized
  <2>4. b - 1 \in 0..Len(s) /\ b \in 0..Len(s)
    BY <1>1
  <2>5. /\ StillOpen(UpTo(b - 1, s), b) /\ NowOver(UpTo(b, s), b)
        /\ \A c \in 1..Len(s) : c # b => UpTo(b, s)[c] = UpTo(b - 1, s)[c]
    BY <1>1 DEF UpTo, StillOpen, NowOver
  <2>6. /\ Path(a, ViewOf(s, UpTo(b - 1, s)), <<BlockEnd(b, s[b].kind, s[b].len)>>,
                ViewOf(s, UpTo(b, s)))
        /\ BlockEnd(b, s[b].kind, s[b].len) \in Events
    BY <1>2, <2>2, <2>3, <2>4, <2>5, ViewOfEnds
  <2>7. es[b] = BlockEnd(b, s[b].kind, s[b].len)
    BY <1>1
  <2>8. h[b - 1] = ViewOf(s, UpTo(b - 1, s)) /\ h[b] = ViewOf(s, UpTo(b, s))
    BY <2>4
  <2> HIDE DEF h
  <2>9. Path(a, h[b - 1], <<es[b]>>, h[b]) /\ es[b] \in Events /\ h[b - 1] \in Views
    BY <1>2, <2>4, <2>6, <2>7, <2>8
  <2>10. /\ <<es[b]>> \in Seq(Events) /\ <<es[b]>> # <<>>
         /\ Head(<<es[b]>>) = es[b] /\ Tail(<<es[b]>>) = <<>>
    BY <2>9
  <2>11. Legal(a, h[b - 1], es[b]) /\ Path(a, Heard(h[b - 1], es[b]), <<>>, h[b])
    BY <2>9, <2>10, PathTail
  <2> QED
    BY <2>7, <2>9, <2>11, PathStays
<1>4. es \in Seq(Events) /\ Len(es) = Len(s)
  <2>1. DOMAIN es = 1..Len(s) /\ es = [b \in 1..Len(s) |-> es[b]]
    BY <1>1
  <2>2. \A b \in 1..Len(s) : es[b] \in Events
    BY <1>3
  <2>3. es \in [1..Len(s) -> Events]
    BY <2>1, <2>2, Zenon
  <2> QED
    BY <1>1, <2>3
<1>5. \A n \in 1..Len(es) : ~IsTerminal(es[n])
  BY <1>3, <1>4 DEF IsTerminal, BlockEnd
<1>6. /\ h \in [0..Len(es) -> Views]
      /\ h[0] = ViewOf(s, UpTo(0, s)) /\ h[Len(es)] = ViewOf(s, UpTo(Len(s), s))
  BY <1>1, <1>2, <1>4
<1> HIDE DEF h
<1>7. Leads(a, h, ViewOf(s, UpTo(0, s)), es, ViewOf(s, UpTo(Len(s), s)))
  BY <1>3, <1>4, <1>6 DEF Leads
<1> QED
  BY <1>4, <1>5, <1>6, <1>7 DEF Path

-----------------------------------------------------------------------------
(* The request.                                                            *)

Over == [b \in DOMAIN blocks |-> HasEnded(b)]

\* What a provider that reads its response has produced.
ProducedIsView ==
  /\ Produced = ViewOf(blocks, Over) /\ Tells(Over, blocks)
  /\ \A b \in 1..Len(blocks) : Over[b] = HasEnded(b)

\* While a response is read, what is produced is the view of the message.
LEMMA ProducedView ==
  DataOK /\ api # "faux" /\ pc = "reading" => ProducedIsView
<1> SUFFICES ASSUME DataOK, api # "faux", pc = "reading" PROVE ProducedIsView
  OBVIOUS
<1>1. DOMAIN blocks = 1..Len(blocks) /\ blocks \in Seq(Content)
  BY LenProperties DEF DataOK
<1>2. \A b \in 1..Len(blocks) : Over[b] = HasEnded(b) /\ HasEnded(b) \in BOOLEAN
  BY <1>1 DEF Over, HasEnded
<1>3. Tells(Over, blocks)
  BY <1>2 DEF Tells
<1>4. /\ Produced \in Views /\ Produced.phase = "open" /\ ~Produced.closed
      /\ Produced.final = <<>> /\ Len(Produced.blocks) = Len(blocks)
      /\ \A b \in 1..Len(blocks) : /\ Produced.blocks[b].kind = blocks[b].kind
                                   /\ Produced.blocks[b].len = blocks[b].len
                                   /\ Produced.blocks[b].ended = Over[b]
  <2>1. ProducedSays
    BY ProducedFields
  <2>2. \A b : ToldLen(b) = blocks[b].len
    BY DEF ToldLen
  <2> QED
    BY <1>2, <2>1, <2>2 DEF ProducedSays
<1>5. Produced = ViewOf(blocks, Over)
  BY <1>1, <1>3, <1>4, ViewOfSame
<1> QED
  BY <1>2, <1>3, <1>5 DEF ProducedIsView

\* The same after a step.
LEMMA ProducedViewNext ==
  DataOK' /\ api' # "faux" /\ pc' = "reading" => ProducedIsView'
<1>1. DataOK /\ api # "faux" /\ pc = "reading" => ProducedIsView
  BY ProducedView
<1>2. (DataOK /\ api # "faux" /\ pc = "reading")' => ProducedIsView'
  BY <1>1, PTL
<1> QED
  BY <1>2

\* The answer that is read begins the message.
LEMMA StartInv ==
  ASSUME ProviderInv, pc \in Waiting, api # "faux", Push(<<Start>>), pc' = "reading",
         UNCHANGED <<outcome, polled, view, cancelled, streamless>>
  PROVE  ProviderInv'
<1>1. UNCHANGED <<outputVars, item, sent, told, script, api>>
  BY DEF streamless
<1>2. Assembled'
  BY <1>1, AssembledStays DEF ProviderInv, outputVars
<1>3. blocks = <<>> /\ blocks' = <<>> /\ api' # "faux" /\ pc # "returned"
  BY <1>1 DEF ProviderInv, Flow, Fresh, outputVars, Waiting
<1>4. Produced' = ViewOf(<<>>, Over')
  BY <1>2, <1>3, ProducedViewNext DEF Assembled, ProducedIsView
<1>5. Path(api, Produced, <<Start>>, Produced') /\ Start \in Events
  <2>1. ProducedSays
    BY <1>3, Working
  <2>2. /\ Produced \in Views /\ Produced.phase = "waiting" /\ ~Produced.closed
        /\ Produced.final = <<>> /\ Len(Produced.blocks) = 0
    BY <1>3, <2>1 DEF ProducedSays, Waiting
  <2> QED
    BY <1>4, <2>2, ViewOfStart
<1>6. <<Start>> \in Seq(Events) /\ \A n \in 1..Len(<<Start>>) : ~IsTerminal(<<Start>>[n])
  BY <1>5 DEF Start, IsTerminal
<1>7. SaidSoFar'
  BY <1>3 DEF SaidSoFar
<1> QED
  BY <1>1, <1>2, <1>3, <1>5, <1>6, <1>7, EmitInv

\* The answer to a request: another try, a body to read, an end or the message.
LEMMA AnswerLeads ==
  ASSUME Answer
  PROVE  \/ pc' \in Waiting /\ Stay
         \/ Fail("error")
         \/ pc' = "reading" /\ Push(<<Start>>) /\ UNCHANGED <<outcome, polled, view>>
<1>1. PICK answer \in Answers, capped \in BOOLEAN :
        LET delay == RetryDelay(answer, capped) IN
        IF IsRetryable(answer) /\ MayRetry
        THEN CASE delay = "none" -> pc' = "check" /\ attempt' = attempt + 1 /\ Stay
               [] delay = "some" -> pc' = "sleeping" /\ UNCHANGED attempt /\ Stay
               [] delay = "tooLong" -> pc' = "refusing" /\ UNCHANGED attempt /\ Stay
        ELSE IF answer.status = "success" THEN Succeed
        ELSE pc' = "errorBody" /\ attempt' = 0 /\ Stay
  BY Zenon DEF Answer
<1>2. RetryDelay(answer, capped) \in {"none", "some", "tooLong"}
  BY DEF RetryDelay
<1>3. CASE IsRetryable(answer) /\ MayRetry
  BY <1>1, <1>2, <1>3 DEF Waiting
<1>4. CASE ~(IsRetryable(answer) /\ MayRetry) /\ answer.status = "success"
  BY <1>1, <1>4 DEF Succeed
<1>5. CASE ~(IsRetryable(answer) /\ MayRetry) /\ answer.status # "success"
  BY <1>1, <1>5 DEF Waiting
<1> QED
  BY <1>3, <1>4, <1>5

\* The request and its retries keep the invariant.
LEMMA HttpInv == ProviderInv /\ Http => ProviderInv'
<1> SUFFICES ASSUME ProviderInv, Http PROVE ProviderInv'
  OBVIOUS
<1>1. /\ api # "faux" /\ HttpStep
      /\ UNCHANGED <<blocks, stop, slot, byId, saw, item, sent, told, left, script, api>>
      /\ UNCHANGED streamless /\ cancelled \in BOOLEAN
  BY DEF Http, outputVars, serverVars, streamless, ProviderInv, Flow, StreamOK
<1>2. CASE Enter
  <2>1. pc = "entry" /\ cancelled' = cancelled
    BY <1>2 DEF Enter, Running
  <2>2. CASE Fail("aborted") \/ Fail("error")
    BY <1>1, <2>1, <2>2, FailInv
  <2>3. CASE pc' = "check" /\ Stay
    BY <1>1, <2>1, <2>3, QuietInv DEF Waiting, Stay
  <2> QED
    BY <1>2, <2>2, <2>3 DEF Enter
<1>3. CASE Send
  <2>1. pc = "check" /\ cancelled' = cancelled
    BY <1>3 DEF Send, Running
  <2>2. CASE Fail("aborted")
    BY <1>1, <2>1, <2>2, FailInv
  <2>3. CASE pc' = "sending" /\ Stay
    BY <1>1, <2>1, <2>3, QuietInv DEF Waiting, Stay
  <2> QED
    BY <1>3, <2>2, <2>3 DEF Send
<1>4. CASE Answer
  <2>1. pc = "sending" /\ cancelled' = cancelled
    BY <1>4 DEF Answer, Running
  <2>2. CASE pc' \in Waiting /\ Stay
    BY <1>1, <2>1, <2>2, QuietInv DEF Waiting, Stay
  <2>3. CASE Fail("error")
    BY <1>1, <2>1, <2>3, FailInv
  <2>4. CASE pc' = "reading" /\ Push(<<Start>>) /\ UNCHANGED <<outcome, polled, view>>
    BY <1>1, <2>1, <2>4, StartInv DEF Waiting
  <2> QED
    BY <1>4, <2>2, <2>3, <2>4, AnswerLeads
<1>5. CASE SendFails
  <2>1. pc = "sending" /\ cancelled' = cancelled
    BY <1>5 DEF SendFails, Running
  <2>2. CASE Fail("error")
    BY <1>1, <2>1, <2>2, FailInv
  <2>3. CASE pc' = "sleeping" /\ Stay
    BY <1>1, <2>1, <2>3, QuietInv DEF Waiting, Stay
  <2> QED
    BY <1>5, <2>2, <2>3 DEF SendFails
<1>6. CASE WakeAndRetry
  BY <1>1, <1>6, QuietInv DEF WakeAndRetry, Running, Waiting, Stay
<1>7. CASE BodyRead
  BY <1>1, <1>7, FailInv DEF BodyRead, Running
<1>8. CASE CancelledWhileWaiting
  BY <1>1, <1>8, FailInv DEF CancelledWhileWaiting, Running, Raced
<1> QED
  BY <1>1, <1>2, <1>3, <1>4, <1>5, <1>6, <1>7, <1>8 DEF HttpStep

\* So do a broken response and a cancelled one,
LEMMA ReadingInv == ProviderInv /\ Reading => ProviderInv'
<1> SUFFICES ASSUME ProviderInv, Reading PROVE ProviderInv'
  OBVIOUS
<1>1. /\ api # "faux" /\ pc = "reading"
      /\ UNCHANGED <<blocks, stop, slot, byId, saw, item, sent, told, left, script, api, cancelled>>
      /\ Fail("error") \/ Fail("aborted")
  BY DEF Reading, ReadFails, CancelledWhileReading, Running, outputVars, serverVars
<1> QED
  BY <1>1, FailInv

\* and the cancellation itself.
LEMMA UserCancelsInv == ProviderInv /\ UserCancels => ProviderInv'
<1> SUFFICES ASSUME ProviderInv, UserCancels PROVE ProviderInv'
  OBVIOUS
<1>1. /\ UNCHANGED <<streamVars, streamless>> /\ cancelled' \in BOOLEAN /\ pc' = pc
  BY DEF UserCancels, Cancel, streamless, serverVars
<1> QED
  BY <1>1, QuietInv

-----------------------------------------------------------------------------
(* The message under construction.                                         *)

\* Item i is being sent, and nothing else has changed.
OnlyItem(i) ==
  /\ item' \in [Items -> {"new", "open", "closed"}] /\ item'[i] # "new"
  /\ told' \in [Items -> SUBSET {"index", "id", "otherId"}]
  /\ \A j \in Items : j # i => item'[j] = item[j] /\ told'[j] = told[j] /\ sent'[j] = sent[j]
  /\ sent' \in [Items -> Nat]
  /\ UNCHANGED <<script, api>>

\* Fragments sent of an item land in the item's block.
LEMMA HomesGrown ==
  ASSUME DataOK, Homes, api # "faux", NEW i \in Items, NEW b \in DOMAIN blocks,
         blocks[b].item = i, Sized(blocks, blocks', b, sent'[i]), OnlyItem(i)
  PROVE  DataOK' /\ Homes'
<1>1. DOMAIN blocks = 1..Len(blocks) /\ blocks \in Seq(Content)
  BY LenProperties DEF DataOK
<1>2. blocks' \in Seq(Content) /\ Len(blocks') = Len(blocks)
  BY DEF Sized
<1>3. DOMAIN blocks' = DOMAIN blocks
  BY <1>1, <1>2, LenProperties
<1>4. \A c \in DOMAIN blocks : /\ blocks'[c].item = blocks[c].item
                               /\ blocks'[c].len = IF c = b THEN sent'[i] ELSE blocks[c].len
  BY <1>1 DEF Sized
<1>5. DataOK'
  BY <1>2 DEF DataOK, OnlyItem
<1>6. ASSUME NEW c \in DOMAIN blocks'
      PROVE  /\ blocks'[c].item \in Items /\ item'[blocks'[c].item] # "new"
             /\ blocks'[c].len = sent'[blocks'[c].item]
  <2>1. CASE c = b
    BY <1>3, <1>4, <2>1 DEF OnlyItem
  <2>2. CASE c # b
    <3>1. /\ blocks[c].item \in Items /\ blocks[c].item # i
          /\ blocks[c].len = sent[blocks[c].item] /\ item[blocks[c].item] # "new"
      BY <1>3, <2>2 DEF Homes
    <3> QED
      BY <1>3, <1>4, <2>2, <3>1 DEF OnlyItem
  <2> QED
    BY <2>1, <2>2
<1>7. \A c, d \in DOMAIN blocks' : blocks'[c].item = blocks'[d].item => c = d
  BY <1>3, <1>4 DEF Homes
<1>8. ASSUME NEW j \in Items, item'[j] # "new"
      PROVE  \E c \in DOMAIN blocks' : blocks'[c].item = j
  <2>1. CASE j = i
    BY <1>3, <1>4, <2>1
  <2>2. CASE j # i
    <3>1. PICK c \in DOMAIN blocks : blocks[c].item = j
      BY <1>8, <2>2 DEF Homes, OnlyItem
    <3> QED
      BY <1>3, <1>4, <3>1
  <2> QED
    BY <2>1, <2>2
<1>9. \A j \in Items : item'[j] = "new" => sent'[j] = 0 /\ told'[j] = {}
  BY DEF Homes, OnlyItem
<1> QED
  BY <1>5, <1>6, <1>7, <1>8, <1>9 DEF Homes

\* An item that appears gets a block of its own.
LEMMA HomesOpened ==
  ASSUME DataOK, Homes, api # "faux", NEW i \in Items, item[i] = "new", NEW k,
         Opens(blocks, blocks', k, i, sent'[i]), OnlyItem(i)
  PROVE  /\ DataOK' /\ Homes'
         /\ Len(blocks) \in Nat /\ DOMAIN blocks = 1..Len(blocks)
         /\ DOMAIN blocks' = 1..(Len(blocks) + 1)
<1>1. /\ DOMAIN blocks = 1..Len(blocks) /\ blocks \in Seq(Content) /\ Len(blocks) \in Nat
  BY LenProperties DEF DataOK
<1>2. blocks' \in Seq(Content) /\ Len(blocks') = Len(blocks) + 1
  BY DEF Opens
<1>3. DOMAIN blocks' = 1..(Len(blocks) + 1)
  BY <1>1, <1>2, LenProperties
<1>4. /\ \A c \in 1..Len(blocks) : blocks'[c] = blocks[c]
      /\ blocks'[Len(blocks) + 1].item = i /\ blocks'[Len(blocks) + 1].len = sent'[i]
  BY DEF Opens
<1>5. DataOK'
  BY <1>2 DEF DataOK, OnlyItem
<1>6. ASSUME NEW c \in 1..Len(blocks)
      PROVE  /\ blocks[c].item \in Items /\ blocks[c].item # i
             /\ blocks[c].len = sent[blocks[c].item] /\ item[blocks[c].item] # "new"
  BY <1>1 DEF Homes
<1>7. ASSUME NEW c \in DOMAIN blocks'
      PROVE  /\ blocks'[c].item \in Items /\ item'[blocks'[c].item] # "new"
             /\ blocks'[c].len = sent'[blocks'[c].item]
             /\ blocks'[c].item = i => c = Len(blocks) + 1
  <2>1. CASE c = Len(blocks) + 1
    BY <1>4, <2>1 DEF OnlyItem
  <2>2. CASE c # Len(blocks) + 1
    <3>1. c \in 1..Len(blocks)
      BY <1>1, <1>3, <2>2
    <3> QED
      BY <1>4, <1>6, <3>1 DEF OnlyItem
  <2> QED
    BY <2>1, <2>2
<1>8. ASSUME NEW c \in DOMAIN blocks', NEW d \in DOMAIN blocks', blocks'[c].item = blocks'[d].item
      PROVE  c = d
  <2>1. CASE blocks'[c].item = i
    BY <1>7, <1>8, <2>1
  <2>2. CASE blocks'[c].item # i
    <3>1. c \in 1..Len(blocks) /\ d \in 1..Len(blocks)
      BY <1>1, <1>3, <1>4, <1>8, <2>2
    <3> QED
      BY <1>1, <1>4, <1>8, <3>1 DEF Homes
  <2> QED
    BY <2>1, <2>2
<1>9. ASSUME NEW j \in Items, item'[j] # "new"
      PROVE  \E c \in DOMAIN blocks' : blocks'[c].item = j
  <2>1. CASE j = i
    BY <1>1, <1>3, <1>4, <2>1
  <2>2. CASE j # i
    <3>1. PICK c \in DOMAIN blocks : blocks[c].item = j
      BY <1>9, <2>2 DEF Homes, OnlyItem
    <3> QED
      BY <1>1, <1>3, <1>4, <3>1
  <2> QED
    BY <2>1, <2>2
<1>10. \A j \in Items : item'[j] = "new" => sent'[j] = 0 /\ told'[j] = {}
  BY DEF Homes, OnlyItem
<1> QED
  BY <1>1, <1>3, <1>5, <1>7, <1>8, <1>9, <1>10 DEF Homes

-----------------------------------------------------------------------------
(* What the two ways to build a message lead the consumer to.              *)

\* A block is opened.
LEMMA OpenedPath ==
  ASSUME DataOK, DataOK', api # "faux", UNCHANGED api, pc = "reading", pc' = "reading",
         NEW k \in Kinds, NEW i, Opens(blocks, blocks', k, i, 0),
         \A c \in 1..Len(blocks) : HasEnded(c)' = HasEnded(c),
         \A c : c = Len(blocks) + 1 => HasEnded(c)' = FALSE
  PROVE  /\ Path(api, Produced, <<BlockStart(Len(blocks) + 1, k)>>, Produced')
         /\ BlockStart(Len(blocks) + 1, k) \in Events
<1>1. ProducedIsView /\ ProducedIsView'
  BY ProducedView, ProducedViewNext
<1>2. blocks \in Seq(Content) /\ Len(blocks') = Len(blocks) + 1 /\ Len(blocks) \in Nat
  BY LenProperties DEF DataOK, Opens
<1>3. \A c \in 1..Len(blocks) : Over'[c] = Over[c]
  BY <1>1, <1>2 DEF ProducedIsView
<1>4. Over'[Len(blocks) + 1] = FALSE
  <2>1. Len(blocks) + 1 \in 1..Len(blocks')
    BY <1>2
  <2>2. \A c \in 1..Len(blocks') : Over'[c] = HasEnded(c)'
    BY <1>1 DEF ProducedIsView
  <2> QED
    BY <2>1, <2>2
<1>5. PICK over : over = Over
  OBVIOUS
<1>6. PICK out : out = Over'
  OBVIOUS
<1>7. PICK t : t = blocks'
  OBVIOUS
<1>8. /\ Path(api, ViewOf(blocks, over), <<BlockStart(Len(blocks) + 1, k)>>, ViewOf(t, out))
      /\ BlockStart(Len(blocks) + 1, k) \in Events
  <2>1. Tells(over, blocks) /\ Opens(blocks, t, k, i, 0)
    BY <1>1, <1>5, <1>7 DEF ProducedIsView
  <2>2. (\A c \in 1..Len(blocks) : out[c] = over[c]) /\ out[Len(blocks) + 1] = FALSE
    BY <1>3, <1>4, <1>5, <1>6
  <2> QED
    BY <1>2, <2>1, <2>2, ViewOfOpens
<1> QED
  BY <1>1, <1>5, <1>6, <1>7, <1>8 DEF ProducedIsView

\* A block that is open grows.
LEMMA GrownPath ==
  ASSUME DataOK, DataOK', api # "faux", UNCHANGED api, pc = "reading", pc' = "reading",
         NEW b \in 1..Len(blocks), NEW n \in Nat, Sized(blocks, blocks', b, blocks[b].len + n),
         HasEnded(b) = FALSE, \A c \in 1..Len(blocks) : HasEnded(c)' = HasEnded(c)
  PROVE  /\ Path(api, Produced, <<Delta(b, blocks[b].kind, n)>>, Produced')
         /\ Delta(b, blocks[b].kind, n) \in Events
<1>1. ProducedIsView /\ ProducedIsView'
  BY ProducedView, ProducedViewNext
<1>2. blocks \in Seq(Content) /\ Len(blocks') = Len(blocks)
  BY DEF DataOK, Sized
<1>3. \A c \in 1..Len(blocks) : Over'[c] = Over[c]
  BY <1>1, <1>2 DEF ProducedIsView
<1>4. StillOpen(Over, b)
  BY <1>1 DEF ProducedIsView, StillOpen
<1>5. PICK over : over = Over
  OBVIOUS
<1>6. PICK out : out = Over'
  OBVIOUS
<1>7. PICK t : t = blocks'
  OBVIOUS
<1>8. /\ Path(api, ViewOf(blocks, over), <<Delta(b, blocks[b].kind, n)>>, ViewOf(t, out))
      /\ Delta(b, blocks[b].kind, n) \in Events
  BY <1>1, <1>2, <1>3, <1>4, <1>5, <1>6, <1>7, ViewOfGrows DEF ProducedIsView
<1> QED
  BY <1>1, <1>5, <1>6, <1>7, <1>8 DEF ProducedIsView

\* A block ends.
LEMMA EndedPath ==
  ASSUME DataOK, DataOK', api # "faux", UNCHANGED api, pc = "reading", pc' = "reading",
         NEW b \in 1..Len(blocks), NEW n \in Nat, n >= blocks[b].len, Sized(blocks, blocks', b, n),
         HasEnded(b) = FALSE, HasEnded(b)' = TRUE,
         \A c \in 1..Len(blocks) : c # b => HasEnded(c)' = HasEnded(c)
  PROVE  /\ Path(api, Produced, <<BlockEnd(b, blocks[b].kind, n)>>, Produced')
         /\ BlockEnd(b, blocks[b].kind, n) \in Events
<1>1. ProducedIsView /\ ProducedIsView'
  BY ProducedView, ProducedViewNext
<1>2. blocks \in Seq(Content) /\ Len(blocks') = Len(blocks)
  BY DEF DataOK, Sized
<1>3. \A c \in 1..Len(blocks) : c # b => Over'[c] = Over[c]
  BY <1>1, <1>2 DEF ProducedIsView
<1>4. StillOpen(Over, b) /\ NowOver(Over', b)
  BY <1>1, <1>2 DEF ProducedIsView, StillOpen, NowOver
<1>5. PICK over : over = Over
  OBVIOUS
<1>6. PICK out : out = Over'
  OBVIOUS
<1>7. PICK t : t = blocks'
  OBVIOUS
<1>8. /\ Path(api, ViewOf(blocks, over), <<BlockEnd(b, blocks[b].kind, n)>>, ViewOf(t, out))
      /\ BlockEnd(b, blocks[b].kind, n) \in Events
  BY <1>1, <1>2, <1>3, <1>4, <1>5, <1>6, <1>7, ViewOfEnds DEF ProducedIsView
<1> QED
  BY <1>1, <1>5, <1>6, <1>7, <1>8 DEF ProducedIsView

\* One event that ends nothing is pushed and the provider reads on.
LEMMA EmitOne ==
  ASSUME ProviderInv, api # "faux", pc = "reading", NEW e \in Events, ~IsTerminal(e),
         Emit(<<e>>), UNCHANGED <<cancelled, api>>, Assembled',
         Path(api, Produced, <<e>>, Produced')
  PROVE  ProviderInv'
<1>1. Push(<<e>>) /\ UNCHANGED <<pc, outcome, polled, view>>
  BY DEF Emit
<1>2. <<e>> \in Seq(Events) /\ \A n \in 1..Len(<<e>>) : ~IsTerminal(<<e>>[n])
  OBVIOUS
<1>3. SaidSoFar'
  BY <1>1 DEF SaidSoFar
<1> QED
  BY <1>1, <1>2, <1>3, EmitInv

\* Two such events are pushed.
LEMMA EmitTwo ==
  ASSUME ProviderInv, api # "faux", pc = "reading", NEW e \in Events, ~IsTerminal(e),
         NEW f \in Events, ~IsTerminal(f), Emit(<<e>> \o <<f>>), UNCHANGED <<cancelled, api>>,
         Assembled', Path(api, Produced, <<e>> \o <<f>>, Produced')
  PROVE  ProviderInv'
<1>1. Push(<<e>> \o <<f>>) /\ UNCHANGED <<pc, outcome, polled, view>>
  BY DEF Emit
<1>2. /\ <<e>> \o <<f>> \in Seq(Events)
      /\ \A n \in 1..Len(<<e>> \o <<f>>) : ~IsTerminal((<<e>> \o <<f>>)[n])
  OBVIOUS
<1>3. SaidSoFar'
  BY <1>1 DEF SaidSoFar
<1> QED
  BY <1>1, <1>2, <1>3, EmitInv

\* Nothing is pushed and the message stays as it is.
LEMMA EmitNothing ==
  ASSUME ProviderInv, api # "faux", pc = "reading", Emit(<<>>), Assembled',
         UNCHANGED <<cancelled, api, blocks, item>>
  PROVE  ProviderInv'
<1>1. Push(<<>>) /\ UNCHANGED <<pc, outcome, polled, view>>
  BY DEF Emit
<1>2. <<>> \in Seq(Events) /\ \A n \in 1..Len(<<>>) : ~IsTerminal(<<>>[n])
  BY EmptySeq
<1>3. SaidSoFar'
  BY <1>1 DEF SaidSoFar
<1>4. Produced' = Produced /\ Produced \in Views
  <2>1. Produced \in Views
    BY Working DEF ProducedSays
  <2>2. Produced' = Produced
    BY <1>1 DEF Produced, ToldLen, HasEnded
  <2> QED
    BY <2>1, <2>2
<1>5. Path(api, Produced, <<>>, Produced')
  BY <1>4, PathEmpty
<1> QED
  BY <1>1, <1>2, <1>3, <1>5, EmitInv

\* The producer is done with its message, whose blocks have all ended.
LEMMA FinishHere ==
  ASSUME ProviderInv, api # "faux", UNCHANGED <<cancelled, api>>, pc = "reading", Finish(<<>>),
         UNCHANGED blocks, Assembled', Served(blocks)', \A b \in 1..Len(blocks) : HasEnded(b)
  PROVE  ProviderInv'
<1>1. /\ Push(Append(<<>>, Terminal("done", blocks)))
      /\ outcome' = "ok" /\ pc' = "returned" /\ UNCHANGED view
  BY DEF Finish
<1>2. blocks \in Seq(Content) /\ DOMAIN blocks = 1..Len(blocks)
  BY LenProperties DEF ProviderInv, Assembled, DataOK
<1>3. PICK w \in Views : w = Produced
  BY Working DEF ProducedSays
<1>4. /\ w.phase = "open" /\ ~w.closed /\ DOMAIN w.blocks = 1..Len(blocks)
      /\ \A b \in 1..Len(blocks) : /\ w.blocks[b].kind = blocks[b].kind
                                   /\ w.blocks[b].len = blocks[b].len
                                   /\ w.blocks[b].ended
  BY <1>3, Working DEF ProducedSays, ToldLen
<1> DEFINE e == Terminal("done", blocks)
<1>5. e.type = "done" /\ e.content = blocks
  BY DEF Terminal
<1> HIDE DEF e
<1>6. Faithful(api, e.content, w.blocks) /\ Legal(api, w, e)
  BY <1>2, <1>4, <1>5 DEF Faithful, Legal
<1>7. <<>> \in Seq(Events) /\ \A n \in 1..Len(<<>>) : ~IsTerminal(<<>>[n])
  BY EmptySeq
<1>8. Path(api, Produced, <<>>, w)
  BY <1>3, PathEmpty
<1>9. Legal(api, w, Terminal("done", blocks))
  BY <1>6 DEF e
<1> QED
  BY <1>1, <1>2, <1>7, <1>8, <1>9, FinishInv

\* A block that grows or ends leaves the names of the blocks as they are.
LEMMA NamesKept ==
  ASSUME Assembled, NEW b, NEW n, Sized(blocks, blocks', b, n),
         UNCHANGED <<slot, byId, saw, told, api>>,
         \A j \in Items : item'[j] = "open" => item[j] = "open"
  PROVE  /\ Slots' /\ Ids' /\ OneOfAKind' /\ Flags'
         /\ DOMAIN blocks' = DOMAIN blocks /\ DOMAIN blocks = 1..Len(blocks)
         /\ Len(blocks') = Len(blocks)
         /\ \A c \in DOMAIN blocks : /\ blocks'[c].kind = blocks[c].kind
                                     /\ blocks'[c].item = blocks[c].item
<1>1. /\ blocks \in Seq(Content) /\ blocks' \in Seq(Content)
      /\ DOMAIN blocks = 1..Len(blocks) /\ DOMAIN blocks' = DOMAIN blocks
      /\ Len(blocks') = Len(blocks)
  BY LenProperties DEF Assembled, DataOK, Sized
<1>2. \A c \in DOMAIN blocks : /\ blocks'[c].kind = blocks[c].kind
                               /\ blocks'[c].item = blocks[c].item
  BY <1>1 DEF Sized
<1>3. Slots'
  BY <1>1, <1>2 DEF Assembled, Slots
<1>4. Ids'
  BY <1>1, <1>2 DEF Assembled, Ids, ItemOfId
<1>5. OneOfAKind'
  BY <1>1, <1>2 DEF Assembled, OneOfAKind
<1>6. Flags'
  <2>1. blocks = <<>> => blocks' = <<>>
    BY <1>1, EmptySeq
  <2> QED
    BY <2>1 DEF Assembled, Flags, AllClosed
<1> QED
  BY <1>1, <1>2, <1>3, <1>4, <1>5, <1>6

\* An item grows, and its block with it.
LEMMA GrowsInv ==
  ASSUME ProviderInv, api # "faux", UNCHANGED <<script, api, cancelled>>, pc = "reading",
         NEW i \in Items, NEW b \in DOMAIN blocks, blocks[b].item = i,
         (item[i] = "open" /\ UNCHANGED item) \/ api = "completions",
         NEW n \in Nat, sent'[i] = blocks[b].len + n, OnlyItem(i),
         Sized(blocks, blocks', b, sent'[i]), Slots' /\ Ids' /\ OneOfAKind' /\ Flags',
         Emit(<<Delta(b, blocks[b].kind, n)>>)
  PROVE  ProviderInv'
<1>1. Assembled /\ DataOK /\ Homes
  BY DEF ProviderInv, Assembled
<1>2. blocks \in Seq(Content) /\ DOMAIN blocks = 1..Len(blocks)
  BY <1>1, LenProperties DEF DataOK
<1>3. DataOK' /\ Homes'
  BY <1>1, HomesGrown
<1>4. HasEnded(b) = FALSE /\ \A c \in 1..Len(blocks) : HasEnded(c)' = HasEnded(c)
  <2>1. \A c \in 1..Len(blocks) : blocks'[c].item = blocks[c].item
    BY DEF Sized
  <2>2. \A c \in 1..Len(blocks) : HasEnded(c)' = HasEnded(c)
    BY <2>1 DEF HasEnded
  <2>3. ~HasEnded(b)
    BY DEF HasEnded
  <2> QED
    BY <2>2, <2>3
<1>5. Path(api, Produced, <<Delta(b, blocks[b].kind, n)>>, Produced')
      /\ Delta(b, blocks[b].kind, n) \in Events
  <2>1. pc' = "reading" /\ UNCHANGED api
    BY DEF Emit
  <2>2. Sized(blocks, blocks', b, blocks[b].len + n) /\ b \in 1..Len(blocks)
    BY <1>2
  <2> QED
    BY <1>1, <1>3, <1>4, <2>1, <2>2, GrownPath
<1>6. ~IsTerminal(Delta(b, blocks[b].kind, n))
  BY DEF IsTerminal, Delta
<1> QED
  BY <1>3, <1>5, <1>6, EmitOne DEF Assembled

\* An item that is open grows under a name it has.
LEMMA GrowInv ==
  ASSUME ProviderInv, api # "faux", UNCHANGED <<script, api, cancelled>>, pc = "reading",
         NEW i \in Items, item[i] = "open", UNCHANGED item,
         NEW b \in DOMAIN blocks, blocks[b].item = i,
         NEW n \in Nat, sent' = [sent EXCEPT ![i] = blocks[b].len + n],
         blocks' = [blocks EXCEPT ![b].len = blocks[b].len + n],
         UNCHANGED <<slot, byId, saw, told>>, Emit(<<Delta(b, blocks[b].kind, n)>>)
  PROVE  ProviderInv'
<1>1. Assembled /\ DataOK
  BY DEF ProviderInv, Assembled
<1>2. blocks \in Seq(Content) /\ blocks[b].len + n \in Nat
  <2>1. blocks \in Seq(Content) /\ blocks[b] \in Content
    BY <1>1, ElementOfSeq DEF DataOK
  <2> QED
    BY <2>1 DEF Content
<1>3. sent'[i] = blocks[b].len + n /\ OnlyItem(i)
  BY <1>1, <1>2 DEF DataOK, OnlyItem
<1>4. Sized(blocks, blocks', b, sent'[i])
  BY <1>2, <1>3, SizedExcept
<1>5. Slots' /\ Ids' /\ OneOfAKind' /\ Flags'
  BY <1>1, <1>4, NamesKept
<1> QED
  BY <1>3, <1>4, <1>5, GrowsInv

\* An item is announced, and a block opened for it.
LEMMA OpenInv ==
  ASSUME ProviderInv, api \in {"anthropic", "responses"}, UNCHANGED <<script, api, cancelled>>,
         pc = "reading", api = "anthropic" => saw = {"message_start"},
         NEW i \in Items, item[i] = "new", item' = [item EXCEPT ![i] = "open"],
         NEW k \in Kinds, blocks' = Append(blocks, NewBlock(k, i)),
         slot' = At(slot, i, Len(blocks) + 1), UNCHANGED <<byId, told, saw, sent>>,
         Emit(<<BlockStart(Len(blocks) + 1, k)>>)
  PROVE  ProviderInv'
<1>1. Assembled /\ DataOK /\ Homes /\ Slots /\ Flags
  BY DEF ProviderInv, Assembled
<1>2. sent'[i] = 0 /\ OnlyItem(i)
  BY <1>1 DEF DataOK, Homes, OnlyItem
<1>3. Opens(blocks, blocks', k, i, 0) /\ i \in Nat /\ k \in Kinds
  <2>1. i \in Nat
    BY AssemblyAssumption DEF Items
  <2>2. 0 \in Nat
    OBVIOUS
  <2>3. Opens(blocks, Append(blocks, [kind |-> k, item |-> i, len |-> 0]), k, i, 0)
    BY <1>1, <2>1, <2>2, OpensAppend DEF DataOK
  <2> QED
    BY <1>1, <2>1, <2>3 DEF NewBlock
<1>4. /\ DataOK' /\ Homes' /\ Len(blocks) \in Nat /\ DOMAIN blocks = 1..Len(blocks)
      /\ DOMAIN blocks' = 1..(Len(blocks) + 1)
  BY <1>1, <1>2, <1>3, HomesOpened
<1>5. /\ \A c \in 1..Len(blocks) : blocks'[c] = blocks[c]
      /\ blocks'[Len(blocks) + 1].item = i
  BY <1>3 DEF Opens
<1>6. Slots'
  <2>1. /\ DOMAIN slot' = DOMAIN slot \cup {i}
        /\ \A j \in DOMAIN slot' : slot'[j] = IF j = i THEN Len(blocks) + 1 ELSE slot[j]
    BY <1>1 DEF At
  <2>2. \A j \in DOMAIN slot' : slot'[j] \in DOMAIN blocks' /\ blocks'[slot'[j]].item = j
    BY <1>1, <1>4, <1>5, <2>1 DEF Slots
  <2>3. \A j \in Items : item'[j] = "open" => j \in DOMAIN slot'
    BY <1>1, <2>1 DEF Slots, DataOK
  <2> QED
    BY <1>1, <2>1, <2>2, <2>3 DEF Slots
<1>7. Flags' /\ Ids' /\ OneOfAKind'
  BY <1>1 DEF Flags, Ids, OneOfAKind
<1>8. \A c : c = Len(blocks) + 1 => HasEnded(c)' = FALSE
  <2>1. \A c : c = Len(blocks) + 1 => ~HasEnded(c)'
    BY <1>1, <1>5 DEF HasEnded, DataOK
  <2> QED
    BY <2>1
<1>9. \A c \in 1..Len(blocks) : HasEnded(c)' = HasEnded(c)
  BY <1>1, <1>4, <1>5 DEF HasEnded, DataOK, Homes
<1>10. /\ Path(api, Produced, <<BlockStart(Len(blocks) + 1, k)>>, Produced')
       /\ BlockStart(Len(blocks) + 1, k) \in Events
  <2>1. pc' = "reading"
    BY <1>1 DEF Emit
  <2> QED
    BY <1>1, <1>3, <1>4, <1>8, <1>9, <2>1, OpenedPath
<1>11. ~IsTerminal(BlockStart(Len(blocks) + 1, k))
  BY DEF IsTerminal, BlockStart
<1> QED
  BY <1>1, <1>4, <1>6, <1>7, <1>10, <1>11, EmitOne DEF Assembled

-----------------------------------------------------------------------------
(* Anthropic.                                                              *)

\* The steps of the Anthropic loop keep the invariant.
LEMMA AnthropicInv == ProviderInv /\ Assemble /\ api = "anthropic" => ProviderInv'
<1> SUFFICES ASSUME ProviderInv, Assemble, api = "anthropic" PROVE ProviderInv'
  OBVIOUS
<1>1. AnthropicStep /\ UNCHANGED <<script, api>> /\ api # "faux"
  BY DEF Assemble
<1>2. Assembled /\ DataOK /\ Homes /\ Slots /\ Flags
  BY DEF ProviderInv, Assembled
<1>3. CASE MessageStart
  <2>1. /\ pc = "reading" /\ saw' = {"message_start"} /\ Emit(<<>>)
        /\ UNCHANGED <<cancelled, byId, told, blocks, stop, slot, item, sent>>
    BY <1>3 DEF MessageStart, MessageEvent, Arrives, Running, AnthropicUnchanged
  <2>2. Assembled'
    BY <1>1, <1>2, <2>1 DEF Assembled, DataOK, Homes, Slots, Ids, OneOfAKind, Flags
  <2> QED
    BY <1>1, <2>1, <2>2, EmitNothing
<1>4. CASE MessageDelta
  <2>1. /\ pc = "reading"
        /\ UNCHANGED <<cancelled, byId, told, blocks, slot, saw, item, sent>>
        /\ Emit(<<>>) \/ Fail("error")
    BY <1>4 DEF MessageDelta, MessageEvent, Arrives, Running, AnthropicUnchanged
  <2>2. Assembled'
    BY <1>1, <1>2, <2>1, AssembledStays
  <2> QED
    BY <1>1, <2>1, <2>2, EmitNothing, FailInv
<1>5. CASE MessageStop
  <2>1. /\ pc = "reading" /\ saw = {"message_start"} /\ saw' = saw \cup {"message_stop"}
        /\ AllClosed /\ Emit(<<>>)
        /\ UNCHANGED <<cancelled, byId, told, blocks, stop, slot, item, sent>>
    BY <1>5 DEF MessageStop, MessageEvent, Arrives, Running, AnthropicUnchanged
  <2>2. Assembled'
    BY <1>1, <1>2, <2>1 DEF Assembled, DataOK, Homes, Slots, Ids, OneOfAKind, Flags, AllClosed
  <2> QED
    BY <1>1, <2>1, <2>2, EmitNothing
<1>6. ASSUME NEW i \in Items, NEW k \in Kinds \ {"custom"}, ContentBlockStart(i, k)
      PROVE  ProviderInv'
  <2>1. /\ pc = "reading" /\ saw = {"message_start"} /\ item[i] = "new" /\ k \in Kinds
        /\ item' = [item EXCEPT ![i] = "open"]
        /\ blocks' = Append(blocks, NewBlock(k, i)) /\ slot' = At(slot, i, Len(blocks) + 1)
        /\ Emit(<<BlockStart(Len(blocks) + 1, k)>>)
        /\ UNCHANGED <<cancelled, byId, told, saw, sent>>
    BY <1>6 DEF ContentBlockStart, Event, Arrives, Running, ItemOpens, IsNext, AnthropicUnchanged
  <2> QED
    BY <1>1, <2>1, OpenInv
<1>7. ASSUME NEW i \in Items, ContentBlockDelta(i)
      PROVE  ProviderInv'
  <2>1. /\ pc = "reading" /\ item[i] = "open" /\ sent' = [sent EXCEPT ![i] = @ + 1]
        /\ blocks' = Grown(slot[i], 1)
        /\ Emit(<<Delta(slot[i], blocks[slot[i]].kind, 1)>>)
        /\ UNCHANGED <<cancelled, byId, told, slot, saw, item>>
    BY <1>7 DEF ContentBlockDelta, Event, Arrives, Running, ItemSends, AnthropicUnchanged
  <2>2. PICK b \in DOMAIN blocks : b = slot[i] /\ blocks[b].item = i
    BY <1>1, <1>2, <2>1 DEF Slots
  <2>3. sent[i] = blocks[b].len
    BY <1>1, <1>2, <2>2 DEF Homes
  <2>4. blocks' = [blocks EXCEPT ![b].len = blocks[b].len + 1]
    BY <2>1, <2>2 DEF Grown
  <2>5. sent' = [sent EXCEPT ![i] = blocks[b].len + 1] /\ 1 \in Nat
    BY <2>1, <2>3
  <2> QED
    BY <1>1, <2>1, <2>2, <2>4, <2>5, GrowInv
<1>8. ASSUME NEW i \in Items, ContentBlockStop(i)
      PROVE  ProviderInv'
  <2>1. /\ pc = "reading" /\ item[i] = "open" /\ item' = [item EXCEPT ![i] = "closed"]
        /\ Emit(<<EndOf(slot[i])>>)
        /\ UNCHANGED <<cancelled, byId, told, slot, saw, blocks, sent>>
    BY <1>8 DEF ContentBlockStop, Event, Arrives, Running, ItemCloses, AnthropicUnchanged
  <2>2. PICK b \in DOMAIN blocks : b = slot[i] /\ blocks[b].item = i
    BY <1>1, <1>2, <2>1 DEF Slots
  <2>3. /\ blocks \in Seq(Content) /\ DOMAIN blocks = 1..Len(blocks)
        /\ sent[i] = blocks[b].len /\ blocks[b].len \in Nat
    BY <1>1, <1>2, <2>2, LenProperties DEF Homes, DataOK
  <2>4. Sized(blocks, blocks', b, blocks[b].len)
    BY <2>1, <2>3 DEF Sized
  <2>5. OnlyItem(i) /\ sent'[i] = blocks[b].len
    BY <1>1, <1>2, <2>1, <2>3 DEF DataOK, OnlyItem
  <2>6. DataOK' /\ Homes'
    BY <1>1, <1>2, <2>2, <2>4, <2>5, HomesGrown
  <2>7. Slots' /\ Ids' /\ OneOfAKind' /\ Flags'
    BY <1>1, <1>2, <2>1, <2>4, NamesKept DEF DataOK
  <2>8. HasEnded(b) = FALSE /\ HasEnded(b)' = TRUE
    <3>1. ~HasEnded(b) /\ HasEnded(b)'
      BY <1>1, <1>2, <2>1, <2>2 DEF HasEnded, DataOK
    <3> QED
      BY <3>1
  <2>9. \A c \in 1..Len(blocks) : c # b => HasEnded(c)' = HasEnded(c)
    <3>1. ASSUME NEW c \in 1..Len(blocks), c # b PROVE item'[blocks[c].item] = item[blocks[c].item]
      BY <1>1, <1>2, <2>1, <2>2, <2>3, <3>1 DEF DataOK, Homes
    <3> QED
      BY <1>1, <2>1, <3>1 DEF HasEnded
  <2>10. /\ Path(api, Produced, <<BlockEnd(b, blocks[b].kind, blocks[b].len)>>, Produced')
         /\ BlockEnd(b, blocks[b].kind, blocks[b].len) \in Events
    <3>1. pc' = "reading" /\ b \in 1..Len(blocks) /\ blocks[b].len >= blocks[b].len
      BY <2>1, <2>3 DEF Emit
    <3> QED
      BY <1>1, <1>2, <2>1, <2>3, <2>4, <2>6, <2>8, <2>9, <3>1, EndedPath
  <2>11. /\ ~IsTerminal(BlockEnd(b, blocks[b].kind, blocks[b].len))
         /\ EndOf(slot[i]) = BlockEnd(b, blocks[b].kind, blocks[b].len)
    BY <2>2 DEF IsTerminal, BlockEnd, EndOf
  <2> QED
    BY <1>1, <2>1, <2>6, <2>7, <2>10, <2>11, EmitOne DEF Assembled
<1>9. CASE AnthropicEnd
  <2>1. /\ pc = "reading"
        /\ UNCHANGED <<cancelled, blocks, stop, slot, byId, saw, item, sent, told, script, api>>
        /\ \/ Fail("error") \/ Fail("aborted")
           \/ saw # {"message_start"} /\ Finish(<<>>)
    BY <1>1, <1>9, Zenon DEF AnthropicEnd, Running, outputVars, serverVars
  <2>2. CASE Fail("error") \/ Fail("aborted")
    BY <1>1, <2>1, <2>2, FailInv
  <2>3. CASE saw # {"message_start"} /\ Finish(<<>>)
    <3>1. Assembled'
      BY <1>2, <2>1, AssembledStays
    <3>2. Served(blocks)'
      BY <1>1, <1>2, <2>1, <2>3 DEF Served, Flags
    <3>3. \A b \in 1..Len(blocks) : HasEnded(b)
      BY <1>1, <1>2, <2>3, LenProperties DEF Flags, AllClosed, HasEnded, DataOK, Homes
    <3> QED
      BY <1>1, <1>2, <2>1, <2>3, <3>1, <3>2, <3>3, FinishHere
  <2> QED
    BY <2>1, <2>2, <2>3
<1> QED
  BY <1>1, <1>3, <1>4, <1>5, <1>6, <1>7, <1>8, <1>9 DEF AnthropicStep

-----------------------------------------------------------------------------
(* Completions.                                                            *)

\* A block that is opened and grows in one step has been opened at its size.
LEMMA OpensGrown ==
  ASSUME NEW s \in Seq(Content), NEW t, NEW u, NEW k, NEW i, NEW n,
         Opens(s, t, k, i, 0), Sized(t, u, Len(s) + 1, n)
  PROVE  Opens(s, u, k, i, n)
<1>1. Len(s) \in Nat /\ Len(t) = Len(s) + 1 /\ Len(u) = Len(s) + 1 /\ u \in Seq(Content)
  BY LenProperties DEF Opens, Sized
<1>2. \A c \in 1..Len(s) : u[c] = s[c]
  BY <1>1, OpensSized
<1>3. u[Len(s) + 1] = [kind |-> k, item |-> i, len |-> n]
  <2>1. /\ u[Len(s) + 1].kind = t[Len(s) + 1].kind
        /\ u[Len(s) + 1].item = t[Len(s) + 1].item
        /\ u[Len(s) + 1].len = n
    BY <1>1 DEF Sized
  <2>2. t[Len(s) + 1].kind = k /\ t[Len(s) + 1].item = i
    BY DEF Opens
  <2>3. u[Len(s) + 1] \in Content
    BY <1>1, ElementOfSeq, LenProperties
  <2> QED
    BY <2>1, <2>2, <2>3 DEF Content
<1> QED
  BY <1>1, <1>2, <1>3 DEF Opens

\* What a block that is opened and grows in one step is for the consumer.
LEMMA OpenedAndGrown ==
  ASSUME NEW a, NEW s \in Seq(Content), NEW t, NEW u, NEW k \in Kinds, NEW i, NEW n \in Nat,
         Opens(s, t, k, i, 0), Sized(t, u, Len(s) + 1, n),
         NEW over, Tells(over, s),
         NEW out, \A c \in 1..Len(s) : out[c] = over[c], StillOpen(out, Len(s) + 1)
  PROVE  /\ Path(a, ViewOf(s, over),
                 <<BlockStart(Len(s) + 1, k)>> \o <<Delta(Len(s) + 1, k, n)>>, ViewOf(u, out))
         /\ BlockStart(Len(s) + 1, k) \in Events /\ Delta(Len(s) + 1, k, n) \in Events
<1>1. /\ Len(s) \in Nat /\ t \in Seq(Content) /\ Len(t) = Len(s) + 1
      /\ t[Len(s) + 1].kind = k /\ t[Len(s) + 1].len = 0
  BY LenProperties DEF Opens
<1>2. out[Len(s) + 1] = FALSE
  BY DEF StillOpen
<1>3. /\ Path(a, ViewOf(s, over), <<BlockStart(Len(s) + 1, k)>>, ViewOf(t, out))
      /\ BlockStart(Len(s) + 1, k) \in Events
  BY <1>2, ViewOfOpens
<1>4. Tells(out, t)
  <2>1. ASSUME NEW c \in 1..Len(t) PROVE out[c] \in BOOLEAN
    <3>1. CASE c = Len(s) + 1
      BY <3>1 DEF StillOpen
    <3>2. CASE c # Len(s) + 1
      <4>1. c \in 1..Len(s)
        BY <1>1, <3>2
      <4> QED
        BY <4>1 DEF Tells
    <3> QED
      BY <3>1, <3>2
  <2> QED
    BY <2>1 DEF Tells
<1>5. /\ Path(a, ViewOf(t, out), <<Delta(Len(s) + 1, k, n)>>, ViewOf(u, out))
      /\ Delta(Len(s) + 1, k, n) \in Events
  <2>1. Len(s) + 1 \in 1..Len(t)
    BY <1>1
  <2>2. Sized(t, u, Len(s) + 1, t[Len(s) + 1].len + n)
    BY <1>1
  <2> QED
    BY <1>1, <1>4, <2>1, <2>2, ViewOfGrows
<1>6. /\ <<BlockStart(Len(s) + 1, k)>> \in Seq(Events)
      /\ <<Delta(Len(s) + 1, k, n)>> \in Seq(Events)
  BY <1>3, <1>5
<1> QED
  BY <1>3, <1>5, <1>6, PathConcat

\* A block is opened with its first fragment.
LEMMA OpenAndGrowInv ==
  ASSUME ProviderInv, api = "completions", UNCHANGED <<script, api, cancelled>>, pc = "reading",
         NEW i \in Items, item[i] = "new", NEW k \in Kinds, NEW n \in Nat,
         sent'[i] = n, OnlyItem(i), saw' \subseteq {"finish_reason"},
         NEW b, b = Len(blocks) + 1, NEW t, t = Append(blocks, NewBlock(k, i)),
         blocks' = [t EXCEPT ![b].len = t[b].len + n],
         Opens(blocks, blocks', k, i, n) => Slots' /\ Ids' /\ OneOfAKind',
         Emit(<<BlockStart(b, k)>> \o <<Delta(b, k, n)>>)
  PROVE  ProviderInv'
<1>1. Assembled /\ DataOK /\ Homes /\ blocks \in Seq(Content) /\ i \in Nat
  BY AssemblyAssumption DEF ProviderInv, Assembled, DataOK, Items
<1>3. Opens(blocks, t, k, i, 0)
  <2>1. 0 \in Nat
    OBVIOUS
  <2> QED
    BY <1>1, <2>1, OpensAppend DEF NewBlock
<1>4. /\ t \in Seq(Content) /\ Len(t) = Len(blocks) + 1 /\ Len(blocks) \in Nat
      /\ t[b].len = 0 /\ b \in DOMAIN t
  BY <1>1, <1>3, LenProperties DEF Opens
<1>5. Sized(t, blocks', b, n)
  <2>1. Sized(t, [t EXCEPT ![b].len = n], b, n)
    BY <1>4, SizedExcept
  <2>2. t[b].len + n = n
    BY <1>4
  <2> QED
    BY <2>1, <2>2
<1>6. Opens(blocks, blocks', k, i, n)
  BY <1>1, <1>3, <1>5, OpensGrown
<1>7. DataOK' /\ Homes'
  BY <1>1, <1>6, HomesOpened
<1>8. Flags'
  BY DEF Flags
<1>9. ProducedIsView /\ ProducedIsView'
  <2>1. pc' = "reading"
    BY DEF Emit
  <2> QED
    BY <1>1, <1>7, <2>1, ProducedView, ProducedViewNext
<1>10. PICK over : over = Over
  OBVIOUS
<1>11. PICK out : out = Over'
  OBVIOUS
<1>12. PICK u : u = blocks'
  OBVIOUS
<1>13. (\A c \in 1..Len(blocks) : out[c] = over[c]) /\ StillOpen(out, b)
  <2>1. \A c : ~HasEnded(c)
    BY DEF HasEnded
  <2>2. \A c : ~HasEnded(c)'
    BY DEF HasEnded
  <2>3. Len(blocks') = Len(blocks) + 1
    BY <1>6 DEF Opens
  <2>4. \A c \in 1..Len(blocks) : Over[c] = HasEnded(c)
    BY <1>9 DEF ProducedIsView
  <2>5. \A c \in 1..Len(blocks') : Over'[c] = HasEnded(c)'
    BY <1>9 DEF ProducedIsView
  <2>6. Over'[b] = FALSE
    BY <1>4, <2>2, <2>3, <2>5
  <2>7. ASSUME NEW c \in 1..Len(blocks) PROVE out[c] = over[c]
    <3>1. over[c] = HasEnded(c) /\ HasEnded(c) = FALSE
      BY <1>10, <2>1, <2>4
    <3>2. c \in 1..Len(blocks')
      BY <1>4, <2>3
    <3>3. out[c] = HasEnded(c)' /\ HasEnded(c)' = FALSE
      BY <1>11, <2>2, <2>5, <3>2
    <3> QED
      BY <3>1, <3>3
  <2> QED
    BY <1>11, <2>6, <2>7 DEF StillOpen
<1>14. /\ Path(api, ViewOf(blocks, over), <<BlockStart(b, k)>> \o <<Delta(b, k, n)>>,
               ViewOf(u, out))
       /\ BlockStart(b, k) \in Events /\ Delta(b, k, n) \in Events
  BY <1>1, <1>3, <1>5, <1>9, <1>10, <1>12, <1>13, OpenedAndGrown DEF ProducedIsView
<1>15. Path(api, Produced, <<BlockStart(b, k)>> \o <<Delta(b, k, n)>>, Produced')
  BY <1>9, <1>10, <1>11, <1>12, <1>14 DEF ProducedIsView
<1>16. ~IsTerminal(BlockStart(b, k)) /\ ~IsTerminal(Delta(b, k, n))
  BY DEF IsTerminal, BlockStart, Delta
<1> QED
  BY <1>6, <1>7, <1>8, <1>14, <1>15, <1>16, EmitTwo DEF Assembled

\* The names that come with a fragment lead to block b from now on.
Binds(i, index, id, b) ==
  /\ Names(i, index, id)
  /\ slot' = IF index THEN At(slot, i, b) ELSE slot
  /\ byId' = IF id # 0 THEN At(byId, id, b) ELSE byId

\* A block that is named anew, with b the block that BlockFor has found or made.
LEMMA NamesBound ==
  ASSUME Assembled, api = "completions", NEW i \in Items, item'[i] # "new",
         \A j \in Items : j # i => item'[j] = item[j],
         NEW b \in DOMAIN blocks', blocks'[b].item = i,
         \A c \in DOMAIN blocks : c \in DOMAIN blocks' /\ blocks'[c].item = blocks[c].item,
         NEW index, NEW id \in {0, OwnId(i), OtherId(i)}, Binds(i, index, id, b),
         UNCHANGED api
  PROVE  Slots' /\ Ids'
<1>0. /\ Names(i, index, id)
      /\ slot' = IF index THEN At(slot, i, b) ELSE slot
      /\ byId' = IF id # 0 THEN At(byId, id, b) ELSE byId
  BY DEF Binds
<1>1. DataOK /\ Slots /\ Ids
  BY DEF Assembled
<1>2. i \in Nat /\ i >= 1 /\ i <= N /\ N \in Nat /\ OwnId(i) = i /\ OtherId(i) = N + i
  BY AssemblyAssumption DEF Items, OwnId, OtherId
<1>3. ASSUME NEW j \in DOMAIN slot'
      PROVE  j \in Items /\ slot'[j] \in DOMAIN blocks' /\ blocks'[slot'[j]].item = j
  <2>1. CASE ~index \/ j # i
    <3>1. j \in DOMAIN slot /\ slot'[j] = slot[j]
      BY <1>0, <2>1 DEF At
    <3> QED
      BY <1>1, <3>1 DEF Slots
  <2>2. CASE index /\ j = i
    BY <1>0, <2>2 DEF At
  <2> QED
    BY <2>1, <2>2
<1>4. Slots'
  BY <1>3 DEF Slots
<1>5. /\ ItemOfId(OwnId(i)) = i /\ ItemOfId(OtherId(i)) = i
      /\ id # 0 => id \in 1..(N + N)
  <2>1. N + i \notin Items
    BY <1>2 DEF Items
  <2> QED
    BY <1>2, <2>1 DEF ItemOfId
<1>6. ASSUME NEW d \in DOMAIN byId'
      PROVE  d \in 1..(N + N) /\ byId'[d] \in DOMAIN blocks' /\ blocks'[byId'[d]].item = ItemOfId(d)
  <2>1. CASE id = 0 \/ d # id
    <3>1. d \in DOMAIN byId /\ byId'[d] = byId[d]
      BY <1>0, <2>1 DEF At
    <3> QED
      BY <1>1, <3>1 DEF Ids
  <2>2. CASE id # 0 /\ d = id
    <3>1. byId'[d] = b
      BY <1>0, <2>2 DEF At
    <3> QED
      BY <1>5, <2>2, <3>1
  <2> QED
    BY <2>1, <2>2
<1>7. (DOMAIN slot) \subseteq DOMAIN slot' /\ (DOMAIN byId) \subseteq DOMAIN byId'
  BY <1>0 DEF At
<1>8. /\ index => i \in DOMAIN slot'
      /\ id # 0 => id \in DOMAIN byId'
  BY <1>0 DEF At
<1>9. ASSUME NEW j \in Items
      PROVE  /\ "index" \in told'[j] => j \in DOMAIN slot'
             /\ "id" \in told'[j] => OwnId(j) \in DOMAIN byId'
             /\ "otherId" \in told'[j] => OtherId(j) \in DOMAIN byId'
  <2>1. CASE j # i
    <3>1. told'[j] = told[j]
      BY <1>0, <1>1, <2>1 DEF Names, DataOK
    <3> QED
      BY <1>1, <1>7, <3>1 DEF Ids
  <2>2. CASE j = i
    <3>1. told'[i] = told[i] \cup
            ((IF index THEN {"index"} ELSE {}) \cup
             (IF id = OwnId(i) THEN {"id"} ELSE IF id = OtherId(i) THEN {"otherId"} ELSE {}))
      BY <1>0, <1>1 DEF Names, DataOK
    <3>2. /\ "index" \in told'[i] => "index" \in told[i] \/ index
          /\ "id" \in told'[i] => "id" \in told[i] \/ id = OwnId(i)
          /\ "otherId" \in told'[i] => "otherId" \in told[i] \/ id = OtherId(i)
      BY <3>1
    <3>3. OwnId(i) # 0 /\ OtherId(i) # 0
      BY <1>2
    <3> QED
      BY <1>1, <1>7, <1>8, <2>2, <3>2, <3>3 DEF Ids
  <2> QED
    BY <2>1, <2>2
<1>10. Ids'
  BY <1>6, <1>9 DEF Ids
<1> QED
  BY <1>4, <1>10

\* A fragment of text or of reasoning.
LEMMA ContentDeltaInv ==
  ASSUME ProviderInv, api = "completions", UNCHANGED <<script, api>>,
         NEW i \in Items, NEW k \in {"text", "thinking"}, ContentDelta(i, k)
  PROVE  ProviderInv'
<1>1. Assembled /\ DataOK /\ Homes /\ Slots /\ Ids /\ OneOfAKind /\ Flags
  BY DEF ProviderInv, Assembled
<1> DEFINE b == EnsureBlock(k)
           new == b > Len(blocks)
           opened == IF new THEN Append(blocks, NewBlock(k, i)) ELSE blocks
<1>2. /\ pc = "reading" /\ item' = [item EXCEPT ![i] = "open"]
      /\ \/ IsNext(i) /\ new
         \/ item[i] = "open" /\ \E c \in DOMAIN blocks : blocks[c].item = i /\ blocks[c].kind = k
      /\ sent' = [sent EXCEPT ![i] = @ + 1]
      /\ blocks' = [opened EXCEPT ![b].len = opened[b].len + 1]
      /\ Emit((IF new THEN <<BlockStart(b, k)>> ELSE <<>>) \o <<Delta(b, k, 1)>>)
      /\ UNCHANGED <<cancelled, slot, byId, saw, told>>
  BY DEF ContentDelta, Event, Arrives, Running, ItemSends, CompletionsUnchanged
<1>3. /\ blocks \in Seq(Content) /\ DOMAIN blocks = 1..Len(blocks) /\ Len(blocks) \in Nat
      /\ k \in Kinds
  BY <1>1, LenProperties DEF DataOK, Kinds
<1>4. CASE \E c \in DOMAIN blocks : blocks[c].kind = k
  <2>1. b \in DOMAIN blocks /\ blocks[b].kind = k
    BY <1>4 DEF EnsureBlock
  <2>2. ~new
    BY <1>3, <2>1
  <2>3. item[i] = "open" /\ blocks[b].item = i
    <3>1. PICK c \in DOMAIN blocks : blocks[c].item = i /\ blocks[c].kind = k
      BY <1>2, <2>2
    <3>2. c = b
      BY <1>1, <2>1, <3>1 DEF OneOfAKind
    <3> QED
      BY <1>2, <2>2, <3>1, <3>2
  <2>4. sent[i] = blocks[b].len
    BY <1>1, <2>1, <2>3 DEF Homes
  <2>5. /\ UNCHANGED item /\ sent' = [sent EXCEPT ![i] = blocks[b].len + 1]
        /\ blocks' = [blocks EXCEPT ![b].len = blocks[b].len + 1]
    <3>1. opened = blocks
      BY <2>2
    <3> QED
      BY <1>1, <1>2, <2>3, <2>4, <3>1 DEF DataOK
  <2>6. Emit(<<Delta(b, blocks[b].kind, 1)>>)
    <3>1. <<>> \o <<Delta(b, k, 1)>> = <<Delta(b, k, 1)>>
      OBVIOUS
    <3> QED
      BY <1>2, <2>1, <2>2, <3>1
  <2>7. 1 \in Nat
    OBVIOUS
  <2> HIDE DEF b, new, opened
  <2> QED
    BY <1>2, <2>1, <2>3, <2>5, <2>6, <2>7, GrowInv
<1>5. CASE ~\E c \in DOMAIN blocks : blocks[c].kind = k
  <2>1. b = Len(blocks) + 1 /\ new
    BY <1>3, <1>5 DEF EnsureBlock
  <2>2. item[i] = "new"
    BY <1>2, <1>5 DEF IsNext
  <2>3. sent'[i] = 1 /\ OnlyItem(i)
    BY <1>1, <1>2, <2>2 DEF DataOK, Homes, OnlyItem
  <2>4. PICK t : t = Append(blocks, NewBlock(k, i))
    OBVIOUS
  <2>5. blocks' = [t EXCEPT ![b].len = t[b].len + 1]
    BY <1>2, <2>1, <2>4
  <2>6. Emit(<<BlockStart(b, k)>> \o <<Delta(b, k, 1)>>)
    BY <1>2, <2>1
  <2>7. saw' \subseteq {"finish_reason"} /\ 1 \in Nat
    BY <1>1, <1>2 DEF Flags
  <2> HIDE DEF b, new, opened
  <2>8. ASSUME Opens(blocks, blocks', k, i, 1) PROVE Slots' /\ Ids' /\ OneOfAKind'
    <3>1. /\ DOMAIN blocks' = 1..(Len(blocks) + 1)
          /\ \A c \in 1..Len(blocks) : blocks'[c] = blocks[c]
          /\ blocks'[Len(blocks) + 1].kind = k
      BY <2>8, LenProperties DEF Opens
    <3>2. \A c \in DOMAIN blocks : c \in DOMAIN blocks' /\ blocks'[c] = blocks[c]
      BY <1>3, <3>1
    <3>3. Slots' /\ Ids'
      <4>1. Slots'
        BY <1>1, <1>2, <3>2 DEF Slots
      <4>2. Ids'
        BY <1>1, <1>2, <3>2 DEF Ids, ItemOfId
      <4> QED
        BY <4>1, <4>2
    <3>4. OneOfAKind'
      BY <1>1, <1>3, <1>5, <3>1 DEF OneOfAKind
    <3> QED
      BY <3>3, <3>4
  <2> QED
    BY <1>2, <1>3, <2>1, <2>2, <2>3, <2>4, <2>5, <2>6, <2>7, <2>8, OpenAndGrowInv
<1> QED
  BY <1>4, <1>5

\* A fragment of a tool call, under one name or several.
LEMMA ToolCallDeltaInv ==
  ASSUME ProviderInv, api = "completions", UNCHANGED <<script, api>>,
         NEW i \in Items, NEW index \in BOOLEAN, NEW id \in {0, OwnId(i), OtherId(i)},
         NEW n \in 0..1, ToolCallDelta(i, index, id, n)
  PROVE  ProviderInv'
<1>1. Assembled /\ DataOK /\ Homes /\ Slots /\ Ids /\ OneOfAKind /\ Flags
  BY DEF ProviderInv, Assembled
<1> DEFINE b == BlockFor(i, index, id)
           new == b > Len(blocks)
           opened == IF new THEN Append(blocks, NewBlock("tool", i)) ELSE blocks
<1>2. /\ pc = "reading" /\ item' = [item EXCEPT ![i] = "open"]
      /\ IsNext(i) \/ \E c \in DOMAIN blocks : blocks[c].item = i /\ blocks[c].kind = "tool"
      /\ Names(i, index, id) /\ Binds(i, index, id, b)
      /\ IF n = 1 THEN sent' = [sent EXCEPT ![i] = @ + 1] ELSE item[i] = "new" /\ UNCHANGED sent
      /\ blocks' = [opened EXCEPT ![b].len = opened[b].len + n]
      /\ Emit((IF new THEN <<BlockStart(b, "tool")>> ELSE <<>>) \o <<Delta(b, opened[b].kind, n)>>)
      /\ UNCHANGED <<cancelled, saw>>
  BY DEF ToolCallDelta, Binds, Event, Arrives, Running, ItemSends, CompletionsUnchanged
<1>3. /\ blocks \in Seq(Content) /\ DOMAIN blocks = 1..Len(blocks) /\ Len(blocks) \in Nat
      /\ "tool" \in Kinds /\ n \in Nat /\ item'[i] = "open"
      /\ \A j \in Items : j # i => item'[j] = item[j]
  BY <1>1, <1>2, LenProperties DEF DataOK, Kinds
<1>4. sent'[i] = sent[i] + n /\ OnlyItem(i)
  <2>1. /\ told' \in [Items -> SUBSET {"index", "id", "otherId"}]
        /\ \A j \in Items : j # i => told'[j] = told[j]
    BY <1>1, <1>2 DEF Names, DataOK
  <2>2. /\ sent' \in [Items -> Nat] /\ sent'[i] = sent[i] + n
        /\ \A j \in Items : j # i => sent'[j] = sent[j]
    <3>1. CASE n = 1
      BY <1>1, <1>2, <3>1 DEF DataOK
    <3>2. CASE n = 0
      BY <1>1, <1>2, <3>2 DEF DataOK
    <3> QED
      BY <3>1, <3>2
  <2> QED
    BY <1>1, <1>2, <2>1, <2>2 DEF DataOK, OnlyItem
<1>5. i \in Nat /\ i >= 1 /\ i <= N /\ N \in Nat /\ OwnId(i) = i /\ OtherId(i) = N + i
  BY AssemblyAssumption DEF Items, OwnId, OtherId
<1>6. \/ b \in DOMAIN blocks /\ blocks[b].item = i
      \/ b = Len(blocks) + 1 /\ item[i] = "new"
  <2>1. CASE index /\ i \in DOMAIN slot
    BY <1>1, <2>1 DEF BlockFor, Slots
  <2>2. CASE ~(index /\ i \in DOMAIN slot) /\ id \in DOMAIN byId
    <3>1. b = byId[id] /\ id \in 1..(N + N) /\ b \in DOMAIN blocks /\ blocks[b].item = ItemOfId(id)
      BY <1>1, <2>2 DEF BlockFor, Ids
    <3>2. ItemOfId(id) = i
      BY <1>5, <3>1 DEF ItemOfId, Items
    <3> QED
      BY <3>1, <3>2
  <2>3. CASE ~(index /\ i \in DOMAIN slot) /\ id \notin DOMAIN byId
    <3>1. b = Len(blocks) + 1
      BY <2>3 DEF BlockFor
    <3>2. ASSUME item[i] # "new" PROVE FALSE
      <4> DEFINE names == (IF index THEN {"index"} ELSE {}) \cup
               (IF id = OwnId(i) THEN {"id"} ELSE IF id = OtherId(i) THEN {"otherId"} ELSE {})
      <4>1. names \cap told[i] # {}
        BY <1>2, <3>2 DEF Names
      <4>2. PICK name \in names : name \in told[i]
        BY <4>1
      <4>3. \/ name = "index" /\ index
            \/ name = "id" /\ id = OwnId(i)
            \/ name = "otherId" /\ id = OtherId(i)
        BY <4>2
      <4> QED
        BY <1>1, <2>3, <4>2, <4>3 DEF Ids
    <3> QED
      BY <3>1, <3>2
  <2> QED
    BY <2>1, <2>2, <2>3
<1>7. CASE b \in DOMAIN blocks /\ blocks[b].item = i
  <2>1. ~new /\ opened = blocks /\ sent[i] = blocks[b].len /\ blocks[b].len \in Nat
    <3>1. ~new
      BY <1>3, <1>7
    <3>2. sent[i] = blocks[b].len /\ sent[i] \in Nat
      BY <1>1, <1>7 DEF Homes, DataOK
    <3> QED
      BY <3>1, <3>2
  <2>2. blocks' = [blocks EXCEPT ![b].len = blocks[b].len + n]
    BY <1>2, <2>1
  <2>3. Emit(<<Delta(b, blocks[b].kind, n)>>)
    <3>1. <<>> \o <<Delta(b, blocks[b].kind, n)>> = <<Delta(b, blocks[b].kind, n)>>
      OBVIOUS
    <3> QED
      BY <1>2, <2>1, <3>1
  <2> HIDE DEF b, new, opened
  <2>4. sent'[i] = blocks[b].len + n /\ Sized(blocks, blocks', b, sent'[i])
    <3>1. blocks[b].len + n \in Nat /\ sent'[i] = blocks[b].len + n
      BY <1>3, <1>4, <2>1
    <3> QED
      BY <1>3, <1>7, <2>2, <3>1, SizedExcept
  <2>5. /\ DOMAIN blocks' = DOMAIN blocks
        /\ \A c \in DOMAIN blocks : /\ blocks'[c].kind = blocks[c].kind
                                    /\ blocks'[c].item = blocks[c].item
    BY <1>3, <2>4, LenProperties DEF Sized
  <2>6. Slots' /\ Ids'
    <3>1. \A c \in DOMAIN blocks : c \in DOMAIN blocks' /\ blocks'[c].item = blocks[c].item
      BY <2>5
    <3>2. item'[i] # "new" /\ b \in DOMAIN blocks' /\ blocks'[b].item = i
      BY <1>3, <1>7, <2>5
    <3> QED
      <4>1. Binds(i, index, id, b) /\ UNCHANGED api
        BY <1>2
      <4> QED
        BY <1>1, <1>3, <3>1, <3>2, <4>1, NamesBound, ZenonT(60)
  <2>7. OneOfAKind' /\ Flags'
    BY <1>1, <1>2, <2>5 DEF OneOfAKind, Flags
  <2> QED
    BY <1>2, <1>3, <1>4, <1>7, <2>3, <2>4, <2>6, <2>7, GrowsInv
<1>8. CASE b = Len(blocks) + 1 /\ item[i] = "new"
  <2>1. new
    BY <1>3, <1>8
  <2>2. PICK t : t = Append(blocks, NewBlock("tool", i))
    OBVIOUS
  <2>3. blocks' = [t EXCEPT ![b].len = t[b].len + n] /\ t = opened
    BY <1>2, <2>1, <2>2
  <2>4. t[b].kind = "tool"
    <3>1. 0 \in Nat
      OBVIOUS
    <3>2. Opens(blocks, t, "tool", i, 0)
      BY <1>3, <1>5, <2>2, <3>1, OpensAppend DEF NewBlock
    <3> QED
      BY <1>8, <3>2 DEF Opens
  <2>5. Emit(<<BlockStart(b, "tool")>> \o <<Delta(b, "tool", n)>>)
    BY <1>2, <2>1, <2>3, <2>4
  <2>6. sent'[i] = n
    BY <1>1, <1>3, <1>4, <1>8 DEF Homes
  <2>7. saw' \subseteq {"finish_reason"}
    BY <1>1, <1>2 DEF Flags
  <2> HIDE DEF b, new, opened
  <2>8. ASSUME Opens(blocks, blocks', "tool", i, n) PROVE Slots' /\ Ids' /\ OneOfAKind'
    <3>1. /\ DOMAIN blocks' = 1..(Len(blocks) + 1)
          /\ \A c \in 1..Len(blocks) : blocks'[c] = blocks[c]
          /\ blocks'[Len(blocks) + 1].kind = "tool" /\ blocks'[Len(blocks) + 1].item = i
      BY <2>8, LenProperties DEF Opens
    <3>2. \A c \in DOMAIN blocks : c \in DOMAIN blocks' /\ blocks'[c].item = blocks[c].item
      BY <1>3, <3>1
    <3>3. Slots' /\ Ids'
      <4>1. item'[i] # "new" /\ b \in DOMAIN blocks' /\ blocks'[b].item = i
        BY <1>3, <1>8, <3>1
      <4> QED
        <5>1. Binds(i, index, id, b) /\ UNCHANGED api
          BY <1>2
        <5> QED
          BY <1>1, <1>3, <3>2, <4>1, <5>1, NamesBound, ZenonT(60)
    <3>4. OneOfAKind'
      BY <1>1, <1>3, <3>1 DEF OneOfAKind
    <3> QED
      BY <3>3, <3>4
  <2> QED
    BY <1>2, <1>3, <1>4, <1>8, <2>2, <2>3, <2>5, <2>6, <2>7, <2>8, OpenAndGrowInv
<1> QED
  BY <1>6, <1>7, <1>8

\* The response of Completions ends, and with it all of its blocks.
LEMMA AllEnd ==
  ASSUME ProviderInv, api = "completions", pc = "reading"
  PROVE  \E w \in Views :
           /\ FinishOpenBlocks \in Seq(Events)
           /\ \A n \in 1..Len(FinishOpenBlocks) : ~IsTerminal(FinishOpenBlocks[n])
           /\ Path(api, Produced, FinishOpenBlocks, w)
           /\ w.phase = "open" /\ ~w.closed /\ Faithful(api, blocks, w.blocks)
           /\ \A b \in DOMAIN w.blocks : w.blocks[b].ended
<1>1. /\ blocks \in Seq(Content) /\ DOMAIN blocks = 1..Len(blocks) /\ Len(blocks) \in Nat
      /\ ProducedIsView
  BY ProducedView, LenProperties DEF ProviderInv, Assembled, DataOK
<1>2. FinishOpenBlocks = [b \in DOMAIN blocks |-> BlockEnd(b, blocks[b].kind, blocks[b].len)]
  BY DEF FinishOpenBlocks, EndOf
<1>3. PICK first : first = UpTo(0, blocks)
  OBVIOUS
<1>4. PICK last : last = UpTo(Len(blocks), blocks)
  OBVIOUS
<1>5. Tells(first, blocks) /\ Tells(last, blocks)
  BY <1>3, <1>4 DEF Tells, UpTo
<1>6. /\ \A b \in 1..Len(blocks) : ~first[b]
      /\ \A b \in 1..Len(blocks) : last[b]
  BY <1>1, <1>3, <1>4 DEF UpTo
<1>7. PICK w \in Views : w = ViewOf(blocks, last)
  BY <1>1, <1>5, ViewOfFields
<1>8. /\ FinishOpenBlocks \in Seq(Events)
      /\ \A n \in 1..Len(FinishOpenBlocks) : ~IsTerminal(FinishOpenBlocks[n])
      /\ Path(api, ViewOf(blocks, first), FinishOpenBlocks, w)
  BY <1>1, <1>2, <1>3, <1>4, <1>7, ViewOfEndsAll
<1>9. Produced = ViewOf(blocks, first)
  <2>1. PICK over : over = Over
    OBVIOUS
  <2>2. PICK v \in Views : v = ViewOf(blocks, over)
    BY <1>1, <2>1, ViewOfFields DEF ProducedIsView
  <2>3. ASSUME NEW b \in 1..Len(blocks) PROVE over[b] = first[b]
    <3>1. ~over[b] /\ over[b] \in BOOLEAN
      BY <1>1, <2>1 DEF HasEnded, ProducedIsView, Tells
    <3>2. ~first[b] /\ first[b] \in BOOLEAN
      BY <1>5, <1>6 DEF Tells
    <3> QED
      BY <3>1, <3>2
  <2>4. /\ v.phase = "open" /\ ~v.closed /\ v.final = <<>> /\ Len(v.blocks) = Len(blocks)
        /\ \A b \in 1..Len(blocks) : /\ v.blocks[b].kind = blocks[b].kind
                                     /\ v.blocks[b].len = blocks[b].len
                                     /\ v.blocks[b].ended = over[b]
    BY <1>1, <2>1, <2>2, ViewOfFields DEF ProducedIsView
  <2>5. v = ViewOf(blocks, first)
    BY <1>1, <1>5, <2>3, <2>4, ViewOfSame
  <2> QED
    BY <1>1, <2>1, <2>2, <2>5 DEF ProducedIsView
<1>10. /\ w.phase = "open" /\ ~w.closed /\ DOMAIN w.blocks = 1..Len(blocks)
       /\ \A b \in 1..Len(blocks) : /\ w.blocks[b].kind = blocks[b].kind
                                    /\ w.blocks[b].len = blocks[b].len
                                    /\ w.blocks[b].ended = last[b]
  BY <1>1, <1>5, <1>7, ViewOfFields
<1>11. Faithful(api, blocks, w.blocks)
  BY <1>1, <1>10 DEF Faithful
<1>12. \A b \in DOMAIN w.blocks : w.blocks[b].ended
  BY <1>6, <1>10
<1> QED
  BY <1>8, <1>9, <1>10, <1>11, <1>12

\* The producer returns a failure after it has ended its blocks.
LEMMA EndsBadlyInv ==
  ASSUME ProviderInv, api = "completions", pc = "reading", Push(FinishOpenBlocks),
         outcome' \in {"aborted", "error"}, pc' = "returned",
         UNCHANGED <<view, cancelled, api, blocks>>, Assembled'
  PROVE  ProviderInv'
<1>1. PICK w \in Views :
           /\ FinishOpenBlocks \in Seq(Events)
           /\ \A n \in 1..Len(FinishOpenBlocks) : ~IsTerminal(FinishOpenBlocks[n])
           /\ Path(api, Produced, FinishOpenBlocks, w)
           /\ w.phase = "open" /\ ~w.closed /\ Faithful(api, blocks, w.blocks)
  BY AllEnd
<1>2. PICK es \in Seq(Events) : es = FinishOpenBlocks
  BY <1>1
<1>3. chan' = chan \o es /\ sender' = TRUE
  BY <1>1, <1>2, Working, PushAll
<1>4. chan' \in Seq(Events) /\ Path(api, view, chan', w)
  BY <1>1, <1>2, <1>3, Working, PathConcat
<1>5. StreamOK' /\ Control' /\ Fresh' /\ SaidSoFar'
  BY <1>3, <1>4, Working DEF ProviderInv, Flow, StreamOK, Control, Fresh, SaidSoFar, Waiting
<1>6. DoneServed'
  <2>1. ASSUME NEW n \in 1..Len(chan') PROVE chan'[n].type # "done"
    <3>1. /\ Len(chan') = Len(chan) + Len(es) /\ Len(chan) \in Nat /\ Len(es) \in Nat
          /\ chan'[n] = IF n <= Len(chan) THEN chan[n] ELSE es[n - Len(chan)]
      BY <1>3, Working, ConcatProperties, LenProperties
    <3>2. CASE n <= Len(chan)
      BY <3>1, <3>2, Working
    <3>3. CASE ~(n <= Len(chan))
      <4>1. n - Len(chan) \in 1..Len(es)
        BY <3>1, <3>3
      <4> QED
        BY <1>1, <1>2, <3>1, <3>3, <4>1 DEF IsTerminal
    <3> QED
      BY <3>2, <3>3
  <2> QED
    BY <2>1, Working DEF DoneServed
<1>7. FinalFaithful'
  BY DEF ProviderInv, Flow, FinalFaithful
<1>8. OnTheWay'
  <2>1. Settled(w)'
    BY <1>1, <1>3 DEF Settled
  <2>2. Path(api', view', chan', w)
    BY <1>4
  <2> QED
    BY <2>1, <2>2 DEF OnTheWay
<1> QED
  BY <1>5, <1>6, <1>7, <1>8 DEF ProviderInv, Flow

\* The steps of the Completions loop keep the invariant.
LEMMA CompletionsInv == ProviderInv /\ Assemble /\ api = "completions" => ProviderInv'
<1> SUFFICES ASSUME ProviderInv, Assemble, api = "completions" PROVE ProviderInv'
  OBVIOUS
<1>1. CompletionsStep /\ UNCHANGED <<script, api>>
  BY DEF Assemble
<1>2. Assembled /\ DataOK /\ Homes /\ Slots /\ Flags
  BY DEF ProviderInv, Assembled
<1>3. CASE FinishReason
  <2>1. /\ pc = "reading" /\ saw' = {"finish_reason"} /\ Emit(<<>>)
        /\ UNCHANGED <<cancelled, byId, told, blocks, slot, item, sent>>
    BY <1>3 DEF FinishReason, MessageEvent, Arrives, Running, CompletionsUnchanged
  <2>2. Assembled'
    BY <1>1, <1>2, <2>1 DEF Assembled, DataOK, Homes, Slots, Ids, ItemOfId, OneOfAKind, Flags
  <2> QED
    BY <1>1, <2>1, <2>2, EmitNothing
<1>4. CASE CompletionsEnd
  <2>1. /\ pc = "reading" /\ pc' = "returned"
        /\ UNCHANGED <<view, cancelled, blocks, slot, byId, saw, item, sent, told, script, api>>
        /\ \/ Push(FinishOpenBlocks) /\ outcome' \in {"aborted", "error"}
           \/ /\ Push(Append(FinishOpenBlocks, Terminal("done", blocks))) /\ outcome' = "ok"
              /\ saw # {}
    BY <1>1, <1>4 DEF CompletionsEnd, CompletionsUnchanged, Finish, EndsBadly, Running,
                      outputVars, serverVars
  <2>2. Assembled'
    BY <1>2, <2>1, AssembledStays
  <2>3. CASE Push(FinishOpenBlocks) /\ outcome' \in {"aborted", "error"}
    BY <2>1, <2>2, <2>3, EndsBadlyInv
  <2>4. CASE /\ Push(Append(FinishOpenBlocks, Terminal("done", blocks)))
             /\ outcome' = "ok" /\ saw # {}
    <3>1. PICK w \in Views :
           /\ FinishOpenBlocks \in Seq(Events)
           /\ \A n \in 1..Len(FinishOpenBlocks) : ~IsTerminal(FinishOpenBlocks[n])
           /\ Path(api, Produced, FinishOpenBlocks, w)
           /\ w.phase = "open" /\ ~w.closed /\ Faithful(api, blocks, w.blocks)
           /\ \A b \in DOMAIN w.blocks : w.blocks[b].ended
      BY <2>1, AllEnd
    <3>2. PICK es \in Seq(Events) : es = FinishOpenBlocks
      BY <3>1
    <3>3. Terminal("done", blocks).type = "done" /\ Terminal("done", blocks).content = blocks
      BY DEF Terminal
    <3>4. Legal(api, w, Terminal("done", blocks))
      BY <3>1, <3>3 DEF Legal
    <3>5. Served(blocks)'
      BY <1>1, <1>2, <2>1, <2>4 DEF Served, Flags
    <3>6. blocks \in Seq(Content) /\ api # "faux"
      BY <1>2 DEF DataOK
    <3>7. Push(Append(es, Terminal("done", blocks))) /\ \A n \in 1..Len(es) : ~IsTerminal(es[n])
      BY <2>4, <3>1, <3>2
    <3> QED
      BY <2>1, <2>2, <2>4, <3>1, <3>2, <3>4, <3>5, <3>6, <3>7, FinishInv
  <2> QED
    BY <2>1, <2>3, <2>4
<1>5. ASSUME NEW i \in Items, NEW k \in {"text", "thinking"}, ContentDelta(i, k)
      PROVE  ProviderInv'
  BY <1>1, <1>5, ContentDeltaInv
<1>6. ASSUME NEW i \in Items, NEW index \in BOOLEAN, NEW id \in {0, OwnId(i), OtherId(i)},
             NEW n \in 0..1, ToolCallDelta(i, index, id, n)
      PROVE  ProviderInv'
  BY <1>1, <1>6, ToolCallDeltaInv
<1> QED
  BY <1>1, <1>3, <1>4, <1>5, <1>6 DEF CompletionsStep

-----------------------------------------------------------------------------
(* Responses.                                                              *)

\* What is missing of a block is told before its end.
LEMMA GrowsAndEnds ==
  ASSUME NEW a, NEW s \in Seq(Content), NEW t, NEW b \in 1..Len(s), NEW n \in Nat,
         n > s[b].len, Sized(s, t, b, n), NEW over, Tells(over, s), StillOpen(over, b),
         NEW out, NowOver(out, b), \A c \in 1..Len(s) : c # b => out[c] = over[c],
         NEW k, k = s[b].kind
  PROVE  /\ Path(a, ViewOf(s, over),
                 <<Delta(b, k, n - s[b].len)>> \o <<BlockEnd(b, k, n)>>, ViewOf(t, out))
         /\ Delta(b, k, n - s[b].len) \in Events /\ BlockEnd(b, k, n) \in Events
<1>1. /\ Len(s) \in Nat /\ t \in Seq(Content) /\ Len(t) = Len(s)
      /\ t[b].kind = k /\ t[b].len = n
  BY LenProperties DEF Sized
<1>2. s[b].len \in Nat
  <2>1. s[b] \in Content
    BY ElementOfSeq
  <2> QED
    BY <2>1 DEF Content
<1>3. n - s[b].len \in Nat /\ s[b].len + (n - s[b].len) = n
  BY <1>2
<1>4. /\ Path(a, ViewOf(s, over), <<Delta(b, k, n - s[b].len)>>, ViewOf(t, over))
      /\ Delta(b, k, n - s[b].len) \in Events
  <2>1. Sized(s, t, b, s[b].len + (n - s[b].len))
    BY <1>3
  <2> QED
    BY <1>3, <2>1, ViewOfGrows
<1>5. /\ Path(a, ViewOf(t, over), <<BlockEnd(b, k, n)>>, ViewOf(t, out))
      /\ BlockEnd(b, k, n) \in Events
  <2>1. Sized(t, t, b, n) /\ Tells(over, t) /\ n >= t[b].len /\ b \in 1..Len(t)
    BY <1>1 DEF Sized, Tells
  <2>2. \A c \in 1..Len(t) : c # b => out[c] = over[c]
    BY <1>1
  <2> QED
    BY <1>1, <2>1, <2>2, ViewOfEnds
<1>6. <<Delta(b, k, n - s[b].len)>> \in Seq(Events) /\ <<BlockEnd(b, k, n)>> \in Seq(Events)
  BY <1>4, <1>5
<1> QED
  BY <1>4, <1>5, <1>6, PathConcat

\* A block that was never announced is opened and ended.
LEMMA OpensAndEnds ==
  ASSUME NEW a, NEW s \in Seq(Content), NEW t, NEW u, NEW k \in Kinds, NEW i, NEW n \in Nat,
         Opens(s, t, k, i, 0), Sized(t, u, Len(s) + 1, n), NEW over, Tells(over, s),
         NEW out, \A c \in 1..Len(s) : out[c] = over[c], NowOver(out, Len(s) + 1)
  PROVE  /\ Path(a, ViewOf(s, over),
                 <<BlockStart(Len(s) + 1, k)>> \o <<BlockEnd(Len(s) + 1, k, n)>>, ViewOf(u, out))
         /\ BlockStart(Len(s) + 1, k) \in Events /\ BlockEnd(Len(s) + 1, k, n) \in Events
<1>0. PICK no : no = FALSE
  OBVIOUS
<1> DEFINE b == Len(s) + 1
           mid == [c \in 1..b |-> IF c = b THEN no ELSE over[c]]
<1>1. /\ Len(s) \in Nat /\ t \in Seq(Content) /\ Len(t) = b /\ b \in 1..b
      /\ t[b].kind = k /\ t[b].len = 0
  BY LenProperties DEF Opens
<1>2. (\A c \in 1..Len(s) : mid[c] = over[c]) /\ StillOpen(mid, b)
  <2>1. (\A c \in 1..Len(s) : mid[c] = over[c]) /\ mid[b] = no
    BY <1>1
  <2> QED
    BY <1>0, <2>1 DEF StillOpen
<1>3. PICK half : (\A c \in 1..Len(s) : half[c] = over[c]) /\ StillOpen(half, b)
  BY <1>2
<1>4. /\ Path(a, ViewOf(s, over), <<BlockStart(b, k)>>, ViewOf(t, half))
      /\ BlockStart(b, k) \in Events
  BY <1>3, ViewOfOpens DEF StillOpen
<1>5. Tells(half, t) /\ StillOpen(half, b)
  <2>1. ASSUME NEW c \in 1..Len(t) PROVE half[c] \in BOOLEAN
    <3>1. CASE c = b
      BY <1>3, <3>1 DEF StillOpen
    <3>2. CASE c # b
      <4>1. c \in 1..Len(s)
        BY <1>1, <3>2
      <4> QED
        BY <1>3, <4>1 DEF Tells
    <3> QED
      BY <3>1, <3>2
  <2> QED
    BY <1>3, <2>1 DEF Tells
<1>6. /\ Path(a, ViewOf(t, half), <<BlockEnd(b, k, n)>>, ViewOf(u, out))
      /\ BlockEnd(b, k, n) \in Events
  <2>1. b \in 1..Len(t) /\ n >= t[b].len
    BY <1>1
  <2>2. ASSUME NEW c \in 1..Len(t), c # b PROVE out[c] = half[c]
    <3>1. c \in 1..Len(s)
      BY <1>1, <2>2
    <3> QED
      BY <1>3, <3>1
  <2>3. Sized(t, u, b, n) /\ NowOver(out, b)
    OBVIOUS
  <2> HIDE DEF mid, b
  <2>4. /\ Path(a, ViewOf(t, half), <<BlockEnd(b, t[b].kind, n)>>, ViewOf(u, out))
        /\ BlockEnd(b, t[b].kind, n) \in Events
    <3>1. t \in Seq(Content) /\ n \in Nat
      BY <1>1
    <3>2. \A c \in 1..Len(t) : c # b => out[c] = half[c]
      BY <2>2
    <3> QED
      BY <1>5, <2>1, <2>3, <3>1, <3>2, ViewOfEnds
  <2> QED
    BY <1>1, <2>4
<1>7. <<BlockStart(b, k)>> \in Seq(Events) /\ <<BlockEnd(b, k, n)>> \in Seq(Events)
  BY <1>4, <1>6
<1> QED
  BY <1>4, <1>6, <1>7, PathConcat

\* The arguments of a call are repeated, and what was missing is told.
LEMMA ArgumentsDoneInv ==
  ASSUME ProviderInv, api = "responses", UNCHANGED <<script, api>>,
         NEW i \in Items, ArgumentsDone(i)
  PROVE  ProviderInv'
<1>1. Assembled /\ DataOK /\ Homes /\ Slots
  BY DEF ProviderInv, Assembled
<1>2. PICK b \in DOMAIN blocks : b = slot[i] /\ blocks[b].item = i
  BY <1>1 DEF ArgumentsDone, Slots
<1>3. PICK total \in sent[i]..MaxFragments : sent' = [sent EXCEPT ![i] = total]
  BY DEF ArgumentsDone, Reveals
<1>4. /\ sent[i] = blocks[b].len /\ sent[i] \in Nat /\ total \in Nat /\ total >= sent[i]
      /\ sent'[i] = total
  BY <1>1, <1>2, <1>3, AssemblyAssumption DEF Homes, DataOK
<1>5. /\ pc = "reading" /\ item[i] = "open"
      /\ blocks' = [blocks EXCEPT ![b].len = total]
      /\ Emit(Missing(b, total))
      /\ UNCHANGED <<cancelled, byId, told, slot, saw, item>>
  BY <1>2, <1>4 DEF ArgumentsDone, Event, Arrives, Running, ResponsesUnchanged
<1>6. CASE total > blocks[b].len
  <2>1. PICK n \in Nat : n = total - blocks[b].len
    BY <1>4, <1>6
  <2>2. blocks[b].len + n = total
    BY <1>4, <2>1
  <2>3. /\ blocks' = [blocks EXCEPT ![b].len = blocks[b].len + n]
        /\ sent' = [sent EXCEPT ![i] = blocks[b].len + n]
    BY <1>3, <1>5, <2>2
  <2>4. Emit(<<Delta(b, blocks[b].kind, n)>>)
    BY <1>5, <1>6, <2>1 DEF Missing
  <2> QED
    BY <1>2, <1>5, <2>3, <2>4, GrowInv
<1>7. CASE ~(total > blocks[b].len)
  <2>1. total = blocks[b].len
    BY <1>4, <1>7
  <2>2. UNCHANGED <<blocks, sent>>
    <3>1. blocks \in Seq(Content) /\ blocks[b] \in Content
      BY <1>1, ElementOfSeq DEF DataOK
    <3>2. [blocks[b] EXCEPT !.len = total] = blocks[b]
      BY <2>1, <3>1 DEF Content
    <3>3. blocks' = [blocks EXCEPT ![b] = [blocks[b] EXCEPT !.len = total]]
      BY <1>5
    <3>4. blocks' = blocks
      BY <3>1, <3>2, <3>3
    <3>5. sent' = sent
      BY <1>1, <1>3, <1>4, <2>1 DEF DataOK
    <3> QED
      BY <3>4, <3>5
  <2>3. Emit(<<>>)
    BY <1>5, <1>7 DEF Missing
  <2>4. Assembled'
    BY <1>1, <1>5, <2>2, AssembledStays
  <2> QED
    BY <1>5, <2>2, <2>3, <2>4, EmitNothing
<1> QED
  BY <1>6, <1>7

\* What an item that is done leaves behind.
LEMMA ClosedAssembled ==
  ASSUME Assembled, api = "responses", UNCHANGED <<script, api, byId, told, saw>>,
         NEW i \in Items, item' = [item EXCEPT ![i] = "closed"],
         slot' = [j \in DOMAIN slot \ {i} |-> slot[j]],
         \A c \in DOMAIN blocks : c \in DOMAIN blocks' /\ blocks'[c].item = blocks[c].item,
         DataOK' /\ Homes'
  PROVE  Assembled'
<1>1. DataOK /\ Slots
  BY DEF Assembled
<1>2. \A j \in DOMAIN slot' : /\ slot'[j] = slot[j] /\ j \in DOMAIN slot
                              /\ slot'[j] \in DOMAIN blocks' /\ blocks'[slot'[j]].item = j
  BY <1>1 DEF Slots
<1>3. \A j \in Items : item'[j] = "open" => j \in DOMAIN slot'
  BY <1>1 DEF Slots, DataOK
<1>4. Slots'
  BY <1>1, <1>2, <1>3 DEF Slots
<1> QED
  BY <1>4 DEF Assembled, Ids, OneOfAKind, Flags

\* Item i ends, which had a block.
LEMMA KnownDoneInv ==
  ASSUME ProviderInv, api = "responses", UNCHANGED <<script, api, cancelled, byId, told, saw>>,
         pc = "reading", NEW i \in Items, item[i] = "open",
         item' = [item EXCEPT ![i] = "closed"],
         NEW b \in DOMAIN blocks, blocks[b].item = i, NEW k, k = blocks[b].kind,
         NEW total \in Nat, total >= sent[i], sent' = [sent EXCEPT ![i] = total],
         blocks' = [blocks EXCEPT ![b].len = total],
         slot' = [j \in DOMAIN slot \ {i} |-> slot[j]],
         \/ Emit(<<BlockEnd(b, k, total)>>)
         \/ total > blocks[b].len /\
            Emit(<<Delta(b, k, total - blocks[b].len)>> \o <<BlockEnd(b, k, total)>>)
  PROVE  ProviderInv'
<1>1. Assembled /\ DataOK /\ Homes /\ Slots
  BY DEF ProviderInv, Assembled
<1>2. /\ blocks \in Seq(Content) /\ DOMAIN blocks = 1..Len(blocks)
      /\ sent[i] = blocks[b].len /\ blocks[b].len \in Nat
  BY <1>1, LenProperties DEF DataOK, Homes
<1>3. Sized(blocks, blocks', b, total)
  BY <1>2, SizedExcept
<1>4. sent'[i] = total /\ OnlyItem(i)
  BY <1>1 DEF DataOK, OnlyItem
<1>5. DataOK' /\ Homes'
  BY <1>1, <1>3, <1>4, HomesGrown
<1>6. /\ Len(blocks') = Len(blocks)
      /\ \A c \in DOMAIN blocks : c \in DOMAIN blocks' /\ blocks'[c].item = blocks[c].item
  BY <1>2, <1>3, LenProperties DEF Sized
<1>7. Assembled'
  BY <1>1, <1>5, <1>6, ClosedAssembled
<1>8. HasEnded(b) = FALSE /\ HasEnded(b)' = TRUE
  <2>1. ~HasEnded(b) /\ HasEnded(b)'
    BY <1>1, <1>6 DEF HasEnded, DataOK
  <2> QED
    BY <2>1
<1>9. ASSUME NEW c \in 1..Len(blocks), c # b PROVE HasEnded(c)' = HasEnded(c)
  <2>1. item'[blocks[c].item] = item[blocks[c].item] /\ blocks'[c].item = blocks[c].item
    BY <1>1, <1>2, <1>6, <1>9 DEF DataOK, Homes
  <2> QED
    BY <2>1 DEF HasEnded
<1>10. pc' = "reading" /\ ProducedIsView
  BY <1>1, ProducedView DEF Emit
<1>11. ProducedIsView'
  BY <1>5, <1>10, ProducedViewNext
<1>12. ~IsTerminal(BlockEnd(b, k, total)) /\ ~IsTerminal(Delta(b, k, total - blocks[b].len))
  BY DEF IsTerminal, BlockEnd, Delta
<1>13. CASE Emit(<<BlockEnd(b, k, total)>>)
  <2>1. /\ Path(api, Produced, <<BlockEnd(b, k, total)>>, Produced')
        /\ BlockEnd(b, k, total) \in Events
    BY <1>1, <1>2, <1>3, <1>5, <1>8, <1>9, <1>10, EndedPath
  <2> QED
    BY <1>7, <1>12, <1>13, <2>1, EmitOne
<1>14. CASE /\ total > blocks[b].len
            /\ Emit(<<Delta(b, k, total - blocks[b].len)>> \o <<BlockEnd(b, k, total)>>)
  <2>1. PICK over : over = Over
    OBVIOUS
  <2>2. PICK out : out = Over'
    OBVIOUS
  <2>3. PICK t : t = blocks'
    OBVIOUS
  <2>4. StillOpen(over, b) /\ NowOver(out, b)
    BY <1>2, <1>6, <1>8, <1>10, <1>11, <2>1, <2>2 DEF ProducedIsView, StillOpen, NowOver
  <2>5. \A c \in 1..Len(blocks) : c # b => out[c] = over[c]
    BY <1>6, <1>9, <1>10, <1>11, <2>1, <2>2 DEF ProducedIsView
  <2>6. /\ Path(api, ViewOf(blocks, over),
                <<Delta(b, k, total - blocks[b].len)>> \o <<BlockEnd(b, k, total)>>, ViewOf(t, out))
        /\ Delta(b, k, total - blocks[b].len) \in Events /\ BlockEnd(b, k, total) \in Events
    <3>1. /\ blocks \in Seq(Content) /\ b \in 1..Len(blocks) /\ total > blocks[b].len
          /\ Sized(blocks, t, b, total) /\ Tells(over, blocks)
      BY <1>2, <1>3, <1>10, <1>14, <2>1, <2>3 DEF ProducedIsView
    <3> QED
      BY <2>4, <2>5, <3>1, GrowsAndEnds
  <2>7. Path(api, Produced,
             <<Delta(b, k, total - blocks[b].len)>> \o <<BlockEnd(b, k, total)>>, Produced')
    BY <1>10, <1>11, <2>1, <2>2, <2>3, <2>6 DEF ProducedIsView
  <2> QED
    BY <1>7, <1>12, <1>14, <2>6, <2>7, EmitTwo
<1> QED
  BY <1>13, <1>14

\* Item i ends, which was never announced.
LEMMA UnknownDoneInv ==
  ASSUME ProviderInv, api = "responses", UNCHANGED <<script, api, cancelled, byId, told, saw>>,
         pc = "reading", NEW i \in Items, item[i] = "new",
         item' = [item EXCEPT ![i] = "closed"],
         NEW b, b = Len(blocks) + 1, NEW k \in Kinds,
         NEW total \in Nat, sent' = [sent EXCEPT ![i] = total],
         blocks' = Append(blocks, [kind |-> k, item |-> i, len |-> total]),
         slot' = [j \in DOMAIN slot \ {i} |-> slot[j]],
         Emit(<<BlockStart(b, k)>> \o <<BlockEnd(b, k, total)>>)
  PROVE  ProviderInv'
<1>1. Assembled /\ DataOK /\ Homes /\ Slots /\ i \in Nat
  BY AssemblyAssumption DEF ProviderInv, Assembled, Items
<1>2. blocks \in Seq(Content) /\ DOMAIN blocks = 1..Len(blocks) /\ Len(blocks) \in Nat
  BY <1>1, LenProperties DEF DataOK
<1>3. sent'[i] = total /\ OnlyItem(i)
  BY <1>1 DEF DataOK, OnlyItem
<1>4. PICK t : t = Append(blocks, [kind |-> k, item |-> i, len |-> 0])
  OBVIOUS
<1>5. Opens(blocks, t, k, i, 0) /\ Opens(blocks, blocks', k, i, total)
  <2>1. 0 \in Nat
    OBVIOUS
  <2> QED
    BY <1>1, <1>2, <1>4, <2>1, OpensAppend
<1>6. /\ DataOK' /\ Homes' /\ DOMAIN blocks' = 1..(Len(blocks) + 1)
  BY <1>1, <1>3, <1>5, HomesOpened
<1>7. /\ \A c \in 1..Len(blocks) : blocks'[c] = blocks[c]
      /\ blocks'[b].item = i
  BY <1>5 DEF Opens
<1>8. Assembled'
  <2>1. \A c \in DOMAIN blocks : c \in DOMAIN blocks' /\ blocks'[c].item = blocks[c].item
    BY <1>2, <1>6, <1>7
  <2> QED
    BY <1>1, <1>6, <2>1, ClosedAssembled
<1>9. Sized(t, blocks', b, total)
  <2>1. /\ Len(t) = Len(blocks) + 1 /\ Len(blocks') = Len(blocks) + 1 /\ blocks' \in Seq(Content)
        /\ t[b] = [kind |-> k, item |-> i, len |-> 0]
        /\ blocks'[b] = [kind |-> k, item |-> i, len |-> total]
        /\ \A c \in 1..Len(blocks) : t[c] = blocks[c]
    BY <1>5 DEF Opens
  <2>2. ASSUME NEW c \in 1..Len(t)
        PROVE  /\ blocks'[c].kind = t[c].kind /\ blocks'[c].item = t[c].item
               /\ blocks'[c].len = IF c = b THEN total ELSE t[c].len
    <3>1. CASE c = b
      BY <2>1, <3>1
    <3>2. CASE c # b
      <4>1. c \in 1..Len(blocks)
        BY <1>2, <2>1, <3>2
      <4> QED
        BY <1>7, <2>1, <3>2, <4>1
    <3> QED
      BY <3>1, <3>2
  <2> QED
    BY <2>1, <2>2 DEF Sized
<1>10. pc' = "reading" /\ ProducedIsView
  BY <1>1, ProducedView DEF Emit
<1>11. ProducedIsView'
  BY <1>6, <1>10, ProducedViewNext
<1>12. PICK over : over = Over
  OBVIOUS
<1>13. PICK out : out = Over'
  OBVIOUS
<1>14. PICK u : u = blocks'
  OBVIOUS
<1>15. Len(blocks') = Len(blocks) + 1
  BY <1>5 DEF Opens
<1>16. ASSUME NEW c \in 1..Len(blocks) PROVE out[c] = over[c]
  <2>1. /\ blocks[c].item \in Items /\ blocks[c].item # i /\ blocks'[c] = blocks[c]
        /\ c \in 1..Len(blocks')
    BY <1>1, <1>2, <1>7, <1>15 DEF Homes
  <2>2. item'[blocks'[c].item] = item[blocks[c].item]
    BY <1>1, <2>1 DEF DataOK
  <2>3. HasEnded(c)' = HasEnded(c)
    BY <2>1, <2>2 DEF HasEnded
  <2> QED
    BY <1>10, <1>11, <1>12, <1>13, <2>1, <2>3 DEF ProducedIsView
<1>17. NowOver(out, b)
  <2>1. b \in 1..Len(blocks')
    BY <1>2, <1>15
  <2>2. item'[blocks'[b].item] = "closed"
    BY <1>1, <1>7 DEF DataOK
  <2>3. \A c : c = b => HasEnded(c)'
    BY <2>2 DEF HasEnded
  <2>4. Over'[b] /\ Over'[b] \in BOOLEAN
    BY <1>11, <2>1, <2>3 DEF ProducedIsView, Tells
  <2> QED
    BY <1>13, <2>4 DEF NowOver
<1>18. /\ Path(api, ViewOf(blocks, over), <<BlockStart(b, k)>> \o <<BlockEnd(b, k, total)>>,
               ViewOf(u, out))
       /\ BlockStart(b, k) \in Events /\ BlockEnd(b, k, total) \in Events
  BY <1>2, <1>5, <1>9, <1>10, <1>12, <1>14, <1>16, <1>17, OpensAndEnds DEF ProducedIsView
<1>19. Path(api, Produced, <<BlockStart(b, k)>> \o <<BlockEnd(b, k, total)>>, Produced')
  BY <1>10, <1>11, <1>12, <1>13, <1>14, <1>18 DEF ProducedIsView
<1>20. ~IsTerminal(BlockStart(b, k)) /\ ~IsTerminal(BlockEnd(b, k, total))
  BY DEF IsTerminal, BlockStart, BlockEnd
<1> QED
  BY <1>8, <1>18, <1>19, <1>20, EmitTwo

\* output_item.done, whether or not the item was announced.
LEMMA OutputItemDoneInv ==
  ASSUME ProviderInv, api = "responses", UNCHANGED <<script, api>>,
         NEW i \in Items, NEW k \in Kinds, OutputItemDone(i, k)
  PROVE  ProviderInv'
<1>1. Assembled /\ DataOK /\ Homes /\ Slots
  BY DEF ProviderInv, Assembled
<1> DEFINE b == SlotOf(i)
           known == b <= Len(blocks)
<1>2. /\ pc = "reading" /\ item[i] # "closed" /\ item' = [item EXCEPT ![i] = "closed"]
      /\ IsNext(i) \/ \E c \in DOMAIN blocks : blocks[c].item = i /\ blocks[c].kind = k
      /\ Reveals(i)
      /\ blocks' = IF known THEN [blocks EXCEPT ![b].len = sent'[i]]
                   ELSE Append(blocks, [NewBlock(k, i) EXCEPT !.len = sent'[i]])
      /\ slot' = [j \in DOMAIN slot \ {i} |-> slot[j]]
      /\ Emit((IF known THEN <<>> ELSE <<BlockStart(b, k)>>)
              \o (IF known /\ k = "custom" THEN Missing(b, sent'[i]) ELSE <<>>)
              \o <<BlockEnd(b, k, sent'[i])>>)
      /\ UNCHANGED <<cancelled, byId, told, saw>>
  BY DEF OutputItemDone, Event, Arrives, Running, ResponsesUnchanged
<1>3. PICK total \in sent[i]..MaxFragments : sent' = [sent EXCEPT ![i] = total]
  BY <1>2 DEF Reveals
<1>4. sent[i] \in Nat /\ total \in Nat /\ total >= sent[i] /\ sent'[i] = total
  BY <1>1, <1>3, AssemblyAssumption DEF DataOK
<1>5. DOMAIN blocks = 1..Len(blocks) /\ Len(blocks) \in Nat /\ blocks \in Seq(Content)
  BY <1>1, LenProperties DEF DataOK
<1>6. CASE i \in DOMAIN slot
  <2>1. b \in DOMAIN blocks /\ blocks[b].item = i /\ known
    BY <1>1, <1>5, <1>6 DEF Slots, SlotOf
  <2>2. item[i] = "open" /\ sent[i] = blocks[b].len
    BY <1>1, <1>2, <2>1 DEF Homes, DataOK
  <2>3. k = blocks[b].kind
    <3>1. PICK c \in DOMAIN blocks : blocks[c].item = i /\ blocks[c].kind = k
      BY <1>2, <2>2 DEF IsNext
    <3> QED
      BY <1>1, <2>1, <3>1 DEF Homes
  <2>4. blocks' = [blocks EXCEPT ![b].len = total]
    BY <1>2, <1>4, <2>1
  <2>5. \/ Emit(<<BlockEnd(b, k, total)>>)
        \/ /\ total > blocks[b].len
           /\ Emit(<<Delta(b, k, total - blocks[b].len)>> \o <<BlockEnd(b, k, total)>>)
    <3>1. CASE k = "custom" /\ total > blocks[b].len
      <4>1. Emit(<<>> \o <<Delta(b, k, total - blocks[b].len)>> \o <<BlockEnd(b, k, total)>>)
        BY <1>2, <1>4, <2>1, <2>3, <3>1 DEF Missing
      <4>2. ASSUME NEW e PROVE <<>> \o <<e>> = <<e>>
        OBVIOUS
      <4>3. <<>> \o <<Delta(b, k, total - blocks[b].len)>> = <<Delta(b, k, total - blocks[b].len)>>
        BY <4>2
      <4> QED
        BY <3>1, <4>1, <4>3
    <3>2. CASE ~(k = "custom" /\ total > blocks[b].len)
      <4>1. Emit(<<>> \o <<>> \o <<BlockEnd(b, k, total)>>)
        BY <1>2, <1>4, <2>1, <3>2 DEF Missing
      <4>2. ASSUME NEW e PROVE <<>> \o <<>> \o <<e>> = <<e>>
        OBVIOUS
      <4>3. <<>> \o <<>> \o <<BlockEnd(b, k, total)>> = <<BlockEnd(b, k, total)>>
        BY <4>2
      <4> QED
        BY <4>1, <4>3
    <3> QED
      BY <3>1, <3>2
  <2> HIDE DEF b, known
  <2> QED
    BY <1>2, <1>3, <1>4, <2>1, <2>2, <2>3, <2>4, <2>5, KnownDoneInv
<1>7. CASE i \notin DOMAIN slot
  <2>1. item[i] = "new"
    BY <1>1, <1>2, <1>7 DEF Slots, DataOK
  <2>2. b = Len(blocks) + 1 /\ ~known
    BY <1>5, <1>7 DEF SlotOf
  <2>3. [NewBlock(k, i) EXCEPT !.len = total] = [kind |-> k, item |-> i, len |-> total]
    BY DEF NewBlock
  <2>4. blocks' = Append(blocks, [kind |-> k, item |-> i, len |-> total])
    BY <1>2, <1>4, <2>2, <2>3
  <2>5. Emit(<<BlockStart(b, k)>> \o <<BlockEnd(b, k, total)>>)
    <3>1. Emit(<<BlockStart(b, k)>> \o <<>> \o <<BlockEnd(b, k, total)>>)
      BY <1>2, <1>4, <2>2
    <3>2. ASSUME NEW e PROVE <<e>> \o <<>> = <<e>>
      OBVIOUS
    <3>3. <<BlockStart(b, k)>> \o <<>> = <<BlockStart(b, k)>>
      BY <3>2
    <3> QED
      BY <3>1, <3>3
  <2> HIDE DEF b, known
  <2> QED
    BY <1>2, <1>3, <1>4, <2>1, <2>2, <2>4, <2>5, UnknownDoneInv
<1> QED
  BY <1>6, <1>7

\* The steps of the Responses loop keep the invariant.
LEMMA ResponsesInv == ProviderInv /\ Assemble /\ api = "responses" => ProviderInv'
<1> SUFFICES ASSUME ProviderInv, Assemble, api = "responses" PROVE ProviderInv'
  OBVIOUS
<1>1. ResponsesStep /\ UNCHANGED <<script, api>>
  BY DEF Assemble
<1>2. Assembled /\ DataOK /\ Homes /\ Slots
  BY DEF ProviderInv, Assembled
<1>3. CASE ResponseCompleted
  <2>1. /\ pc = "reading" /\ AllClosed /\ (Fail("error") \/ Finish(<<>>))
        /\ UNCHANGED <<cancelled, byId, told, blocks, slot, saw, item, sent>>
    BY <1>3 DEF ResponseCompleted, MessageEvent, Arrives, Running, ResponsesUnchanged
  <2>2. CASE Fail("error")
    BY <1>1, <2>1, <2>2, FailInv
  <2>3. CASE Finish(<<>>)
    <3>1. Assembled'
      BY <1>1, <1>2, <2>1, AssembledStays
    <3>2. Served(blocks)'
      BY <1>1, <2>1 DEF Served, AllClosed
    <3>3. \A b \in 1..Len(blocks) : HasEnded(b)
      BY <1>2, <2>1, LenProperties DEF AllClosed, HasEnded, DataOK, Homes
    <3> QED
      BY <1>1, <2>1, <2>3, <3>1, <3>2, <3>3, FinishHere
  <2> QED
    BY <2>1, <2>2, <2>3
<1>4. CASE ResponseFailed
  BY <1>1, <1>4, FailInv DEF ResponseFailed, MessageEvent, Arrives, Running, ResponsesUnchanged,
                             outputVars
<1>5. CASE ResponsesEnd
  BY <1>1, <1>5, FailInv DEF ResponsesEnd, Running, outputVars, serverVars
<1>6. ASSUME NEW i \in Items, OutputDelta(i) PROVE ProviderInv'
  <2>1. /\ pc = "reading" /\ item[i] = "open" /\ sent' = [sent EXCEPT ![i] = @ + 1]
        /\ blocks' = Grown(slot[i], 1) /\ i \in DOMAIN slot
        /\ Emit(<<Delta(slot[i], blocks[slot[i]].kind, 1)>>)
        /\ UNCHANGED <<cancelled, byId, told, slot, saw, item>>
    BY <1>6 DEF OutputDelta, Event, Arrives, Running, ItemSends, KindOf, ResponsesUnchanged
  <2>2. PICK b \in DOMAIN blocks : b = slot[i] /\ blocks[b].item = i
    BY <1>2, <2>1 DEF Slots
  <2>3. sent[i] = blocks[b].len
    BY <1>1, <1>2, <2>2 DEF Homes
  <2>4. blocks' = [blocks EXCEPT ![b].len = blocks[b].len + 1]
    BY <2>1, <2>2 DEF Grown
  <2>5. sent' = [sent EXCEPT ![i] = blocks[b].len + 1] /\ 1 \in Nat
    BY <2>1, <2>3
  <2> QED
    BY <1>1, <2>1, <2>2, <2>4, <2>5, GrowInv
<1>7. ASSUME NEW i \in Items, ArgumentsDone(i) PROVE ProviderInv'
  BY <1>1, <1>7, ArgumentsDoneInv
<1>8. ASSUME NEW i \in Items, NEW k \in Kinds, OutputItemAdded(i, k) PROVE ProviderInv'
  <2>1. /\ pc = "reading" /\ item[i] = "new" /\ item' = [item EXCEPT ![i] = "open"]
        /\ blocks' = Append(blocks, NewBlock(k, i)) /\ slot' = At(slot, i, Len(blocks) + 1)
        /\ Emit(<<BlockStart(Len(blocks) + 1, k)>>)
        /\ UNCHANGED <<cancelled, byId, told, saw, sent>>
    BY <1>8 DEF OutputItemAdded, Event, Arrives, Running, ItemOpens, IsNext, ResponsesUnchanged
  <2> QED
    BY <1>1, <2>1, OpenInv
<1>9. ASSUME NEW i \in Items, NEW k \in Kinds, OutputItemDone(i, k) PROVE ProviderInv'
  BY <1>1, <1>9, OutputItemDoneInv
<1> QED
  BY <1>1, <1>3, <1>4, <1>5, <1>6, <1>7, <1>8, <1>9 DEF ResponsesStep

-----------------------------------------------------------------------------
(* Faux.                                                                   *)

\* The message as its consumer has been told it: the open block as far as it
\* has been said, whatever of it is in the message already.
Says ==
  [b \in DOMAIN blocks |-> [kind |-> blocks[b].kind, item |-> blocks[b].item, len |-> ToldLen(b)]]

SaysIsView ==
  /\ Says \in Seq(Content) /\ Len(Says) = Len(blocks) /\ Tells(Over, Says)
  /\ Produced = ViewOf(Says, Over)
  /\ \A b \in 1..Len(blocks) : /\ Says[b].kind = blocks[b].kind
                               /\ Says[b].item = blocks[b].item
                               /\ b < Len(blocks) => Says[b].len = blocks[b].len
                               /\ b = Len(blocks) => Says[b].len = script.said
                               /\ b < Len(blocks) => NowOver(Over, b)
                               /\ b = Len(blocks) => StillOpen(Over, b)

\* While the faux task streams, what is produced is the view of Says.
LEMMA SaysView ==
  DataOK /\ api = "faux" /\ pc = "chunk" => SaysIsView
<1> SUFFICES ASSUME DataOK, api = "faux", pc = "chunk" PROVE SaysIsView
  OBVIOUS
<1>1. /\ DOMAIN blocks = 1..Len(blocks) /\ Len(blocks) \in Nat
      /\ blocks \in Seq(Content) /\ script.said \in Nat
  BY LenProperties DEF DataOK
<1>2. ASSUME NEW b \in 1..Len(blocks)
      PROVE  /\ Says[b].kind = blocks[b].kind /\ Says[b].item = blocks[b].item
             /\ Says[b].len = ToldLen(b) /\ Says[b] \in Content
  <2>1. blocks[b] \in Content
    BY <1>1, ElementOfSeq
  <2>2. Says[b] = [kind |-> blocks[b].kind, item |-> blocks[b].item, len |-> ToldLen(b)]
    BY <1>1 DEF Says
  <2>3. ToldLen(b) \in Nat
    BY <1>1, <2>1 DEF ToldLen, Content
  <2> QED
    BY <2>1, <2>2, <2>3 DEF Content
<1>3. Says \in Seq(Content) /\ Len(Says) = Len(blocks)
  <2>1. DOMAIN Says = 1..Len(blocks) /\ Says = [b \in 1..Len(blocks) |-> Says[b]]
    BY <1>1 DEF Says
  <2> QED
    BY <1>1, <1>2, <2>1
<1>4. \A b \in 1..Len(blocks) : Over[b] = HasEnded(b) /\ HasEnded(b) \in BOOLEAN
  BY <1>1 DEF Over, HasEnded
<1>5. Tells(Over, Says)
  BY <1>3, <1>4 DEF Tells
<1>6. Produced = ViewOf(Says, Over)
  <2>1. ProducedSays
    BY ProducedFields
  <2>2. /\ Produced \in Views /\ Produced.phase = "open" /\ ~Produced.closed
        /\ Produced.final = <<>> /\ Len(Produced.blocks) = Len(Says)
        /\ \A b \in 1..Len(Says) : /\ Produced.blocks[b].kind = Says[b].kind
                                   /\ Produced.blocks[b].len = Says[b].len
                                   /\ Produced.blocks[b].ended = Over[b]
    BY <1>2, <1>3, <1>4, <2>1 DEF ProducedSays
  <2> QED
    BY <1>3, <1>5, <2>2, ViewOfSame
<1>7. ASSUME NEW b \in 1..Len(blocks)
      PROVE  /\ b < Len(blocks) => Says[b].len = blocks[b].len
             /\ b < Len(blocks) => NowOver(Over, b)
             /\ b = Len(blocks) => Says[b].len = script.said
             /\ b = Len(blocks) => StillOpen(Over, b)
  <2>1. CASE b < Len(blocks)
    <3>0. b # Len(blocks)
      <4>1. b \in Int /\ Len(blocks) \in Int
        BY <1>1
      <4>2. PICK m \in Int, n \in Int : m = b /\ n = Len(blocks)
        BY <4>1
      <4>3. m < n
        BY <2>1, <4>2
      <4>4. m # n
        BY <4>3
      <4> QED
        BY <4>2, <4>4
    <3>1. HasEnded(b)
      BY <2>1 DEF HasEnded
    <3>2. Says[b].len = blocks[b].len
      <4>1. ToldLen(b) = blocks[b].len
        BY <3>0 DEF ToldLen
      <4> QED
        BY <1>2, <4>1
    <3>3. NowOver(Over, b)
      BY <1>4, <3>1, Zenon DEF NowOver
    <3> QED
      BY <3>0, <3>2, <3>3
  <2>2. CASE b = Len(blocks)
    <3>0. ~(b < Len(blocks))
      BY <1>1, <2>2
    <3>1. ~HasEnded(b)
      BY <3>0 DEF HasEnded
    <3>2. Says[b].len = script.said
      <4>1. ToldLen(b) = script.said
        BY <2>2 DEF ToldLen
      <4> QED
        BY <1>2, <4>1
    <3>3. StillOpen(Over, b)
      BY <1>4, <3>1, Zenon DEF StillOpen
    <3> QED
      BY <3>0, <3>2, <3>3
  <2> QED
    BY <1>1, <2>1, <2>2
<1> QED
  BY <1>2, <1>3, <1>5, <1>6, <1>7 DEF SaysIsView

\* The same after a step.
LEMMA SaysViewNext ==
  DataOK' /\ api' = "faux" /\ pc' = "chunk" => SaysIsView'
<1>1. DataOK /\ api = "faux" /\ pc = "chunk" => SaysIsView
  BY SaysView
<1>2. (DataOK /\ api = "faux" /\ pc = "chunk")' => SaysIsView'
  BY <1>1, PTL
<1> QED
  BY <1>2

\* The faux message stays well-formed as long as its blocks keep their places.
LEMMA FauxAssembled ==
  ASSUME Assembled, api = "faux", UNCHANGED <<slot, byId, saw, item, sent, told, api>>, DataOK',
         \A c \in DOMAIN blocks : c \in DOMAIN blocks' /\ blocks'[c].item = blocks[c].item
  PROVE  Assembled'
BY DEF Assembled, Homes, Slots, Ids, OneOfAKind, Flags

\* The faux task has pushed what it says next, which ends nothing.
LEMMA FauxGoesOn ==
  ASSUME ProviderInv, api = "faux", pc # "returned", NEW es \in Seq(Events),
         \A n \in 1..Len(es) : ~IsTerminal(es[n]), Push(es), pc' = "chunk",
         UNCHANGED <<outcome, view, cancelled, api>>, Assembled', SaidSoFar',
         Path(api, Produced, es, Produced')
  PROVE  ProviderInv'
BY EmitInv

\* What is scripted.
LEMMA Scripted ==
  ASSUME DataOK, NEW b \in 1..Len(script.content)
  PROVE  /\ script.content[b].kind \in Kinds /\ script.content[b].chunks \in Nat
         /\ script.content[b].chunks >= 1 /\ Chunks(b) = script.content[b].chunks
         /\ Len(script.content) \in Nat /\ DOMAIN script.content = 1..Len(script.content)
         /\ script.content \in Seq(ScriptedBlocks) /\ script.said \in Nat
<1>1. script.content \in Seq(ScriptedBlocks) /\ script.said \in Nat
  BY DEF DataOK
<1>2. script.content[b] \in ScriptedBlocks
  BY <1>1, LenProperties, ElementOfSeq
<1> QED
  BY <1>1, <1>2, LenProperties, AssemblyAssumption DEF ScriptedBlocks, Chunks

\* The scripted message, whole.
Scripture ==
  [b \in DOMAIN script.content |->
     [kind |-> script.content[b].kind, item |-> b, len |-> script.content[b].chunks]]

\* The scripted message is a message.
LEMMA ScriptureTyped ==
  ASSUME DataOK
  PROVE  /\ Scripture \in Seq(Content) /\ Len(Scripture) = Len(script.content)
         /\ DOMAIN Scripture = 1..Len(script.content)
         /\ \A b \in 1..Len(script.content) : /\ Scripture[b].kind = script.content[b].kind
                                              /\ Scripture[b].len = Chunks(b)
<1>1. DOMAIN script.content = 1..Len(script.content) /\ Len(script.content) \in Nat
  BY LenProperties DEF DataOK
<1>2. ASSUME NEW b \in 1..Len(script.content)
      PROVE  /\ Scripture[b].kind = script.content[b].kind /\ Scripture[b].len = Chunks(b)
             /\ Scripture[b] \in Content
  BY <1>1, Scripted DEF Scripture, Content
<1>3. DOMAIN Scripture = 1..Len(script.content)
      /\ Scripture = [b \in 1..Len(script.content) |-> Scripture[b]]
  BY <1>1 DEF Scripture
<1>4. \A b \in 1..Len(script.content) : Scripture[b] \in Content
  BY <1>2
<1>5. Scripture \in Seq(Content) /\ Len(Scripture) = Len(script.content)
  BY <1>1, <1>3, <1>4
<1> QED
  BY <1>2, <1>3, <1>5

\* What stays while the faux task streams.
fauxless == <<slot, byId, saw, item, sent, told, api, outcome, view, cancelled>>

\* A script is said further, its content stays.
LEMMA ScriptSaid ==
  ASSUME DataOK, NEW n \in Nat, script' = [script EXCEPT !.said = n],
         blocks' \in Seq(Content), UNCHANGED fauxless
  PROVE  DataOK' /\ script'.content = script.content /\ script'.said = n
BY DEF DataOK, fauxless

\* s tells the script up to its end.
SaysScript(s, over) ==
  /\ s \in Seq(Content) /\ Tells(over, s) /\ Len(s) <= Len(script.content)
  /\ \A b \in 1..Len(s) : /\ s[b].kind = script.content[b].kind
                          /\ s[b].len = Chunks(b)
                          /\ NowOver(over, b)

\* A faux stream that fails or is cancelled tells no more than it has told.
LEMMA FauxFails ==
  ASSUME ProviderInv, api = "faux", pc # "returned", FauxEnd(<<>>, "error", blocks),
         UNCHANGED <<blocks, script, fauxless>>
  PROVE  ProviderInv'
<1>1. /\ Push(Append(<<>>, Terminal("error", blocks))) /\ pc' = "returned"
      /\ UNCHANGED <<blocks, slot, byId, saw, item, sent, told, script, api>>
      /\ UNCHANGED <<outcome, view, cancelled, api>>
  BY DEF FauxEnd, fauxless
<1>2. Assembled'
  BY <1>1, AssembledStays DEF ProviderInv
<1>3. blocks \in Seq(Content) /\ DOMAIN blocks = 1..Len(blocks) /\ Len(blocks) \in Nat
  BY LenProperties DEF ProviderInv, Assembled, DataOK
<1>4. ProducedSays /\ outcome = "running"
  BY Working
<1>5. PICK w \in Views : w = Produced
  BY <1>4 DEF ProducedSays
<1>6. ASSUME NEW b \in 1..Len(blocks)
      PROVE  /\ blocks[b].kind = w.blocks[b].kind
             /\ \/ blocks[b].len = w.blocks[b].len
                \/ blocks[b].kind = "tool" /\ ~w.blocks[b].ended
  <2>1. blocks[b].kind = w.blocks[b].kind /\ w.blocks[b].len = ToldLen(b)
    BY <1>4, <1>5 DEF ProducedSays
  <2>2. CASE b # Len(blocks)
    BY <2>1, <2>2 DEF ToldLen
  <2>3. CASE b = Len(blocks)
    <3>1. w.blocks[b].len = script.said
      BY <2>1, <2>3 DEF ToldLen
    <3>2. pc = "chunk"
      <4>1. blocks # <<>>
        BY <1>3
      <4> QED
        BY <4>1 DEF ProviderInv, Flow, Control, Fresh, Waiting
    <3>3. blocks[b].kind # "tool" => blocks[b].len = script.said
      BY <2>3, <3>2 DEF ProviderInv, Flow, SaidSoFar
    <3>4. ~w.blocks[b].ended
      <4>1. ~(b < Len(blocks))
        BY <1>3, <2>3
      <4>2. ~HasEnded(b)
        BY <4>1 DEF HasEnded
      <4>3. w.blocks[b].ended = HasEnded(b)
        BY <1>4, <1>5 DEF ProducedSays
      <4> QED
        BY <4>2, <4>3, Zenon
    <3> QED
      BY <2>1, <3>1, <3>3, <3>4
  <2> QED
    BY <2>2, <2>3
<1>7. Faithful(api, blocks, w.blocks)
  <2>1. DOMAIN w.blocks = 1..Len(blocks)
    BY <1>4, <1>5 DEF ProducedSays
  <2> QED
    BY <1>3, <1>6, <2>1 DEF Faithful
<1>8. w.phase \in {"waiting", "open"} /\ ~w.closed
  BY <1>4, <1>5 DEF ProducedSays
<1> DEFINE e == Terminal("error", blocks)
<1>9. e.type = "error" /\ e.content = blocks
  BY DEF Terminal
<1>10. Legal(api, w, e)
  <2> HIDE DEF e
  <2> QED
    BY <1>7, <1>8, <1>9 DEF Legal
<1>11. /\ Path(api, Produced, <<>>, w) /\ <<>> \in Seq(Events)
       /\ \A n \in 1..Len(<<>>) : ~IsTerminal(<<>>[n])
  BY <1>5, PathEmpty
<1>12. PICK type \in {"done", "error"} : type = "error"
  OBVIOUS
<1>13. /\ Push(Append(<<>>, Terminal(type, blocks))) /\ Legal(api, w, Terminal(type, blocks))
       /\ type # "done"
  BY <1>1, <1>10, <1>12
<1>14. outcome' = IF api = "faux" THEN "running" ELSE "ok"
  BY <1>1, <1>4
<1> QED
  BY <1>1, <1>2, <1>3, <1>11, <1>13, <1>14, FinishInv

\* A faux stream whose script is told ends with the scripted message.
LEMMA FauxCompletes ==
  ASSUME ProviderInv, api = "faux", pc # "returned", NEW s, NEW over, SaysScript(s, over),
         Len(s) = Len(script.content), NEW es \in Seq(Events),
         \A n \in 1..Len(es) : ~IsTerminal(es[n]), Path(api, Produced, es, ViewOf(s, over)),
         NEW type \in {"done", "error"}, FauxEnd(es, type, Scripture),
         script'.content = script.content, UNCHANGED fauxless, Assembled'
  PROVE  ProviderInv'
<1>1. /\ Push(Append(es, Terminal(type, Scripture))) /\ pc' = "returned"
      /\ UNCHANGED <<outcome, view, cancelled, api>>
  BY DEF FauxEnd, fauxless
<1>2. DataOK /\ outcome = "running"
  BY Working DEF ProviderInv, Assembled
<1>3. PICK content \in Seq(Content) : content = Scripture
  BY <1>2, ScriptureTyped
<1>4. /\ Len(content) = Len(s) /\ DOMAIN content = 1..Len(s) /\ s \in Seq(Content)
      /\ \A b \in 1..Len(s) : content[b].kind = s[b].kind /\ content[b].len = s[b].len
  BY <1>2, <1>3, ScriptureTyped DEF SaysScript
<1>5. PICK w \in Views : w = ViewOf(s, over)
  BY <1>4, ViewOfFields DEF SaysScript
<1>6. /\ w.phase = "open" /\ ~w.closed /\ DOMAIN w.blocks = 1..Len(s)
      /\ \A b \in 1..Len(s) : w.blocks[b].kind = s[b].kind /\ w.blocks[b].len = s[b].len
  BY <1>4, <1>5, ViewOfFields DEF SaysScript
<1>7. \A b \in 1..Len(s) : w.blocks[b].ended
  <2>1. ASSUME NEW b \in 1..Len(s) PROVE w.blocks[b].ended
    <3>1. w.blocks[b].ended = over[b]
      BY <1>4, <1>5, ViewOfFields DEF SaysScript
    <3>2. over[b] = TRUE
      BY Zenon DEF SaysScript, NowOver
    <3> QED
      BY <3>1, <3>2
  <2> QED
    BY <2>1
<1>8. Faithful(api, content, w.blocks)
  BY <1>4, <1>6 DEF Faithful
<1> DEFINE e == Terminal(type, content)
<1>9. e.type = type /\ e.content = content
  BY DEF Terminal
<1>10. Legal(api, w, e)
  <2> HIDE DEF e
  <2> QED
    BY <1>6, <1>7, <1>8, <1>9 DEF Legal
<1>11. Served(content)'
  BY <1>1, <1>4 DEF Served
<1> QED
  BY <1>1, <1>2, <1>3, <1>5, <1>10, <1>11, FinishInv

\* A block is opened behind the blocks of s, and they are told as before.
Begins(s, over, t, out, k, i) ==
  /\ s \in Seq(Content) /\ Tells(over, s) /\ k \in Kinds /\ Opens(s, t, k, i, 0)
  /\ \A c \in 1..Len(s) : out[c] = over[c]
  /\ out[Len(s) + 1] = FALSE

\* Its start leads from the one view to the other.
LEMMA BeginsPath ==
  ASSUME NEW a, NEW s, NEW over, NEW t, NEW out, NEW k, NEW i, Begins(s, over, t, out, k, i)
  PROVE  /\ Path(a, ViewOf(s, over), <<BlockStart(Len(s) + 1, k)>>, ViewOf(t, out))
         /\ BlockStart(Len(s) + 1, k) \in Events
BY ViewOfOpens DEF Begins

\* A faux stream that has told some blocks of its script opens the next one.
LEMMA FauxOpens ==
  ASSUME ProviderInv, api = "faux", pc # "returned", NEW s, NEW over, SaysScript(s, over),
         Len(s) < Len(script.content), NEW es \in Seq(Events),
         \A n \in 1..Len(es) : ~IsTerminal(es[n]), Path(api, Produced, es, ViewOf(s, over)),
         NEW k, k = script.content[Len(s) + 1].kind,
         blocks' = Append(s, NewBlock(k, Len(s) + 1)),
         Push(Append(es, BlockStart(Len(s) + 1, k))), pc' = "chunk",
         script' = [script EXCEPT !.said = 0], UNCHANGED fauxless,
         \A c \in DOMAIN blocks : c \in 1..Len(s) /\ s[c].item = blocks[c].item
  PROVE  ProviderInv'
<1> DEFINE b == Len(s) + 1
           new == NewBlock(k, b)
<1>1. DataOK /\ Assembled
  BY DEF ProviderInv, Assembled
<1>2. s \in Seq(Content) /\ Len(s) \in Nat /\ Len(script.content) \in Nat /\ DOMAIN s = 1..Len(s)
  BY <1>1, LenProperties DEF DataOK, SaysScript
<1>3. b \in 1..Len(script.content) /\ b \in Nat /\ 0 \in Nat
  BY <1>2
<1>4. k \in Kinds /\ Chunks(b) \in Nat /\ Chunks(b) >= 1
  BY <1>1, <1>3, Scripted
<1>5. new \in Content /\ new.kind = k /\ new.item = b /\ new.len = 0
  BY <1>3, <1>4 DEF Content, NewBlock
<1> HIDE DEF new
<1>6. /\ blocks' \in Seq(Content) /\ Len(blocks') = b /\ DOMAIN blocks' = 1..b
      /\ \A c \in 1..Len(s) : blocks'[c] = s[c]
      /\ blocks'[b] = new
  <2>1. blocks' = Append(s, new)
    BY DEF new
  <2> QED
    BY <1>2, <1>5, <2>1, AppendProperties, LenProperties
<1>7. DataOK' /\ script'.content = script.content /\ script'.said = 0
  BY <1>1, <1>3, <1>6, ScriptSaid
<1>8. Assembled'
  <2>1. \A c \in DOMAIN blocks : c \in DOMAIN blocks' /\ blocks'[c].item = blocks[c].item
    BY <1>2, <1>6
  <2> QED
    BY <1>1, <1>7, <2>1, FauxAssembled DEF fauxless
<1>9. SaysIsView'
  BY <1>7, SaysViewNext DEF fauxless
<1>10. PICK t \in Seq(Content) : t = Says'
  BY <1>9 DEF SaysIsView
<1>11. PICK out : out = Over'
  OBVIOUS
<1>12. /\ Len(t) = b /\ Produced' = ViewOf(t, out)
       /\ \A c \in 1..b : /\ t[c].kind = blocks'[c].kind /\ t[c].item = blocks'[c].item
                          /\ c < b => t[c].len = blocks'[c].len
                          /\ c = b => t[c].len = 0
  BY <1>6, <1>7, <1>9, <1>10, <1>11 DEF SaysIsView
<1>13. \A c \in 1..b : /\ c < b => NowOver(out, c)
                       /\ c = b => StillOpen(out, c)
  BY <1>6, <1>9, <1>11 DEF SaysIsView
<1>14. Opens(s, t, k, b, 0)
  <2>1. ASSUME NEW c \in 1..Len(s) PROVE t[c] = s[c]
    <3>1. c \in 1..b /\ c < b /\ c \in 1..Len(t)
      BY <1>2, <1>12
    <3>2. t[c] \in Content /\ s[c] \in Content
      BY <1>2, <3>1, ElementOfSeq, LenProperties
    <3>3. t[c].kind = s[c].kind /\ t[c].item = s[c].item /\ t[c].len = s[c].len
      BY <1>6, <1>12, <3>1
    <3>4. \A x, y \in Content : x.kind = y.kind /\ x.item = y.item /\ x.len = y.len => x = y
      BY DEF Content
    <3> QED
      BY <3>2, <3>3, <3>4, Zenon
  <2>2. t[b] = [kind |-> k, item |-> b, len |-> 0]
    <3>1. b \in 1..b /\ b \in 1..Len(t)
      BY <1>2, <1>12
    <3>2. t[b] \in Content
      BY <3>1, ElementOfSeq, LenProperties
    <3>3. t[b].kind = k /\ t[b].item = b /\ t[b].len = 0
      <4>1. blocks'[b].kind = k /\ blocks'[b].item = b
        BY <1>5, <1>6
      <4>2. t[b].kind = blocks'[b].kind /\ t[b].item = blocks'[b].item /\ t[b].len = 0
        BY <1>12, <3>1
      <4> QED
        BY <4>1, <4>2
    <3>4. t[b] = [kind |-> t[b].kind, item |-> t[b].item, len |-> t[b].len]
      <4> HIDE DEF b
      <4> QED
        BY <3>2 DEF Content
    <3> QED
      BY <3>3, <3>4, Zenon
  <2> QED
    BY <1>12, <2>1, <2>2 DEF Opens
<1>15. \A c \in 1..Len(s) : out[c] = over[c]
  <2>1. ASSUME NEW c \in 1..Len(s) PROVE out[c] = over[c]
    <3>1. c \in 1..b /\ c < b
      BY <1>2
    <3>2. NowOver(out, c) /\ NowOver(over, c)
      BY <1>13, <3>1 DEF SaysScript
    <3> QED
      BY <3>2, Zenon DEF NowOver
  <2> QED
    BY <2>1
<1>16. out[b] = FALSE
  <2>1. b \in 1..b
    BY <1>2
  <2> QED
    BY <1>13, <2>1 DEF StillOpen
<1>17. /\ Path(api, ViewOf(s, over), <<BlockStart(b, k)>>, ViewOf(t, out))
       /\ BlockStart(b, k) \in Events
  <2>1. Tells(over, s)
    BY DEF SaysScript
  <2> QED
    <3>1. Begins(s, over, t, out, k, b)
      BY <1>2, <1>4, <1>14, <1>15, <1>16, <2>1 DEF Begins
    <3> QED
      BY <3>1, BeginsPath
<1> DEFINE all == Append(es, BlockStart(b, k))
<1>18. /\ all = es \o <<BlockStart(b, k)>> /\ all \in Seq(Events)
       /\ <<BlockStart(b, k)>> \in Seq(Events)
       /\ \A n \in 1..Len(all) : ~IsTerminal(all[n])
  <2> DEFINE e == BlockStart(b, k)
  <2>1. e \in Events /\ ~IsTerminal(e)
    BY <1>17 DEF BlockStart, IsTerminal
  <2> HIDE DEF e
  <2>2. /\ Append(es, e) = es \o <<e>> /\ <<e>> \in Seq(Events) /\ Append(es, e) \in Seq(Events)
        /\ Len(Append(es, e)) = Len(es) + 1 /\ Len(es) \in Nat
        /\ \A n \in 1..Len(es) : Append(es, e)[n] = es[n]
        /\ Append(es, e)[Len(es) + 1] = e
    BY <2>1, AppendIsConcat, AppendProperties, LenProperties
  <2>3. ASSUME NEW n \in 1..Len(Append(es, e)) PROVE ~IsTerminal(Append(es, e)[n])
    <3>1. CASE n = Len(es) + 1
      BY <2>1, <2>2, <3>1
    <3>2. CASE n # Len(es) + 1
      <4>1. n \in 1..Len(es)
        BY <2>2, <3>2
      <4> QED
        BY <2>2, <4>1
    <3> QED
      BY <3>1, <3>2
  <2> QED
    BY <2>2, <2>3 DEF e
<1>19. Path(api, Produced, all, Produced')
  BY <1>12, <1>17, <1>18, PathConcat
<1>20. SaidSoFar'
  <2>1. ASSUME NEW c \in 1..b
        PROVE  /\ blocks'[c].kind = script.content[c].kind
               /\ c < b => blocks'[c].len = Chunks(c)
    <3>1. CASE c < b
      <4>1. c \in 1..Len(s)
        BY <1>2, <3>1
      <4> QED
        BY <1>6, <4>1 DEF SaysScript
    <3>2. CASE ~(c < b)
      <4>1. c = b
        BY <1>2, <3>2
      <4> QED
        BY <1>5, <1>6, <3>2, <4>1
    <3> QED
      BY <3>1, <3>2
  <2>2. \A c : Chunks(c)' = script'.content[c].chunks /\ Chunks(c) = script.content[c].chunks
    BY DEF Chunks
  <2>3. \A c : Chunks(c)' = Chunks(c)
    BY <1>7, <2>2
  <2>4. /\ blocks' # <<>> /\ Len(blocks') <= Len(script'.content)
        /\ script'.said < Chunks(b) /\ blocks'[b].len = script'.said
    BY <1>2, <1>3, <1>4, <1>5, <1>6, <1>7
  <2>5. \A c \in DOMAIN blocks' : blocks'[c].kind = script'.content[c].kind
    BY <1>6, <1>7, <2>1
  <2>6. \A c \in DOMAIN blocks' : c < Len(blocks') => blocks'[c].len = script'.content[c].chunks
    BY <1>6, <1>7, <2>1, <2>2
  <2>7. script'.said < script'.content[Len(blocks')].chunks
    BY <1>6, <1>7, <2>2, <2>4
  <2> QED
    BY <1>6, <2>4, <2>5, <2>6, <2>7 DEF SaidSoFar, Chunks
<1>21. Push(all) /\ UNCHANGED <<outcome, view, cancelled, api>>
  BY DEF fauxless
<1> HIDE DEF all
<1> QED
  BY <1>8, <1>18, <1>19, <1>20, <1>21, FauxGoesOn

\* The start of the faux task keeps the invariant.
LEMMA FauxStartInv ==
  ASSUME ProviderInv, api = "faux", UNCHANGED api, FauxStart
  PROVE  ProviderInv'
<1>1. /\ pc = "entry" /\ outcome = "running" /\ UNCHANGED script /\ UNCHANGED fauxless
      /\ \/ FauxEnd(<<>>, "error", <<>>) /\ UNCHANGED blocks
         \/ FauxOn(0, <<Start>>, <<>>)
  BY DEF FauxStart, FauxRunning, FauxUnchanged, fauxless, serverVars
<1>2. DataOK /\ Assembled /\ blocks = <<>> /\ script.said = 0 /\ ProducedSays
  BY <1>1, Working DEF ProviderInv, Assembled, Flow, Fresh, Waiting
<1>3. CASE FauxEnd(<<>>, "error", <<>>) /\ UNCHANGED blocks
  BY <1>1, <1>2, <1>3, FauxFails
<1>4. CASE FauxOn(0, <<Start>>, <<>>)
  <2>1. PICK over : over = <<>>
    OBVIOUS
  <2>2. PICK s \in Seq(Content) : s = <<>>
    BY EmptySeq
  <2>3. Len(s) = 0 /\ Len(script.content) \in Nat /\ DOMAIN blocks = {}
    BY <1>2, <2>2, LenProperties DEF DataOK
  <2>4. SaysScript(s, over)
    BY <2>3 DEF SaysScript, Tells
  <2>5. Path(api, Produced, <<Start>>, ViewOf(s, over)) /\ Start \in Events
    <3>1. /\ Produced \in Views /\ Produced.phase = "waiting" /\ ~Produced.closed
          /\ Produced.final = <<>> /\ Len(Produced.blocks) = 0
      BY <1>1, <1>2, <2>2, <2>3 DEF ProducedSays
    <3> QED
      BY <2>2, <3>1, ViewOfStart
  <2>6. <<Start>> \in Seq(Events) /\ \A n \in 1..Len(<<Start>>) : ~IsTerminal(<<Start>>[n])
    BY <2>5 DEF Start, IsTerminal
  <2>7. CASE 0 < Len(script.content)
    <3>1. PICK k : k = script.content[Len(s) + 1].kind
      OBVIOUS
    <3>2. /\ blocks' = Append(s, NewBlock(k, Len(s) + 1))
          /\ Push(Append(<<Start>>, BlockStart(Len(s) + 1, k)))
          /\ pc' = "chunk"
      BY <1>4, <2>2, <2>3, <2>7, <3>1, Zenon DEF FauxOn
    <3>3. script' = [script EXCEPT !.said = 0]
      BY <1>1, <1>2 DEF DataOK
    <3>4. Len(s) < Len(script.content) /\ pc # "returned"
      BY <1>1, <2>3, <2>7
    <3> QED
      BY <1>1, <2>3, <2>4, <2>5, <2>6, <3>1, <3>2, <3>3, <3>4, FauxOpens
  <2>8. CASE ~(0 < Len(script.content))
    <3>1. PICK type \in {"done", "error"} : type = IF script.stop = "error" THEN "error" ELSE "done"
      OBVIOUS
    <3>2. blocks' = <<>> /\ FauxEnd(<<Start>>, type, Scripture)
      BY <1>4, <2>8, <3>1, Zenon DEF FauxOn, Scripture
    <3>3. Assembled'
      BY <1>1, <1>2, <3>2, AssembledStays DEF fauxless
    <3>4. Len(s) = Len(script.content) /\ pc # "returned" /\ script'.content = script.content
      BY <1>1, <2>3, <2>8
    <3> QED
      BY <1>1, <2>4, <2>5, <2>6, <3>2, <3>3, <3>4, FauxCompletes
  <2> QED
    BY <2>7, <2>8
<1> QED
  BY <1>1, <1>3, <1>4

\* An index that is not the last one is smaller.
LEMMA BelowLast ==
  ASSUME NEW n \in Nat
  PROVE  \A c \in 1..n : c # n => c < n
OBVIOUS

\* A chunk that is the block's last.
FauxEndsBlock ==
  /\ FauxOn(Len(blocks), <<Delta(Len(blocks), blocks[Len(blocks)].kind, 1)>>
              \o <<BlockEnd(Len(blocks), blocks[Len(blocks)].kind, Chunks(Len(blocks)))>>,
            [blocks EXCEPT ![Len(blocks)].len = Chunks(Len(blocks))])
  /\ script' = [script EXCEPT !.said = 0]

\* The last chunk ends its block, and opens the next or ends the message.
LEMMA FauxLastChunkInv ==
  ASSUME ProviderInv, api = "faux", pc = "chunk", script.said + 1 = Chunks(Len(blocks)),
         FauxEndsBlock, UNCHANGED fauxless
  PROVE  ProviderInv'
<1> DEFINE b == Len(blocks)
           ended == [blocks EXCEPT ![b].len = Chunks(b)]
<1>1. DataOK /\ Assembled /\ SaidSoFar /\ SaysIsView
  BY SaysView DEF ProviderInv, Assembled, Flow
<1>2. /\ b \in 1..b /\ b <= Len(script.content) /\ b \in 1..Len(script.content)
      /\ DOMAIN blocks = 1..b /\ b \in Nat /\ blocks \in Seq(Content) /\ b \in DOMAIN blocks
  <2>1. /\ blocks # <<>> /\ b <= Len(script.content) /\ b \in Nat /\ blocks \in Seq(Content)
        /\ DOMAIN blocks = 1..b
    BY <1>1, LenProperties DEF SaidSoFar, DataOK
  <2>2. b # 0
    BY <2>1
  <2> QED
    BY <1>1, <2>1, <2>2, LenProperties DEF DataOK
<1>0. \A c \in 1..b : c # b => c < b
  <2>1. b \in Nat
    BY <1>2
  <2> HIDE DEF b
  <2> QED
    BY <2>1, BelowLast
<1>3. PICK n \in Nat : n = Chunks(b)
  BY <1>1, <1>2, Scripted
<1>4. PICK s \in Seq(Content) : s = ended
  <2>1. Sized(blocks, [blocks EXCEPT ![b].len = n], b, n)
    BY <1>2, SizedExcept
  <2> QED
    BY <1>3, <2>1 DEF Sized
<1>5. /\ Len(s) = b /\ DOMAIN s = 1..b
      /\ \A c \in 1..b : /\ s[c].kind = blocks[c].kind /\ s[c].item = blocks[c].item
                         /\ s[c].len = IF c = b THEN n ELSE blocks[c].len
  <2>1. Sized(blocks, [blocks EXCEPT ![b].len = n], b, n)
    BY <1>2, SizedExcept
  <2> QED
    BY <1>3, <1>4, <2>1, LenProperties DEF Sized
<1>6. PICK yes : yes = TRUE
  OBVIOUS
<1>7. PICK out : out = [c \in 1..b |-> yes]
  OBVIOUS
<1>8. ASSUME NEW c \in 1..b PROVE NowOver(out, c) /\ out[c] \in BOOLEAN
  <2>1. out[c] = yes
    BY <1>7
  <2> QED
    BY <1>6, <2>1, Zenon DEF NowOver
<1>9. PICK k \in Kinds : k = blocks[b].kind
  <2>1. blocks[b] \in Content
    BY <1>2, ElementOfSeq
  <2> QED
    BY <2>1 DEF Content
<1>10. PICK es : es = <<Delta(b, k, 1)>> \o <<BlockEnd(b, k, n)>>
  OBVIOUS
<1>11. /\ Path(api, Produced, es, ViewOf(s, out))
       /\ Delta(b, k, 1) \in Events /\ BlockEnd(b, k, n) \in Events
  <2>1. PICK t \in Seq(Content) : t = Says
    BY <1>1 DEF SaysIsView
  <2>2. PICK over : over = Over
    OBVIOUS
  <2>3. /\ Len(t) = b /\ Tells(over, t) /\ Produced = ViewOf(t, over)
        /\ \A c \in 1..b : /\ t[c].kind = blocks[c].kind /\ t[c].item = blocks[c].item
                           /\ c < b => t[c].len = blocks[c].len
                           /\ c = b => t[c].len = script.said
    BY <1>1, <2>1, <2>2 DEF SaysIsView
  <2>4. \A c \in 1..b : /\ c < b => NowOver(over, c)
                        /\ c = b => StillOpen(over, c)
    BY <1>1, <2>2 DEF SaysIsView
  <2>5. Sized(t, s, b, n)
    <3>1. ASSUME NEW c \in 1..b
          PROVE  /\ s[c].kind = t[c].kind /\ s[c].item = t[c].item
                 /\ s[c].len = IF c = b THEN n ELSE t[c].len
      <4>1. c # b => c < b
        BY <1>0
      <4> QED
        BY <1>5, <2>3, <4>1
    <3> QED
      BY <1>5, <2>3, <3>1 DEF Sized
  <2>6. StillOpen(over, b) /\ NowOver(out, b)
    BY <1>2, <1>8, <2>4
  <2>7. \A c \in 1..b : c # b => out[c] = over[c]
    <3>1. ASSUME NEW c \in 1..b, c # b PROVE out[c] = over[c]
      <4>1. c < b
        BY <1>0, <3>1
      <4>2. NowOver(over, c) /\ NowOver(out, c)
        BY <1>8, <2>4, <4>1
      <4> QED
        BY <4>2, Zenon DEF NowOver
    <3> QED
      BY <3>1
  <2>8. t[b].len = script.said /\ t[b].kind = k /\ n > t[b].len /\ n - t[b].len = 1
    <3>1. b \in 1..b /\ script.said \in Nat
      BY <1>1, <1>2 DEF DataOK
    <3>2. t[b].len = script.said /\ t[b].kind = k
      BY <1>9, <2>3, <3>1
    <3>3. script.said + 1 = n
      BY <1>3
    <3> QED
      BY <3>1, <3>2, <3>3
  <2>9. PICK one : one = n - t[b].len
    OBVIOUS
  <2> HIDE DEF b
  <2>10. /\ Path(api, ViewOf(t, over), <<Delta(b, k, one)>> \o <<BlockEnd(b, k, n)>>,
                ViewOf(s, out))
         /\ Delta(b, k, one) \in Events /\ BlockEnd(b, k, n) \in Events
    <3>1. b \in 1..Len(t) /\ \A c \in 1..Len(t) : c # b => out[c] = over[c]
      BY <1>2, <2>3, <2>7
    <3>2. /\ t \in Seq(Content) /\ n \in Nat /\ Tells(over, t)
          /\ n > t[b].len /\ k = t[b].kind
      BY <1>2, <1>3, <2>3, <2>8
    <3>3. /\ Path(api, ViewOf(t, over), <<Delta(b, k, n - t[b].len)>> \o <<BlockEnd(b, k, n)>>,
                  ViewOf(s, out))
          /\ Delta(b, k, n - t[b].len) \in Events /\ BlockEnd(b, k, n) \in Events
      BY <2>5, <2>6, <3>1, <3>2, GrowsAndEnds
    <3> QED
      BY <2>9, <3>3
  <2> QED
    BY <1>10, <2>3, <2>8, <2>9, <2>10
<1>12. /\ es \in Seq(Events)
       /\ \A m \in 1..Len(es) : ~IsTerminal(es[m])
  <2> DEFINE d == Delta(b, k, 1)
             e == BlockEnd(b, k, n)
  <2>1. ~IsTerminal(d) /\ ~IsTerminal(e)
    BY DEF Delta, BlockEnd, IsTerminal
  <2>2. d \in Events /\ e \in Events /\ es = <<d>> \o <<e>>
    BY <1>10, <1>11
  <2> HIDE DEF d, e
  <2>3. <<d>> \in Seq(Events) /\ <<e>> \in Seq(Events)
    BY <2>2
  <2>4. /\ es \in Seq(Events) /\ Len(es) = Len(<<d>>) + Len(<<e>>)
        /\ \A m \in 1..(Len(<<d>>) + Len(<<e>>)) :
              es[m] = IF m <= Len(<<d>>) THEN <<d>>[m] ELSE <<e>>[m - Len(<<d>>)]
    BY <2>2, <2>3, ConcatProperties
  <2>5. Len(<<d>>) = 1 /\ Len(<<e>>) = 1 /\ <<d>>[1] = d /\ <<e>>[1] = e
    OBVIOUS
  <2>6. es \in Seq(Events) /\ Len(es) = 2 /\ es[1] = d /\ es[2] = e
    BY <2>4, <2>5
  <2> QED
    BY <2>1, <2>6
<1>13. SaysScript(s, out)
  <2>1. ASSUME NEW c \in 1..b
        PROVE  s[c].kind = script.content[c].kind /\ s[c].len = Chunks(c)
    <3>1. c # b => c < b
      BY <1>0
    <3>2. c < b => blocks[c].len = Chunks(c)
      BY <1>1, <1>2 DEF SaidSoFar
    <3>3. blocks[c].kind = script.content[c].kind
      BY <1>1, <1>2 DEF SaidSoFar
    <3> QED
      BY <1>3, <1>5, <3>1, <3>2, <3>3
  <2>2. Tells(out, s)
    BY <1>5, <1>8 DEF Tells
  <2> QED
    BY <1>2, <1>5, <1>8, <2>1, <2>2 DEF SaysScript
<1>14. FauxOn(Len(s), es, s) /\ script' = [script EXCEPT !.said = 0]
  BY <1>3, <1>4, <1>5, <1>9, <1>10 DEF FauxEndsBlock
<1>15. \A c \in DOMAIN blocks : c \in 1..Len(s) /\ s[c].item = blocks[c].item
  BY <1>2, <1>5
<1>16. 0 \in Nat /\ pc # "returned"
  OBVIOUS
<1>17. CASE Len(s) < Len(script.content)
  <2>1. PICK x : x = script.content[Len(s) + 1].kind
    OBVIOUS
  <2>2. /\ blocks' = Append(s, NewBlock(x, Len(s) + 1))
        /\ Push(Append(es, BlockStart(Len(s) + 1, x))) /\ pc' = "chunk"
    BY <1>14, <1>17, <2>1, Zenon DEF FauxOn
  <2> HIDE DEF b, ended
  <2> QED
    BY <1>11, <1>12, <1>13, <1>14, <1>15, <1>16, <1>17, <2>1, <2>2, FauxOpens
<1>18. CASE ~(Len(s) < Len(script.content))
  <2>1. PICK type \in {"done", "error"} : type = IF script.stop = "error" THEN "error" ELSE "done"
    OBVIOUS
  <2>2. blocks' = s /\ FauxEnd(es, type, Scripture)
    BY <1>14, <1>18, <2>1, Zenon DEF FauxOn, Scripture
  <2>3. DataOK' /\ script'.content = script.content
    BY <1>1, <1>14, <1>16, <2>2, ScriptSaid
  <2>4. \A c \in DOMAIN blocks : c \in DOMAIN blocks' /\ blocks'[c].item = blocks[c].item
    BY <1>2, <1>5, <2>2
  <2>5. Assembled'
    BY <1>1, <2>3, <2>4, FauxAssembled DEF fauxless
  <2>6. Len(s) = Len(script.content)
    <3>1. Len(s) \in Nat /\ Len(script.content) \in Nat /\ Len(s) <= Len(script.content)
      BY <1>1, <1>2, <1>5, LenProperties DEF DataOK
    <3>2. PICK m \in Nat, l \in Nat : m = Len(s) /\ l = Len(script.content)
      BY <3>1
    <3> QED
      BY <1>18, <3>1, <3>2
  <2> HIDE DEF b, ended
  <2> QED
    BY <1>11, <1>12, <1>13, <1>16, <2>2, <2>3, <2>5, <2>6, FauxCompletes
<1> QED
  BY <1>17, <1>18

\* A chunk that is not the block's last.
LEMMA FauxGrowsInv ==
  ASSUME ProviderInv, api = "faux", pc = "chunk", script.said + 1 # Chunks(Len(blocks)),
         Push(<<Delta(Len(blocks), blocks[Len(blocks)].kind, 1)>>), pc' = "chunk",
         script' = [script EXCEPT !.said = script.said + 1],
         blocks' = IF blocks[Len(blocks)].kind = "tool" THEN blocks ELSE Grown(Len(blocks), 1),
         UNCHANGED fauxless
  PROVE  ProviderInv'
<1> DEFINE b == Len(blocks)
<1>1. DataOK /\ Assembled /\ SaidSoFar /\ SaysIsView
  BY SaysView DEF ProviderInv, Assembled, Flow
<1>2. /\ b \in 1..b /\ b <= Len(script.content) /\ b \in 1..Len(script.content)
      /\ DOMAIN blocks = 1..b /\ b \in Nat /\ blocks \in Seq(Content) /\ b \in DOMAIN blocks
  <2>1. /\ blocks # <<>> /\ b <= Len(script.content) /\ b \in Nat /\ blocks \in Seq(Content)
        /\ DOMAIN blocks = 1..b
    BY <1>1, LenProperties DEF SaidSoFar, DataOK
  <2>2. b # 0
    BY <2>1
  <2> QED
    BY <1>1, <2>1, <2>2, LenProperties DEF DataOK
<1>3. blocks[b] \in Content /\ blocks[b].len \in Nat /\ blocks[b].kind \in Kinds
  <2>1. blocks[b] \in Content
    BY <1>2, ElementOfSeq
  <2> QED
    BY <2>1 DEF Content
<1>4. script.said \in Nat /\ script.said + 1 \in Nat /\ Chunks(b) \in Nat
  <2>1. DataOK /\ b \in 1..Len(script.content)
    BY <1>1, <1>2
  <2> HIDE DEF b
  <2>2. /\ Chunks(b) = script.content[b].chunks /\ script.content[b].chunks \in Nat
        /\ script.said \in Nat
    BY <2>1, Scripted
  <2> QED
    BY <2>2
<1>5. /\ blocks' \in Seq(Content) /\ Len(blocks') = b /\ DOMAIN blocks' = 1..b
      /\ \A c \in 1..b : /\ blocks'[c].kind = blocks[c].kind
                         /\ blocks'[c].item = blocks[c].item
                         /\ c # b => blocks'[c].len = blocks[c].len
      /\ blocks[b].kind # "tool" => blocks'[b].len = blocks[b].len + 1
  <2>1. CASE blocks[b].kind = "tool"
    BY <1>2, <2>1
  <2>2. CASE blocks[b].kind # "tool"
    <3>1. PICK n \in Nat : n = blocks[b].len + 1
      BY <1>3
    <3>2. blocks' = [blocks EXCEPT ![b].len = n]
      BY <2>2, <3>1 DEF Grown
    <3>3. Sized(blocks, blocks', b, n)
      <4>1. Sized(blocks, [blocks EXCEPT ![b].len = n], b, n)
        BY <1>2, SizedExcept
      <4> QED
        BY <3>2, <4>1
    <3> QED
      BY <1>2, <3>1, <3>3, LenProperties DEF Sized
  <2> QED
    BY <2>1, <2>2
<1>6. DataOK' /\ script'.content = script.content /\ script'.said = script.said + 1
  BY <1>1, <1>4, <1>5, ScriptSaid
<1>7. Assembled'
  <2>1. \A c \in DOMAIN blocks : c \in DOMAIN blocks' /\ blocks'[c].item = blocks[c].item
    BY <1>2, <1>5
  <2> QED
    BY <1>1, <1>6, <2>1, FauxAssembled DEF fauxless
<1>8. SaysIsView'
  BY <1>6, SaysViewNext DEF fauxless
<1>9. PICK s \in Seq(Content), t \in Seq(Content) : s = Says /\ t = Says'
  BY <1>1, <1>8 DEF SaysIsView
<1>10. PICK over, out : over = Over /\ out = Over'
  OBVIOUS
<1>11. /\ Len(s) = b /\ Tells(over, s) /\ Produced = ViewOf(s, over)
       /\ \A c \in 1..b : /\ s[c].kind = blocks[c].kind /\ s[c].item = blocks[c].item
                          /\ c < b => s[c].len = blocks[c].len
                          /\ c = b => s[c].len = script.said
  BY <1>1, <1>9, <1>10 DEF SaysIsView
<1>12. /\ Len(t) = b /\ Produced' = ViewOf(t, out)
       /\ \A c \in 1..b : /\ t[c].kind = blocks'[c].kind /\ t[c].item = blocks'[c].item
                          /\ c < b => t[c].len = blocks'[c].len
                          /\ c = b => t[c].len = script'.said
  BY <1>5, <1>8, <1>9, <1>10 DEF SaysIsView
<1>13. \A c \in 1..b : /\ c < b => NowOver(over, c) /\ NowOver(out, c)
                       /\ c = b => StillOpen(over, c) /\ StillOpen(out, c)
  BY <1>1, <1>5, <1>8, <1>10 DEF SaysIsView
<1>14. \A c \in 1..b : c # b => c < b
  <2>1. b \in Nat
    BY <1>2
  <2> HIDE DEF b
  <2> QED
    BY <2>1, BelowLast
<1>15. \A c \in 1..b : out[c] = over[c]
  <2>1. ASSUME NEW c \in 1..b PROVE out[c] = over[c]
    <3>1. CASE c < b
      <4>1. NowOver(over, c) /\ NowOver(out, c)
        BY <1>13, <3>1
      <4> QED
        BY <4>1, Zenon DEF NowOver
    <3>2. CASE c = b
      <4>1. StillOpen(over, c) /\ StillOpen(out, c)
        BY <1>13, <3>2
      <4> QED
        BY <4>1, Zenon DEF StillOpen
    <3> QED
      BY <1>14, <3>1, <3>2
  <2> QED
    BY <2>1
<1>16. Sized(s, t, b, s[b].len + 1)
  <2>1. ASSUME NEW c \in 1..b
        PROVE  /\ t[c].kind = s[c].kind /\ t[c].item = s[c].item
               /\ t[c].len = IF c = b THEN s[b].len + 1 ELSE s[c].len
    <3>1. CASE c = b
      BY <1>5, <1>6, <1>11, <1>12, <3>1
    <3>2. CASE c # b
      <4>1. c < b
        BY <1>14, <3>2
      <4> QED
        BY <1>5, <1>11, <1>12, <3>2, <4>1
    <3> QED
      BY <3>1, <3>2
  <2> QED
    BY <1>11, <1>12, <2>1 DEF Sized
<1>17. PICK es : es = <<Delta(b, blocks[b].kind, 1)>>
  OBVIOUS
<1>18. Path(api, Produced, es, Produced') /\ Delta(b, blocks[b].kind, 1) \in Events
  <2>1. s[b].kind = blocks[b].kind /\ StillOpen(over, b) /\ b \in 1..Len(s) /\ 1 \in Nat
    BY <1>2, <1>11, <1>13
  <2>2. \A c \in 1..Len(s) : out[c] = over[c]
    BY <1>11, <1>15
  <2> HIDE DEF b
  <2>3. /\ Path(api, ViewOf(s, over), <<Delta(b, s[b].kind, 1)>>, ViewOf(t, out))
        /\ Delta(b, s[b].kind, 1) \in Events
    BY <1>11, <1>16, <2>1, <2>2, ViewOfGrows, ZenonT(60)
  <2> QED
    BY <1>11, <1>12, <1>17, <2>1, <2>3
<1>19. es \in Seq(Events) /\ \A m \in 1..Len(es) : ~IsTerminal(es[m])
  <2>1. ~IsTerminal(Delta(b, blocks[b].kind, 1))
    BY DEF Delta, IsTerminal
  <2> DEFINE d == Delta(b, blocks[b].kind, 1)
  <2>2. d \in Events /\ ~IsTerminal(d) /\ es = <<d>>
    BY <1>17, <1>18, <2>1
  <2> HIDE DEF d
  <2> QED
    BY <2>2
<1>20. SaidSoFar'
  <2>1. \A c : Chunks(c)' = script'.content[c].chunks /\ Chunks(c) = script.content[c].chunks
    BY DEF Chunks
  <2>2. \A c \in 1..b : blocks[c].kind = script.content[c].kind
    BY <1>1, <1>2 DEF SaidSoFar
  <2>3. \A c \in 1..b : c < b => blocks[c].len = script.content[c].chunks
    BY <1>1, <1>2, <2>1 DEF SaidSoFar
  <2>4. script.said < script.content[b].chunks
    BY <1>1, <2>1 DEF SaidSoFar
  <2>5. blocks[b].kind # "tool" => blocks[b].len = script.said
    BY <1>1 DEF SaidSoFar
  <2>6. script.said + 1 < script.content[b].chunks
    BY <1>4, <2>1, <2>4
  <2>7. ASSUME NEW c \in 1..b, c < b PROVE blocks'[c].len = script'.content[c].chunks
    <3>1. c # b
      <4>1. PICK m \in Int, n \in Int : m = c /\ n = b
        BY <1>2
      <4>2. m < n
        BY <2>7, <4>1
      <4>3. m # n
        BY <4>2
      <4> QED
        BY <4>1, <4>3
    <3> QED
      BY <1>5, <1>6, <2>3, <2>7, <3>1
  <2>8. /\ blocks' # <<>> /\ Len(blocks') <= Len(script'.content)
        /\ script'.said < script'.content[Len(blocks')].chunks
    BY <1>2, <1>5, <1>6, <2>6
  <2>9. \A c \in DOMAIN blocks' : blocks'[c].kind = script'.content[c].kind
    BY <1>5, <1>6, <2>2
  <2>10. \A c \in DOMAIN blocks' : c < Len(blocks') => blocks'[c].len = script'.content[c].chunks
    BY <1>5, <2>7
  <2>11. blocks'[Len(blocks')].kind # "tool" => blocks'[Len(blocks')].len = script'.said
    BY <1>2, <1>5, <1>6, <2>5
  <2> QED
    BY <2>8, <2>9, <2>10, <2>11 DEF SaidSoFar, Chunks
<1>21. Push(es) /\ UNCHANGED <<outcome, view, cancelled, api>>
  BY <1>17 DEF fauxless
<1> QED
  BY <1>7, <1>18, <1>19, <1>20, <1>21, FauxGoesOn

\* The steps of the faux task keep the invariant.
LEMMA FauxInv == ProviderInv /\ Faux => ProviderInv'
<1> SUFFICES ASSUME ProviderInv, Faux PROVE ProviderInv'
  OBVIOUS
<1>1. api = "faux" /\ UNCHANGED api
  BY DEF Faux
<1>2. CASE FauxStart
  BY <1>1, <1>2, FauxStartInv
<1>3. CASE FauxChunk
  <2> DEFINE b == Len(blocks)
             d == Delta(b, blocks[b].kind, 1)
  <2>1. pc = "chunk" /\ UNCHANGED fauxless
    BY <1>1, <1>3 DEF FauxChunk, FauxRunning, FauxUnchanged, serverVars, fauxless
  <2>2. CASE cancelled
    <3>1. FauxEnd(<<>>, "error", blocks) /\ UNCHANGED <<blocks, script>>
      BY <1>3, <2>2 DEF FauxChunk
    <3> QED
      BY <1>1, <2>1, <3>1, FauxFails
  <2>3. CASE ~cancelled /\ script.said + 1 = Chunks(b)
    <3>1. FauxEndsBlock
      BY <1>3, <2>3, Zenon DEF FauxChunk, FauxEndsBlock
    <3> QED
      BY <1>1, <2>1, <2>3, <3>1, FauxLastChunkInv
  <2>4. CASE ~cancelled /\ script.said + 1 # Chunks(b)
    <3>1. /\ Push(<<d>> \o <<>>)
          /\ blocks' = IF blocks[b].kind = "tool" THEN blocks ELSE Grown(b, 1)
          /\ script' = [script EXCEPT !.said = script.said + 1]
          /\ UNCHANGED pc
      BY <1>3, <2>4, Zenon DEF FauxChunk
    <3>2. <<d>> \o <<>> = <<d>>
      <4>1. d \in {d} /\ <<d>> \in Seq({d})
        OBVIOUS
      <4> HIDE DEF d
      <4> QED
        BY <4>1, ConcatEmptySeq
    <3>3. Push(<<d>>)
      BY <3>1, <3>2
    <3> QED
      BY <1>1, <2>1, <2>4, <3>1, <3>3, FauxGrowsInv
  <2> QED
    BY <2>2, <2>3, <2>4
<1> QED
  BY <1>2, <1>3 DEF Faux, FauxStep

-----------------------------------------------------------------------------
(* The consumer's steps, and the invariant as a whole.                     *)

\* What an event leaves of a view, and what a terminal one makes of it.
LEMMA HeardSays ==
  ASSUME NEW a, NEW v \in Views, NEW e \in Events, Legal(a, v, e)
  PROVE  /\ Heard(v, e).closed = v.closed
         /\ ~IsTerminal(e) => Heard(v, e).phase \in {"waiting", "open"}
         /\ IsTerminal(e) => /\ Heard(v, e).phase = e.type /\ Heard(v, e).final = e.content
                             /\ Heard(v, e).blocks = v.blocks
<1>0. v.phase \in {"waiting", "open", "done", "error"}
  BY ViewTyped
<1>1. CASE e.type = "start"
  <2>1. Heard(v, e) = [v EXCEPT !.phase = "open"]
    BY <1>1, HeardStart
  <2> QED
    BY <1>1, <2>1 DEF Views, IsTerminal
<1>2. CASE e.type = "blockStart"
  <2>1. Heard(v, e) = WithNew(v, e.kind) /\ e.kind \in Kinds /\ v.phase = "open"
    BY <1>2, HeardBlockStart, EventTyped DEF Legal, WithNew
  <2>2. Same(v, WithNew(v, e.kind))
    BY <2>1, NewTyped
  <2> QED
    BY <1>2, <2>1, <2>2 DEF Same, IsTerminal
<1>3. CASE e.type \in {"delta", "blockEnd"}
  <2>1. v.phase = "open" /\ e.block \in DOMAIN v.blocks /\ Heard(v, e) \in Views
    BY <1>3, HeardTyped DEF Legal, OpenIn
  <2>2. PICK s : Heard(v, e) = [v EXCEPT !.blocks = s]
    <3>1. CASE e.type = "delta"
      BY <2>1, <3>1, HeardDelta
    <3>2. CASE e.type = "blockEnd"
      BY <2>1, <3>2, HeardBlockEnd
    <3> QED
      BY <1>3, <3>1, <3>2
  <2>3. Heard(v, e).phase = v.phase /\ Heard(v, e).closed = v.closed
    BY <2>2 DEF Views
  <2> QED
    BY <1>3, <2>1, <2>3 DEF IsTerminal
<1>4. CASE e.type \in {"done", "error"}
  <2>1. Heard(v, e) = [v EXCEPT !.phase = e.type, !.final = e.content]
    BY <1>4, HeardTerminal
  <2> QED
    BY <1>4, <2>1 DEF Views, IsTerminal
<1> QED
  BY <1>1, <1>2, <1>3, <1>4, EventTyped

\* A step of the consumer leaves the provider alone.
LEMMA Consumed ==
  ASSUME ProviderInv, Consume
  PROVE  /\ UNCHANGED <<blocks, slot, byId, saw, item, sent, told, script, api>>
         /\ UNCHANGED <<pc, cancelled, Produced>>
         /\ Assembled' /\ Fresh' /\ SaidSoFar'
         /\ \A content : Served(content)' = Served(content)
<1>1. /\ UNCHANGED <<blocks, slot, byId, saw, item, sent, told, script, api>>
      /\ UNCHANGED <<pc, cancelled>>
  BY DEF Consume, httpVars, outputVars, serverVars
<1>2. Assembled'
  BY <1>1, AssembledStays DEF ProviderInv
<1>3. UNCHANGED Produced
  BY <1>1 DEF Produced, ToldLen, HasEnded
<1>4. Fresh' /\ SaidSoFar'
  BY <1>1 DEF ProviderInv, Flow, Fresh, SaidSoFar, Chunks
<1>5. \A content : Served(content)' = Served(content)
  BY <1>1 DEF Served, AllClosed
<1> QED
  BY <1>1, <1>2, <1>3, <1>4, <1>5

\* An event that is received keeps the invariant,
LEMMA ReceiveInv == ProviderInv /\ Consume /\ Receive => ProviderInv'
<1> SUFFICES ASSUME ProviderInv, Consume, Receive PROVE ProviderInv'
  OBVIOUS
<1>1. PICK e \in Events : e = Head(chan)
  BY ReceiveIsLegal
<1>2. /\ Legal(api, view, e) /\ view' = Heard(view, e) /\ view' \in Views
      /\ chan' = Tail(chan) /\ chan' \in Seq(Events)
      /\ \A w : Path(api, view, chan, w) => Path(api, view', chan', w)
  BY <1>1, ReceiveIsLegal
<1>3. /\ chan # <<>> /\ ~view.closed /\ UNCHANGED <<sender, outcome>>
      /\ chan \in Seq(Events) /\ view \in Views
  BY DEF Receive, ProviderInv, Flow, StreamOK
<1>4. /\ view'.closed = view.closed
      /\ ~IsTerminal(e) => view'.phase \in {"waiting", "open"}
      /\ IsTerminal(e) => view'.phase = e.type /\ view'.final = e.content
                          /\ view'.blocks = view.blocks
  BY <1>2, <1>3, HeardSays
<1>5. /\ e = chan[1] /\ 1 \in 1..Len(chan) /\ Len(chan') = Len(chan) - 1 /\ Len(chan) \in Nat
      /\ \A n \in 1..Len(chan') : chan'[n] = chan[n + 1] /\ n + 1 \in 1..Len(chan)
  <2>1. /\ Len(chan) \in Nat /\ Len(chan) >= 1 /\ Len(Tail(chan)) = Len(chan) - 1
        /\ \A n \in 1..(Len(chan) - 1) : Tail(chan)[n] = chan[n + 1]
        /\ Head(chan) = chan[1]
    BY <1>3, HeadTailProperties, LenProperties, EmptySeq
  <2> QED
    BY <1>1, <1>2, <2>1
<1>6. StreamOK' /\ Control'
  BY <1>2, <1>3, <1>4, Consumed DEF ProviderInv, Flow, StreamOK, Control
<1>7. DoneServed'
  <2>1. ASSUME NEW n \in 1..Len(chan'), chan'[n].type = "done"
        PROVE  pc = "returned" /\ Served(chan[n].content)'
    <3>1. PICK m \in 1..Len(chan) : m = n + 1 /\ chan'[n] = chan[m]
      BY <1>5
    <3>2. pc = "returned" /\ Served(chan[m].content)
      BY <2>1, <3>1 DEF ProviderInv, Flow, DoneServed
    <3>3. Served(chan'[n].content)
      BY <3>1, <3>2
    <3>4. Served(chan[n].content)'
      BY <3>3, Consumed DEF Served, AllClosed
    <3> QED
      BY <3>2, <3>4
  <2>2. ASSUME view'.phase = "done" PROVE pc = "returned" /\ Served(view.final)'
    <3>1. e.type = "done" /\ view'.final = e.content
      BY <1>4, <2>2 DEF IsTerminal
    <3>2. pc = "returned" /\ Served(e.content)
      BY <1>5, <3>1 DEF ProviderInv, Flow, DoneServed
    <3>3. Served(view'.final)
      BY <3>1, <3>2
    <3> QED
      BY <3>2, <3>3, Consumed DEF Served, AllClosed
  <2> QED
    BY <2>1, <2>2, Consumed DEF DoneServed
<1>8. FinalFaithful'
  <2>1. ASSUME IsTerminal(e) PROVE Faithful(api, view'.final, view'.blocks)
    <3>1. Faithful(api, e.content, view.blocks)
      BY <1>2, <2>1 DEF Legal, IsTerminal
    <3> QED
      BY <1>4, <2>1, <3>1
  <2> QED
    BY <1>4, <2>1, Consumed DEF FinalFaithful
<1>9. OnTheWay'
  <2>1. CASE pc # "returned"
    <3>1. Path(api, view', chan', Produced)
      BY <1>2, <2>1 DEF ProviderInv, Flow, OnTheWay
    <3> QED
      BY <2>1, <3>1, Consumed DEF OnTheWay
  <2>2. CASE pc = "returned"
    <3>1. PICK w \in Views : Path(api, view, chan, w) /\ Settled(w)
      BY <2>2 DEF ProviderInv, Flow, OnTheWay
    <3>2. Path(api, view, chan, w)'
      BY <1>2, <3>1, Consumed
    <3>3. Settled(w)'
      BY <1>3, <3>1, Consumed DEF Settled
    <3> QED
      BY <2>2, <3>2, <3>3, Consumed DEF OnTheWay
  <2> QED
    BY <2>1, <2>2
<1> QED
  BY <1>6, <1>7, <1>8, <1>9, Consumed DEF ProviderInv, Flow

\* so does a failure that is delivered,
LEMMA DeliverErrorInv == ProviderInv /\ Consume /\ DeliverError(blocks) => ProviderInv'
<1> SUFFICES ASSUME ProviderInv, Consume, DeliverError(blocks) PROVE ProviderInv'
  OBVIOUS
<1>1. PICK e \in Events : e = Terminal("error", blocks)
  BY FailureIsLegal
<1>2. e.type = "error" /\ IsTerminal(e) /\ e.content = blocks
  BY <1>1 DEF Terminal, IsTerminal
<1>3. /\ Legal(api, view, e) /\ view' = Heard(view, e) /\ pc = "returned"
      /\ view \in Views /\ view' \in Views
  BY <1>1, FailureIsLegal, HeardTyped DEF ProviderInv, Flow, StreamOK
<1>4. /\ chan = <<>> /\ chan' = <<>> /\ sender /\ sender' = sender /\ outcome' = "gone"
      /\ outcome \in {"error", "aborted"}
  BY DEF DeliverError
<1>5. view'.phase = "error" /\ view'.final = blocks /\ view'.blocks = view.blocks
  BY <1>2, <1>3, HeardSays
<1>6. StreamOK' /\ Control'
  BY <1>3, <1>4, Consumed DEF ProviderInv, Flow, StreamOK, Control
<1>7. DoneServed'
  <2>1. Len(chan') = 0
    BY <1>4
  <2> QED
    BY <1>5, <2>1 DEF DoneServed
<1>8. FinalFaithful'
  BY <1>2, <1>3, <1>5, Consumed DEF FinalFaithful, Legal
<1>9. OnTheWay'
  <2>1. PICK w \in Views : w = view'
    BY <1>3
  <2>2. Path(api, view, chan, w)'
    BY <1>4, <2>1, PathEmpty
  <2>3. Settled(w)'
    BY <1>4, <1>5, <2>1 DEF Settled
  <2> QED
    BY <1>3, <2>2, <2>3, Consumed DEF OnTheWay
<1> QED
  BY <1>6, <1>7, <1>8, <1>9, Consumed DEF ProviderInv, Flow

\* and so does the end of the stream.
LEMMA CloseInv == ProviderInv /\ Consume /\ Close => ProviderInv'
<1> SUFFICES ASSUME ProviderInv, Consume, Close PROVE ProviderInv'
  OBVIOUS
<1>1. /\ view.phase \in {"done", "error"} /\ chan = <<>> /\ pc = "returned" /\ Settled(view)
  BY CloseIsLegal
<1>2. /\ UNCHANGED <<chan, sender, outcome>> /\ view \in Views
      /\ view' = [view EXCEPT !.closed = TRUE]
  BY DEF Close, ProviderInv, Flow, StreamOK
<1>3. /\ view' \in Views /\ view'.phase = view.phase /\ view'.final = view.final
      /\ view'.blocks = view.blocks
  BY <1>2 DEF Views
<1>4. StreamOK' /\ Control'
  BY <1>1, <1>2, <1>3, Consumed DEF ProviderInv, Flow, StreamOK, Control
<1>5. DoneServed'
  <2>1. Len(chan') = 0
    BY <1>1, <1>2
  <2>2. view.phase = "done" => Served(view.final)
    BY DEF ProviderInv, Flow, DoneServed
  <2>3. view.phase = "done" => Served(view'.final)
    BY <1>3, <2>2
  <2>4. view'.phase = "done" => Served(view.final)'
    BY <1>3, <2>3, Consumed DEF Served, AllClosed
  <2> QED
    BY <1>1, <2>1, <2>4, Consumed DEF DoneServed
<1>6. FinalFaithful'
  BY <1>3, Consumed DEF ProviderInv, Flow, FinalFaithful
<1>7. OnTheWay'
  <2>1. PICK w \in Views : w = view'
    BY <1>3
  <2>2. Path(api, view, chan, w)'
    BY <1>1, <1>2, <2>1, PathEmpty
  <2>3. Settled(w)'
    BY <1>1, <1>2, <1>3, <2>1, Consumed DEF Settled
  <2> QED
    BY <1>1, <2>2, <2>3, Consumed DEF OnTheWay
<1> QED
  BY <1>4, <1>5, <1>6, <1>7, Consumed DEF ProviderInv, Flow

\* Every step keeps the invariant.
LEMMA ProviderInvNext == ProviderInv /\ [Next]_vars => ProviderInv'
<1> SUFFICES ASSUME ProviderInv, [Next]_vars PROVE ProviderInv'
  OBVIOUS
<1>1. CASE Http
  BY <1>1, HttpInv
<1>2. CASE Reading
  BY <1>2, ReadingInv
<1>3. CASE Assemble
  BY <1>3, AnthropicInv, CompletionsInv, ResponsesInv DEF Assemble
<1>4. CASE Faux
  BY <1>4, FauxInv
<1>5. CASE UserCancels
  BY <1>5, UserCancelsInv
<1>6. CASE Consume
  BY <1>6, ReceiveInv, DeliverErrorInv, CloseInv DEF Consume
<1>7. CASE UNCHANGED vars
  <2>1. UNCHANGED <<streamVars, streamless>> /\ cancelled' \in BOOLEAN /\ pc' = pc
    BY <1>7 DEF vars, streamless, httpVars, serverVars, ProviderInv, Flow, StreamOK
  <2> QED
    BY <2>1, QuietInv
<1> QED
  BY <1>1, <1>2, <1>3, <1>4, <1>5, <1>6, <1>7 DEF Next, Ended

\* The invariant holds at first.
LEMMA ProviderInvInit == Init => ProviderInv
<1> SUFFICES ASSUME Init PROVE ProviderInv
  OBVIOUS
<1>1. /\ chan = <<>> /\ sender = TRUE /\ outcome = "running"
      /\ view = [phase |-> "waiting", blocks |-> <<>>, closed |-> FALSE, final |-> <<>>]
      /\ pc = "entry" /\ cancelled \in BOOLEAN
      /\ blocks = <<>> /\ slot = <<>> /\ byId = <<>> /\ saw = {}
      /\ item = [i \in Items |-> "new"] /\ sent = [i \in Items |-> 0]
      /\ told = [i \in Items |-> {}] /\ api \in Apis
  BY DEF Init, StreamInit, HttpInit, AssemblyInit
<1>2. script \in [content : Seq(ScriptedBlocks), stop : {"stop", "error"}, said : Nat]
      /\ script.said = 0
  <2>1. <<>> \in Seq(ScriptedBlocks) /\ 0 \in Nat /\ N \in Nat
    BY EmptySeq, AssemblyAssumption
  <2>2. CASE script = NoScript
    BY <2>1, <2>2 DEF NoScript
  <2>3. CASE script \in Scripts
    <3>1. PICK n \in 0..N : script.content \in [1..n -> ScriptedBlocks]
      BY <2>3 DEF Scripts
    <3>2. script.content \in Seq(ScriptedBlocks)
      BY <2>1, <3>1
    <3> QED
      BY <2>1, <2>3, <3>2 DEF Scripts
  <2> QED
    BY <2>2, <2>3 DEF Init
<1>3. <<>> \in Seq(Content) /\ <<>> \in Seq(Told) /\ <<>> \in Seq(Events) /\ Len(<<>>) = 0
      /\ DOMAIN <<>> = {}
  BY EmptySeq
<1>4. view \in Views
  BY <1>1, <1>3 DEF Views
<1>5. DataOK
  BY <1>1, <1>2, <1>3 DEF DataOK
<1>6. Assembled
  <2>1. \A i \in Items : item[i] = "new" /\ sent[i] = 0 /\ told[i] = {}
    BY <1>1
  <2> QED
    BY <1>1, <1>3, <1>5, <2>1 DEF Assembled, Homes, Slots, Ids, OneOfAKind, Flags
<1>7. Produced = view
  <2>1. ProducedSays
    BY <1>5, ProducedFields
  <2>2. /\ Produced \in Views /\ Produced.phase = view.phase /\ Produced.closed = view.closed
        /\ Produced.final = view.final /\ Len(Produced.blocks) = Len(view.blocks)
        /\ Len(view.blocks) = 0
    BY <1>1, <1>3, <2>1 DEF ProducedSays
  <2> QED
    BY <1>4, <2>2, SameView
<1>8. OnTheWay
  BY <1>1, <1>4, <1>7, PathEmpty DEF OnTheWay
<1>9. Flow
  BY <1>1, <1>2, <1>3, <1>4, <1>8
     DEF Flow, StreamOK, Control, Fresh, SaidSoFar, DoneServed, FinalFaithful, Waiting, Apis
<1> QED
  BY <1>6, <1>9 DEF ProviderInv

\* At every moment the message is well-formed, and the events on their way to
\* the consumer lead, by legal steps, from what it has been told to what has been
\* produced.
THEOREM ProviderInvariant == Spec => []ProviderInv
<1> QED
  BY ProviderInvInit, ProviderInvNext, PTL DEF Spec

\* What the server sent is what the consumer is told, under whatever index or
\* id the fragments came; the message in a terminal event is the one told piece by
\* piece; and no answer that broke off is Done (the loops of run_stream and
\* faux.rs).
THEOREM TrueAnswers == Spec => []AnswerIsTrue
<1>1. ProviderInv => AnswerIsTrue
  <2> SUFFICES ASSUME ProviderInv PROVE AnswerIsTrue
    OBVIOUS
  <2>1. FragmentsStayHome
    <3>1. Homes /\ DataOK
      BY DEF ProviderInv, Assembled
    <3>2. ASSUME NEW i \in Items, sent[i] > 0, api # "faux"
          PROVE  \E b \in DOMAIN blocks : blocks[b].item = i
      <4>1. item[i] # "new"
        BY <3>1, <3>2 DEF Homes
      <4> QED
        BY <3>1, <3>2, <4>1 DEF Homes
    <3> QED
      BY <3>1, <3>2 DEF FragmentsStayHome, Homes
  <2>2. FinalIsWhatWasTold
    BY DEF ProviderInv, Flow, FinalFaithful, FinalIsWhatWasTold, Faithful
  <2>3. DoneMeansServed
    BY DEF ProviderInv, Assembled, DataOK, Apis, Flow, DoneServed, Served, DoneMeansServed
  <2> QED
    BY <2>1, <2>2, <2>3 DEF AnswerIsTrue
<1> QED
  BY <1>1, ProviderInvariant, PTL

-----------------------------------------------------------------------------
(* The contract, and what a cancellation leaves possible.                  *)

\* Only the consumer's steps change what it has been told.
LEMMA ViewStays ==
  ASSUME Http \/ Reading \/ Assemble \/ Faux \/ UserCancels
  PROVE  UNCHANGED view
<1>1. CASE Http
  <2>1. CASE Answer
    BY <2>1, AnswerLeads DEF Fail, Stay, streamVars
  <2>2. CASE Enter \/ Send \/ SendFails \/ WakeAndRetry \/ BodyRead \/ CancelledWhileWaiting
    BY <2>2 DEF Enter, Send, SendFails, WakeAndRetry, BodyRead, CancelledWhileWaiting, Fail, Stay,
                streamVars
  <2> QED
    BY <1>1, <2>1, <2>2 DEF Http, HttpStep
<1>2. CASE Reading
  BY <1>2 DEF Reading, ReadFails, CancelledWhileReading, Fail
<1>3. CASE Assemble /\ api = "anthropic"
  BY <1>3 DEF Assemble, AnthropicStep, MessageStart, MessageDelta, MessageStop, AnthropicEnd,
              ContentBlockDelta, ContentBlockStop, ContentBlockStart, Emit, Fail, Finish
<1>4. CASE Assemble /\ api = "completions"
  <2>1. CASE FinishReason
    BY <2>1 DEF FinishReason, Emit
  <2>2. CASE CompletionsEnd
    BY <2>2 DEF CompletionsEnd, Finish
  <2>3. ASSUME NEW i \in Items, NEW k \in {"text", "thinking"}, ContentDelta(i, k)
        PROVE  UNCHANGED view
    BY <2>3, Zenon DEF ContentDelta, Emit
  <2>4. ASSUME NEW i \in Items, NEW index \in BOOLEAN, NEW id \in {0, OwnId(i), OtherId(i)},
               NEW n \in 0..1, ToolCallDelta(i, index, id, n)
        PROVE  UNCHANGED view
    BY <2>4, Zenon DEF ToolCallDelta, Emit
  <2> QED
    BY <1>4, <2>1, <2>2, <2>3, <2>4 DEF Assemble, CompletionsStep
<1>5. CASE Assemble /\ api = "responses"
  BY <1>5 DEF Assemble, ResponsesStep, ResponseCompleted, ResponseFailed, ResponsesEnd,
              OutputDelta, ArgumentsDone, OutputItemAdded, OutputItemDone, Emit, Fail, Finish
<1>6. CASE Faux
  BY <1>6 DEF Faux, FauxStep, FauxStart, FauxChunk, FauxUnchanged
<1>7. CASE UserCancels
  BY <1>7 DEF UserCancels, Cancel, streamVars
<1> QED
  BY <1>1, <1>2, <1>3, <1>4, <1>5, <1>6, <1>7 DEF Assemble

\* A step of the stream is a step of the contract or none.
LEMMA StepsKeepContract ==
  ProviderInv /\ [Next]_vars => [Contract!Next]_Contract!vars
<1> SUFFICES ASSUME ProviderInv, [Next]_vars PROVE [Contract!Next]_Contract!vars
  OBVIOUS
<1>1. CASE UNCHANGED view
  BY <1>1 DEF Contract!vars
<1>2. CASE Consume
  <2>1. CASE Receive
    BY <2>1, ReceiveIsLegal, HeardIsContractStep DEF ProviderInv, Flow, StreamOK
  <2>2. CASE DeliverError(blocks)
    <3>1. PICK e \in Events : e = Terminal("error", blocks)
      BY <2>2, FailureIsLegal
    <3>2. Legal(api, view, e) /\ view' = Heard(view, e) /\ view \in Views
      BY <2>2, <3>1, FailureIsLegal DEF ProviderInv, Flow, StreamOK
    <3> QED
      BY <3>2, HeardIsContractStep
  <2>3. CASE Close
    <3>1. view.phase \in {"done", "error"} /\ ~view.closed /\ view \in Views
      BY <2>3, CloseIsLegal DEF ProviderInv, Flow, StreamOK
    <3>2. view' = [view EXCEPT !.closed = TRUE]
      BY <2>3 DEF Close
    <3>3. view'.phase = view.phase /\ view'.blocks = view.blocks
      BY <3>1, <3>2 DEF Views
    <3>4. view'.closed
      BY <3>1, <3>2 DEF Views
    <3>5. Contract!Close
      BY <3>1, <3>3, <3>4 DEF Contract!Close
    <3> QED
      BY <3>5 DEF Contract!Next
  <2> QED
    BY <1>2, <2>1, <2>2, <2>3 DEF Consume
<1>3. CASE UNCHANGED vars
  BY <1>1, <1>3 DEF vars, streamVars
<1> QED
  BY <1>1, <1>2, <1>3, ViewStays DEF Next, Ended

\* The stream implements the contract of its consumers: whatever the provider,
\* the interleaving of items, the failures, the retries and the moment of a
\* cancellation (utils/event_stream.rs and the four providers).
THEOREM ContractKept == Spec => KeepsContract
<1>1. Init => Contract!Init
  BY DEF Init, StreamInit, Contract!Init
<1> QED
  BY <1>1, ProviderInvariant, StepsKeepContract, PTL DEF Spec, KeepsContract, Contract!Spec

\* No success among events that are pushed: none more in the channel.
LEMMA PushedNoDone ==
  ASSUME ProviderInv, pc # "returned", NEW es \in Seq(Events),
         \A n \in 1..Len(es) : n < Len(es) => ~IsTerminal(es[n]),
         \A n \in 1..Len(es) : es[n].type # "done", Push(es), DonePushed'
  PROVE  DonePushed
<1>1. chan \in Seq(Events) /\ sender
  BY Working
<1>2. chan' = chan \o es
  BY <1>1, PushAll
<1>3. PICK n \in DOMAIN chan' : chan'[n].type = "done"
  BY DEF DonePushed
<1>4. /\ Len(chan) \in Nat /\ Len(es) \in Nat /\ n \in 1..(Len(chan) + Len(es))
      /\ DOMAIN chan = 1..Len(chan)
      /\ chan'[n] = IF n <= Len(chan) THEN chan[n] ELSE es[n - Len(chan)]
  BY <1>1, <1>2, <1>3, ConcatProperties, LenProperties
<1>5. n <= Len(chan)
  <2>1. SUFFICES ASSUME ~(n <= Len(chan)) PROVE FALSE
    OBVIOUS
  <2>2. n - Len(chan) \in 1..Len(es)
    BY <1>4, <2>1
  <2> QED
    BY <1>3, <1>4, <2>1, <2>2
<1>6. n \in DOMAIN chan
  BY <1>4, <1>5
<1> QED
  BY <1>3, <1>4, <1>5, <1>6 DEF DonePushed

\* What NothingAfterCancel asks of a step.
Quiet ==
  cancelled => /\ pc # "sending" => pc' # "sending"
               /\ DonePushed' => DonePushed

\* A step that pushes nothing and sends nothing is quiet.
LEMMA ChanStays ==
  ASSUME UNCHANGED chan, cancelled /\ pc # "sending" => pc' # "sending"
  PROVE  Quiet
BY DEF Quiet, DonePushed

\* Every step after a cancellation is quiet.
LEMMA StepsAreQuiet == ProviderInv /\ [Next]_vars => Quiet
<1> SUFFICES ASSUME ProviderInv, [Next]_vars, cancelled PROVE Quiet
  BY DEF Quiet
<1>1. CASE Http
  <2>1. CASE Answer
    <3>1. pc = "sending"
      BY <2>1 DEF Answer, Running
    <3>2. CASE UNCHANGED chan
      BY <3>1, <3>2, ChanStays
    <3>3. CASE Push(<<Start>>)
      <4>1. Start \in Events /\ Start.type = "start"
        BY DEF Start, Events
      <4>2. /\ <<Start>> \in Seq(Events)
            /\ \A n \in 1..Len(<<Start>>) : ~IsTerminal(<<Start>>[n]) /\ <<Start>>[n].type # "done"
        BY <4>1 DEF IsTerminal
      <4>3. DonePushed' => DonePushed
        BY <3>1, <3>3, <4>2, PushedNoDone
      <4> QED
        BY <3>1, <4>3 DEF Quiet
    <3> QED
      BY <2>1, <3>2, <3>3, AnswerLeads DEF Fail, Stay, streamVars
  <2>2. CASE Enter \/ Send \/ SendFails \/ WakeAndRetry \/ BodyRead \/ CancelledWhileWaiting
    <3>1. UNCHANGED chan /\ pc' # "sending"
      BY <2>2 DEF Enter, Send, SendFails, WakeAndRetry, BodyRead, CancelledWhileWaiting, Fail,
                  Stay, streamVars
    <3> QED
      BY <3>1, ChanStays
  <2> QED
    BY <1>1, <2>1, <2>2 DEF Http, HttpStep
<1>2. CASE Reading
  BY <1>2, ChanStays DEF Reading, ReadFails, CancelledWhileReading, Fail
<1>3. CASE Assemble /\ api = "anthropic"
  <2>1. AnthropicEnd
    BY <1>3 DEF Assemble, AnthropicStep, MessageStart, MessageDelta, MessageStop,
                ContentBlockDelta, ContentBlockStop, ContentBlockStart, Event, MessageEvent, Arrives
  <2>2. UNCHANGED chan /\ pc' = "returned"
    BY <2>1 DEF AnthropicEnd, Fail
  <2> QED
    BY <2>2, ChanStays
<1>4. CASE Assemble /\ api = "completions"
  <2>1. CompletionsEnd
    BY <1>4 DEF Assemble, CompletionsStep, FinishReason, ContentDelta, ToolCallDelta,
                Event, MessageEvent, Arrives
  <2>2. Push(FinishOpenBlocks) /\ pc = "reading" /\ pc' = "returned"
    BY <2>1 DEF CompletionsEnd, EndsBadly, Running
  <2>3. blocks \in Seq(Content)
    BY DEF ProviderInv, Assembled, DataOK
  <2>4. PICK es : es = FinishOpenBlocks
    OBVIOUS
  <2>5. es \in Seq(Events) /\ \A n \in 1..Len(es) : ~IsTerminal(es[n])
    <3>1. es = [b \in DOMAIN blocks |-> BlockEnd(b, blocks[b].kind, blocks[b].len)]
      BY <2>4 DEF FinishOpenBlocks, EndOf
    <3> QED
      BY <2>3, <3>1, ViewOfEndsAll
  <2>6. DonePushed' => DonePushed
    <3>1. Push(es) /\ pc # "returned"
      BY <2>2, <2>4
    <3>2. \A n \in 1..Len(es) : es[n].type # "done"
      BY <2>5 DEF IsTerminal
    <3> QED
      BY <2>5, <3>1, <3>2, PushedNoDone
  <2> QED
    BY <2>2, <2>6 DEF Quiet
<1>5. CASE Assemble /\ api = "responses"
  <2>1. ResponsesEnd
    BY <1>5 DEF Assemble, ResponsesStep, ResponseCompleted, ResponseFailed, OutputDelta,
                ArgumentsDone, OutputItemAdded, OutputItemDone, Event, MessageEvent, Arrives
  <2>2. UNCHANGED chan /\ pc' = "returned"
    BY <2>1 DEF ResponsesEnd, Fail
  <2> QED
    BY <2>2, ChanStays
<1>6. CASE Faux
  <2>1. PICK content \in Seq(Content) : FauxEnd(<<>>, "error", content)
    <3>1. blocks \in Seq(Content) /\ <<>> \in Seq(Content)
      BY EmptySeq DEF ProviderInv, Assembled, DataOK
    <3> QED
      BY <1>6, <3>1 DEF Faux, FauxStep, FauxStart, FauxChunk
  <2> DEFINE e == Terminal("error", content)
  <2>2. e \in Events /\ e.type = "error" /\ Push(Append(<<>>, e)) /\ pc' = "returned"
    BY <2>1 DEF FauxEnd, Terminal, Events
  <2> HIDE DEF e
  <2>3. Append(<<>>, e) = <<e>>
    OBVIOUS
  <2>4. Push(<<e>>) /\ <<e>> \in Seq(Events) /\ Len(<<e>>) = 1 /\ <<e>>[1] = e
    BY <2>2, <2>3
  <2>5. pc # "returned"
    BY <1>6 DEF Faux, FauxStep, FauxStart, FauxChunk, FauxRunning
  <2>6. PICK es : es = <<e>>
    OBVIOUS
  <2>7. /\ es \in Seq(Events) /\ Push(es)
        /\ \A n \in 1..Len(es) : n < Len(es) => ~IsTerminal(es[n])
        /\ \A n \in 1..Len(es) : es[n].type # "done"
    BY <2>2, <2>4, <2>6
  <2>8. DonePushed' => DonePushed
    BY <2>5, <2>7, PushedNoDone
  <2> QED
    BY <2>2, <2>8 DEF Quiet
<1>7. CASE UserCancels
  BY <1>7 DEF UserCancels, Cancel
<1>8. CASE Consume
  <2>1. pc' = pc
    BY <1>8 DEF Consume, httpVars
  <2>2. CASE Receive
    <3>1. chan # <<>> /\ chan' = Tail(chan) /\ chan \in Seq(Events)
      BY <2>2 DEF Receive, ProviderInv, Flow, StreamOK
    <3>2. /\ Len(chan) \in Nat /\ DOMAIN chan' = 1..(Len(chan) - 1) /\ DOMAIN chan = 1..Len(chan)
          /\ \A n \in 1..(Len(chan) - 1) : chan'[n] = chan[n + 1]
      BY <3>1, HeadTailProperties, LenProperties
    <3>3. \A n \in DOMAIN chan' : n + 1 \in DOMAIN chan /\ chan'[n] = chan[n + 1]
      BY <3>2
    <3>4. DonePushed' => DonePushed
      BY <3>3 DEF DonePushed
    <3> QED
      BY <2>1, <3>4 DEF Quiet
  <2>3. CASE DeliverError(blocks) \/ Close
    BY <2>1, <2>3, ChanStays DEF DeliverError, Close
  <2> QED
    BY <1>8, <2>2, <2>3 DEF Consume
<1>9. CASE UNCHANGED vars
  BY <1>9, ChanStays DEF vars, streamVars, httpVars
<1> QED
  BY <1>1, <1>2, <1>3, <1>4, <1>5, <1>6, <1>7, <1>8, <1>9 DEF Next, Ended, Assemble

\* Once the token is cancelled no request is sent and no success is pushed
\* (send_with_retry_config and the looks at the token of each loop).
THEOREM CancelledIsQuiet == Spec => NothingAfterCancel
<1>1. ProviderInv /\ [Next]_vars =>
        [cancelled => /\ pc # "sending" => pc' # "sending"
                      /\ DonePushed' => DonePushed]_vars
  BY StepsAreQuiet DEF Quiet
<1> QED
  BY <1>1, ProviderInvariant, PTL DEF Spec, NothingAfterCancel

=============================================================================
