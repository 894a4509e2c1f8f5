---------------------------- MODULE AgentEvents ----------------------------
(***************************************************************************)
(* Listeners of an Agent (agent.rs): subscriptions that come and go while  *)
(* events are told.  The loop emits one event at a time; a tool's update   *)
(* is emitted by a task of its own beside it, and may outlive the run      *)
(* (finding 2 of the README).                                              *)
(*                                                                         *)
(* An emission brings the agent's state up to date, copies the list of     *)
(* listeners, reads the run's token, and then calls and awaits the         *)
(* listeners of the copy in turn; an error ends it.  A listener may        *)
(* subscribe others or drop any subscription, its own included: no lock is *)
(* held while it runs.                                                     *)
(***************************************************************************)
EXTENDS Naturals, SequencesExt, SequenceTheorems, TLAPS

CONSTANTS
  MaxListeners, \* bound: subscriptions
  MaxEmissions, \* bound: events of the loop, and updates
  MaxStarts     \* bound: runs

Emitters == {"loop", "update"}

VARIABLES
  listeners, \* the registered ones, in order
  came,      \* listeners that have subscribed; each is named by its number
  started,   \* runs so far
  token,     \* active_token: the number of its run, 0 for None
  emission   \* the emission each emitter is in, or was in last

vars == <<listeners, came, started, token, emission>>

(* run: the run an event belongs to; given: the token told with it; todo:  *)
(* the copy's listeners still to be called; told: the listeners called.    *)
(* Followed for the properties: the listeners that were registered at some *)
(* time (within) and all the time (through) since the emission began.      *)
NoEmission ==
  [at |-> "none", count |-> 0, run |-> 0, given |-> 0, todo |-> <<>>,
   told |-> <<>>, within |-> {}, through |-> {}]

Init ==
  /\ listeners = <<>> /\ came = 0
  /\ started = 0 /\ token = 0
  /\ emission = [e \in Emitters |-> NoEmission]

Resting(e) == emission[e].at \in {"none", "done", "failed"}

\* subscribe
Subscribe ==
  /\ came < MaxListeners
  /\ came' = came + 1
  /\ listeners' = Append(listeners, came')
  /\ emission' = [e \in Emitters |-> [emission[e] EXCEPT !.within = @ \union {came'}]]
  /\ UNCHANGED <<started, token>>

\* unsubscribe, or the subscription is dropped: an id is in the list once
Unsubscribe(l) ==
  /\ \E i \in DOMAIN listeners : listeners[i] = l /\ listeners' = RemoveAt(listeners, i)
  /\ emission' = [e \in Emitters |-> [emission[e] EXCEPT !.through = @ \ {l}]]
  /\ UNCHANGED <<came, started, token>>

Acquire ==
  /\ token = 0 /\ started < MaxStarts
  /\ started' = started + 1
  /\ token' = started'
  /\ UNCHANGED <<listeners, came, emission>>

\* The loop and its failure report are over; an update may not be.
Release ==
  /\ token # 0 /\ Resting("loop")
  /\ token' = 0
  /\ UNCHANGED <<listeners, came, started, emission>>

\* The sink is called: the event goes into the agent's state.
Emit(e) ==
  /\ token # 0 /\ Resting(e) /\ emission[e].count < MaxEmissions
  /\ emission' = [emission EXCEPT ![e] =
       [NoEmission EXCEPT !.at = "applied", !.count = emission[e].count + 1, !.run = token,
                          !.within = ToSet(listeners), !.through = ToSet(listeners)]]
  /\ UNCHANGED <<listeners, came, started, token>>

CopyListeners(e) ==
  /\ emission[e].at = "applied"
  /\ emission' = [emission EXCEPT ![e].at = "copied", ![e].todo = listeners]
  /\ UNCHANGED <<listeners, came, started, token>>

\* "agent listener invoked outside active run" when there is no token
ReadToken(e) ==
  /\ emission[e].at = "copied"
  /\ emission' = [emission EXCEPT ![e].at = IF token = 0 THEN "failed" ELSE "telling",
                                  ![e].given = token]
  /\ UNCHANGED <<listeners, came, started, token>>

(* A plausible bug: the listeners are taken from the live list by their    *)
(* place in it, instead of from the copy.                                  *)
LeftLive(x) == SubSeq(listeners, Len(x.told) + 1, Len(listeners))

Left(x) == x.todo

Tell(e) ==
  LET x == emission[e] IN
  /\ x.at = "telling"
  /\ emission' = [emission EXCEPT ![e] =
       IF Left(x) = <<>> THEN [x EXCEPT !.at = "done"]
       ELSE [x EXCEPT !.at = "awaiting", !.told = Append(@, Head(Left(x))),
                      !.todo = Tail(Left(x))]]
  /\ UNCHANGED <<listeners, came, started, token>>

\* The future of the listener is ready; its error is the emission's.
Return(e) ==
  /\ emission[e].at = "awaiting"
  /\ \E next \in {"telling", "failed"} : emission' = [emission EXCEPT ![e].at = next]
  /\ UNCHANGED <<listeners, came, started, token>>

Next ==
  \/ Subscribe
  \/ \E l \in 1 .. came : Unsubscribe(l)
  \/ Acquire \/ Release
  \/ \E e \in Emitters :
       Emit(e) \/ CopyListeners(e) \/ ReadToken(e) \/ Tell(e) \/ Return(e)

Spec == Init /\ [][Next]_vars

-----------------------------------------------------------------------------
(***************************************************************************)
(* Properties.                                                             *)
(***************************************************************************)

(* README: "Agent::subscribe listeners are awaited in registration order". *)
(* An emission that comes to its end has told its event to every listener  *)
(* that was subscribed throughout, and to nobody who left before it or     *)
(* came after it; each hears it once, after everyone registered before it  *)
(* has heard it, also when listeners come and go meanwhile or one of them  *)
(* fails.  The loop always finds a token, and it is its own run's.         *)
ListenersHearEvents ==
  \A e \in Emitters : LET x == emission[e] IN
    /\ ToSet(x.told) \subseteq x.within
    /\ x.at = "done" => x.through \subseteq ToSet(x.told)
    /\ \A i, j \in DOMAIN x.told : i < j => x.told[i] < x.told[j]
    /\ \A i \in DOMAIN x.told, l \in x.through :
         l < x.told[i] => \E j \in 1 .. i - 1 : x.told[j] = l
    /\ e = "loop" /\ x.at \in {"telling", "awaiting", "done"} => x.given = x.run
    /\ e = "loop" /\ x.at = "failed" => x.told # <<>>

-----------------------------------------------------------------------------
(***************************************************************************)
(* ListenersHearEvents, for all bounds.  A copy of the list is ordered as  *)
(* the list is, by the numbers of the listeners; at every moment those     *)
(* that were there throughout have been told or are still to be told, and  *)
(* whoever has been told comes before whoever is still to be.              *)
(***************************************************************************)
Stages == {"none", "applied", "copied", "telling", "awaiting", "done", "failed"}

Emission ==
  [at : Stages, count : Nat, run : Nat, given : Nat, todo : Seq(Nat), told : Seq(Nat),
   within : SUBSET Nat, through : SUBSET Nat]

Increasing(s) == \A m, n \in DOMAIN s : m < n => s[m] < s[n]

(* An emission of e, when the listeners of R are registered and the token  *)
(* is that of run k.                                                       *)
Good(e, x, R, k) ==
  /\ Increasing(x.told) /\ Increasing(x.todo)
  /\ \A a \in ToSet(x.told), b \in ToSet(x.todo) : a < b
  /\ ToSet(x.told) \cup ToSet(x.todo) \subseteq x.within
  /\ x.through \subseteq R
  /\ x.at = "applied" => R \subseteq x.within
  /\ IF x.at \in {"none", "applied"} THEN x.told = <<>> /\ x.todo = <<>>
     ELSE x.through \subseteq ToSet(x.told) \cup ToSet(x.todo)
  /\ x.at = "done" => x.todo = <<>>
  /\ e = "loop" =>
       /\ x.at \in {"applied", "copied", "telling", "awaiting"} => k = x.run /\ k # 0
       /\ x.at \in {"telling", "awaiting", "done"} => x.given = x.run
       /\ x.at \in {"awaiting", "failed"} => x.told # <<>>

ListInv ==
  /\ listeners \in Seq(Nat) /\ Increasing(listeners)
  /\ came \in Nat /\ \A a \in ToSet(listeners) : a <= came
  /\ started \in Nat /\ token \in Nat

EventsInv ==
  /\ ListInv
  /\ emission \in [Emitters -> Emission]
  /\ \A e \in Emitters : Good(e, emission[e], ToSet(listeners), token)

\* What an empty sequence holds.
LEMMA Nothing == ToSet(<<>>) = {} /\ Increasing(<<>>)
BY DEF ToSet, Increasing

\* A number beyond those of a sequence is appended.
LEMMA Appended ==
  ASSUME NEW s \in Seq(Nat), NEW c \in Nat
  PROVE  /\ Append(s, c) \in Seq(Nat) /\ Append(s, c) # <<>>
         /\ ToSet(Append(s, c)) = ToSet(s) \cup {c}
         /\ Increasing(s) /\ (\A a \in ToSet(s) : a < c) => Increasing(Append(s, c))
<1> DEFINE r == Append(s, c)
<1>1. /\ r \in Seq(Nat) /\ Len(s) \in Nat /\ DOMAIN s = 1..Len(s)
      /\ DOMAIN r = 1..(Len(s) + 1) /\ r[Len(s) + 1] = c
      /\ \A n \in 1..Len(s) : r[n] = s[n]
  BY LenProperties, AppendProperties
<1>2. r # <<>>
  <2>1. Len(r) = Len(s) + 1
    BY AppendProperties
  <2> HIDE DEF r
  <2>2. Len(r) # 0
    BY <1>1, <2>1
  <2> QED
    BY <2>2, EmptySeq
<1> HIDE DEF r
<1>3. PICK k : k \in DOMAIN r /\ r[k] = c /\ k \notin DOMAIN s
               /\ \A n \in DOMAIN r : n = k \/ n \in DOMAIN s
  BY <1>1
<1>4. \A n \in DOMAIN s : n \in DOMAIN r /\ r[n] = s[n]
  BY <1>1
<1>5. ToSet(r) = ToSet(s) \cup {c}
  BY <1>3, <1>4 DEF ToSet
<1>6. \A m, n \in DOMAIN r : m < n => m \in DOMAIN s
  BY <1>1
<1>7. Increasing(s) /\ (\A a \in ToSet(s) : a < c) => Increasing(r)
  BY <1>3, <1>4, <1>6 DEF ToSet, Increasing
<1> QED
  BY <1>1, <1>2, <1>5, <1>7 DEF r

\* The first of a sequence is taken.
LEMMA Taken ==
  ASSUME NEW s \in Seq(Nat), s # <<>>, Increasing(s)
  PROVE  /\ Head(s) \in Nat /\ Tail(s) \in Seq(Nat)
         /\ ToSet(s) = {Head(s)} \cup ToSet(Tail(s))
         /\ Increasing(Tail(s)) /\ \A b \in ToSet(Tail(s)) : Head(s) < b
<1> DEFINE r == Tail(s)
<1>1. /\ r \in Seq(Nat) /\ Len(s) \in Nat /\ Len(s) >= 1 /\ DOMAIN s = 1..Len(s)
      /\ DOMAIN r = 1..(Len(s) - 1) /\ Head(s) = s[1] /\ Head(s) \in Nat
      /\ \A n \in 1..(Len(s) - 1) : r[n] = s[n + 1]
  BY LenProperties, HeadTailProperties, EmptySeq
<1> HIDE DEF r
<1>2. PICK x : x = Head(s) /\ x = s[1] /\ 1 \in DOMAIN s
  BY <1>1
<1>3. \A n \in DOMAIN r : n + 1 \in DOMAIN s /\ 1 < n + 1 /\ r[n] = s[n + 1]
  BY <1>1
<1>4. \A n \in DOMAIN s : n # 1 => n - 1 \in DOMAIN r /\ r[n - 1] = s[n]
  BY <1>1
<1>5. ToSet(s) = {x} \cup ToSet(r)
  <2>1. \A n \in DOMAIN s : s[n] = x \/ \E k \in DOMAIN r : r[k] = s[n]
    BY <1>2, <1>4
  <2>2. \A n \in DOMAIN r : \E k \in DOMAIN s : s[k] = r[n]
    BY <1>3
  <2> QED
    BY <1>2, <2>1, <2>2 DEF ToSet
<1>6. \A b \in ToSet(r) : x < b
  BY <1>2, <1>3 DEF ToSet, Increasing
<1>7. \A m, n \in DOMAIN r : m < n => m + 1 < n + 1
  BY <1>1
<1>8. Increasing(r)
  BY <1>3, <1>7 DEF Increasing
<1> QED
  BY <1>1, <1>2, <1>5, <1>6, <1>8 DEF r

\* One of a sequence is taken out.
LEMMA TakenOut ==
  ASSUME NEW s \in Seq(Nat), Increasing(s), NEW i \in DOMAIN s
  PROVE  /\ RemoveAt(s, i) \in Seq(Nat) /\ Increasing(RemoveAt(s, i))
         /\ ToSet(RemoveAt(s, i)) = ToSet(s) \ {s[i]}
<1> DEFINE a == SubSeq(s, 1, i - 1)
           b == SubSeq(s, i + 1, Len(s))
           r == a \o b
<1>1. Len(s) \in Nat /\ DOMAIN s = 1..Len(s) /\ i \in 1..Len(s) /\ i \in Nat
  BY LenProperties
<1>2. \A n \in DOMAIN s : s[n] \in Nat
  BY <1>1, ElementOfSeq
<1>3. /\ a \in Seq(Nat) /\ Len(a) = i - 1 /\ \A n \in 1..(i - 1) : a[n] = s[n]
  <2>1. \A n \in 1..(i - 1) : s[n] \in Nat
    BY <1>2, <1>1
  <2>2. 1 \in Int /\ i - 1 \in Int /\ i - 1 >= 0 /\ i - 1 - 1 + 1 = i - 1
    BY <1>1
  <2>3. /\ a \in Seq(Nat) /\ Len(a) = IF 1 <= i - 1 THEN i - 1 - 1 + 1 ELSE 0
        /\ \A n \in 1..(i - 1 - 1 + 1) : a[n] = s[1 + n - 1]
    BY <2>1, <2>2, SubSeqProperties
  <2> HIDE DEF a
  <2> QED
    BY <2>2, <2>3
<1>4. /\ b \in Seq(Nat) /\ Len(b) = Len(s) - i /\ \A n \in 1..(Len(s) - i) : b[n] = s[n + i]
  <2>1. \A n \in (i + 1)..Len(s) : s[n] \in Nat
    BY <1>2, <1>1
  <2>2. i + 1 \in Int /\ Len(s) \in Int /\ Len(s) - (i + 1) + 1 = Len(s) - i
    BY <1>1
  <2>3. /\ b \in Seq(Nat)
        /\ Len(b) = IF i + 1 <= Len(s) THEN Len(s) - (i + 1) + 1 ELSE 0
        /\ \A n \in 1..(Len(s) - (i + 1) + 1) : b[n] = s[i + 1 + n - 1]
    BY <2>1, <2>2, SubSeqProperties, SMTT(20)
  <2> HIDE DEF b
  <2>4. Len(b) = Len(s) - i
    <3>1. Len(s) \in Int /\ i \in Int /\ i <= Len(s)
      BY <1>1
    <3>2. (IF i + 1 <= Len(s) THEN Len(s) - (i + 1) + 1 ELSE 0) = Len(s) - i
      BY <3>1
    <3> QED
      BY <2>3, <3>2
  <2>5. \A n \in 1..(Len(s) - i) : i + 1 + n - 1 = n + i
    BY <1>1
  <2>6. \A n \in 1..(Len(s) - i) : b[n] = s[n + i]
    BY <2>2, <2>3, <2>5
  <2> QED
    BY <2>3, <2>4, <2>6
<1> HIDE DEF a, b
<1>5. /\ r \in Seq(Nat) /\ Len(r) = Len(s) - 1 /\ DOMAIN r = 1..Len(r)
      /\ \A n \in 1..Len(r) : r[n] = IF n <= Len(a) THEN a[n] ELSE b[n - Len(a)]
  <2>1. r \in Seq(Nat)
    BY <1>3, <1>4, ConcatProperties
  <2>2. Len(r) = Len(a) + Len(b)
    BY <1>3, <1>4, ConcatProperties
  <2>3. \A n \in 1..(Len(a) + Len(b)) : r[n] = IF n <= Len(a) THEN a[n] ELSE b[n - Len(a)]
    BY <1>3, <1>4, ConcatProperties
  <2>4. DOMAIN r = 1..Len(r)
    BY <2>1, LenProperties
  <2> HIDE DEF r
  <2> QED
    BY <1>1, <1>3, <1>4, <2>1, <2>2, <2>3, <2>4
<1> HIDE DEF r
<1>6. PICK p, q : p = Len(a) /\ q = Len(s) /\ p = i - 1 /\ p \in Int /\ q \in Int
  BY <1>1, <1>3
<1>7. DOMAIN r = 1..(q - 1) /\ Len(r) = q - 1 /\ DOMAIN s = 1..q /\ i \in 1..q
  BY <1>1, <1>5, <1>6
<1>8. ASSUME NEW n \in DOMAIN r
      PROVE  /\ n \in Nat /\ r[n] = IF n < i THEN s[n] ELSE s[n + 1]
             /\ n \in DOMAIN s /\ n + 1 \in DOMAIN s
  <2>1. n \in Nat /\ n >= 1 /\ n <= Len(s) - 1
    BY <1>1, <1>5
  <2>2. CASE n < i
    <3>1. n \in 1..(q - 1) /\ n <= p /\ n \in 1..(i - 1) /\ n \in 1..q /\ n + 1 \in 1..q
      <4>1. q \in Int /\ p = i - 1 /\ i \in Int /\ i <= q
        BY <1>1, <1>6
      <4>2. n \in Int /\ n >= 1 /\ n <= q - 1 /\ n < i
        BY <1>6, <2>1, <2>2
      <4> QED
        BY <4>1, <4>2
    <3>2. r[n] = a[n]
      BY <1>5, <1>6, <1>7, <3>1
    <3>3. a[n] = s[n]
      BY <1>3, <3>1
    <3> QED
      BY <1>7, <2>1, <2>2, <3>1, <3>2, <3>3
  <2>3. CASE ~(n < i)
    <3>1. PICK k : k = n - Len(a) /\ k = n - p
      BY <1>6
    <3>2. /\ n \in 1..(q - 1) /\ ~(n <= p) /\ k \in 1..(q - i) /\ k + i = n + 1
          /\ n \in 1..q /\ n + 1 \in 1..q
      <4>1. q \in Int /\ p = i - 1
        BY <1>6
      <4>2. n <= q - 1
        BY <1>6, <2>1
      <4>3. i \in Int /\ i >= 1 /\ i <= q
        BY <1>1, <1>6
      <4>4. n \in Int /\ n >= i
        BY <2>1, <2>3, <4>3
      <4>5. k = n - p
        BY <3>1
      <4> QED
        BY <4>1, <4>2, <4>3, <4>4, <4>5, SMTT(20)
    <3>3. r[n] = b[k]
      BY <1>5, <1>6, <1>7, <3>1, <3>2
    <3>4. b[k] = s[k + i]
      BY <1>4, <1>6, <3>2
    <3> QED
      BY <1>7, <2>1, <2>3, <3>2, <3>3, <3>4
  <2> QED
    BY <2>2, <2>3
<1>9. \A m, n \in DOMAIN s : m < n => s[m] < s[n]
  BY DEF Increasing
<1>10. Increasing(r)
  <2> SUFFICES ASSUME NEW m \in DOMAIN r, NEW n \in DOMAIN r, m < n PROVE r[m] < r[n]
    BY DEF Increasing
  <2>1. PICK j, k : /\ j = (IF m < i THEN m ELSE m + 1) /\ k = (IF n < i THEN n ELSE n + 1)
    OBVIOUS
  <2>2. j \in DOMAIN s /\ k \in DOMAIN s /\ r[m] = s[j] /\ r[n] = s[k]
    BY <1>8, <2>1
  <2>3. j < k
    <3>1. m \in Nat /\ n \in Nat
      BY <1>8
    <3> QED
      BY <1>1, <2>1, <3>1
  <2> QED
    BY <1>9, <2>2, <2>3
<1>11. ToSet(r) \subseteq ToSet(s) \ {s[i]}
  <2> SUFFICES ASSUME NEW n \in DOMAIN r PROVE r[n] \in ToSet(s) /\ r[n] # s[i]
    BY DEF ToSet
  <2>1. PICK k \in DOMAIN s : r[n] = s[k] /\ (k < i \/ i < k)
    BY <1>1, <1>8
  <2>2. s[k] < s[i] \/ s[i] < s[k]
    BY <1>9, <2>1
  <2>3. s[k] \in Nat /\ s[i] \in Nat
    BY <1>2
  <2> QED
    BY <2>1, <2>2, <2>3 DEF ToSet
<1>12. ToSet(s) \ {s[i]} \subseteq ToSet(r)
  <2> SUFFICES ASSUME NEW k \in DOMAIN s, k # i PROVE \E n \in DOMAIN r : r[n] = s[k]
    BY DEF ToSet
  <2>1. CASE k < i
    <3>1. k \in DOMAIN r
      BY <1>1, <1>5, <2>1
    <3> QED
      BY <1>8, <2>1, <3>1
  <2>2. CASE ~(k < i)
    <3>1. k \in Nat /\ k > i /\ k <= Len(s)
      BY <1>1, <2>2
    <3>2. PICK n : n = k - 1
      OBVIOUS
    <3>3. n \in Nat /\ ~(n < i) /\ n + 1 = k /\ n >= 1 /\ n <= Len(s) - 1
      BY <1>1, <3>1, <3>2
    <3>4. n \in DOMAIN r
      BY <1>1, <1>5, <3>3
    <3> QED
      BY <1>8, <3>3, <3>4
  <2> QED
    BY <2>1, <2>2
<1> QED
  BY <1>5, <1>10, <1>11, <1>12 DEF a, b, r, RemoveAt

\* A step of one emission.
LEMMA OneEmission ==
  ASSUME EventsInv, NEW e \in Emitters, NEW y \in Emission, emission' = [emission EXCEPT ![e] = y],
         UNCHANGED <<listeners, came, started, token>>, Good(e, y, ToSet(listeners), token)
  PROVE  EventsInv'
BY DEF EventsInv, ListInv

\* An event reaches every listener that stays, once, in the order in which
\* they subscribed, and nobody else.
THEOREM EventsHeard == Spec => []ListenersHearEvents
<1>1. Init => EventsInv
  <2> SUFFICES ASSUME Init PROVE EventsInv
    OBVIOUS
  <2>1. ListInv
    BY Nothing DEF Init, ListInv
  <2>2. NoEmission \in Emission /\ \A e : Good(e, NoEmission, ToSet(<<>>), 0)
    BY Nothing DEF NoEmission, Emission, Stages, Good
  <2> QED
    BY <2>1, <2>2 DEF Init, EventsInv
<1>2. EventsInv /\ [Next]_vars => EventsInv'
  <2> SUFFICES ASSUME EventsInv, [Next]_vars PROVE EventsInv'
    OBVIOUS
  <2>1. /\ ListInv /\ emission \in [Emitters -> Emission]
        /\ \A e \in Emitters : emission[e] \in Emission
        /\ \A e \in Emitters : Good(e, emission[e], ToSet(listeners), token)
    BY DEF EventsInv
  <2>2. CASE UNCHANGED vars
    BY <2>1, <2>2 DEF vars, EventsInv, ListInv
  <2>3. CASE Subscribe
    <3>1. PICK n : n = came + 1
      OBVIOUS
    <3>2. n \in Nat /\ \A a \in ToSet(listeners) : a < n /\ a <= n
      <4>1. \A a \in ToSet(listeners) : a \in Nat /\ a <= came
        BY <2>1, LenProperties, ElementOfSeq DEF ListInv, ToSet
      <4> QED
        BY <2>1, <3>1, <4>1 DEF ListInv
    <3>3. /\ Append(listeners, n) \in Seq(Nat) /\ Increasing(Append(listeners, n))
          /\ ToSet(Append(listeners, n)) = ToSet(listeners) \cup {n}
      BY <2>1, <3>2, Appended DEF ListInv
    <3>4. came' = n /\ listeners' = Append(listeners, n) /\ UNCHANGED <<started, token>>
      BY <2>3, <3>1 DEF Subscribe
    <3>5. ListInv'
      <4>1. \A a \in ToSet(listeners') : a <= n
        BY <3>2, <3>3, <3>4
      <4> QED
        BY <2>1, <3>2, <3>3, <3>4, <4>1 DEF ListInv
    <3>6. ASSUME NEW e \in Emitters
          PROVE  /\ emission'[e] \in Emission
                 /\ Good(e, emission'[e], ToSet(listeners)', token')
      <4>1. PICK x, y : x = emission[e] /\ y = [x EXCEPT !.within = @ \union {n}]
        OBVIOUS
      <4>2. x \in Emission /\ Good(e, x, ToSet(listeners), token)
        BY <2>1, <4>1
      <4>3. /\ y \in Emission /\ y.within = x.within \cup {n}
            /\ y.told = x.told /\ y.todo = x.todo /\ y.through = x.through
            /\ y.at = x.at /\ y.run = x.run /\ y.given = x.given
        BY <3>2, <4>1, <4>2 DEF Emission
      <4>4. emission'[e] = y
        BY <2>3, <3>1, <3>4, <4>1 DEF Subscribe
      <4>5. ToSet(listeners)' = ToSet(listeners) \cup {n}
        BY <3>3, <3>4
      <4>6. Good(e, y, ToSet(listeners) \cup {n}, token)
        BY <4>2, <4>3 DEF Good
      <4> QED
        BY <3>4, <4>3, <4>4, <4>5, <4>6
    <3>7. emission' = [e \in Emitters |-> emission'[e]]
      BY <2>3 DEF Subscribe
    <3>8. emission' \in [Emitters -> Emission]
      BY <3>6, <3>7
    <3> QED
      BY <3>5, <3>6, <3>8 DEF EventsInv
  <2>4. ASSUME NEW l \in 1 .. came, Unsubscribe(l) PROVE EventsInv'
    <3>1. PICK i \in DOMAIN listeners : listeners[i] = l /\ listeners' = RemoveAt(listeners, i)
      BY <2>4 DEF Unsubscribe
    <3>2. /\ listeners' \in Seq(Nat) /\ Increasing(listeners')
          /\ ToSet(listeners') = ToSet(listeners) \ {l}
      BY <2>1, <3>1, TakenOut DEF ListInv
    <3>3. UNCHANGED <<came, started, token>>
      BY <2>4 DEF Unsubscribe
    <3>4. ListInv'
      BY <2>1, <3>2, <3>3 DEF ListInv
    <3>5. ASSUME NEW e \in Emitters
          PROVE  /\ emission'[e] \in Emission
                 /\ Good(e, emission'[e], ToSet(listeners)', token')
      <4>1. PICK x, y : x = emission[e] /\ y = [x EXCEPT !.through = @ \ {l}]
        OBVIOUS
      <4>2. x \in Emission /\ Good(e, x, ToSet(listeners), token)
        BY <2>1, <4>1
      <4>3. /\ y \in Emission /\ y.through = x.through \ {l}
            /\ y.told = x.told /\ y.todo = x.todo /\ y.within = x.within
            /\ y.at = x.at /\ y.run = x.run /\ y.given = x.given
        BY <4>1, <4>2 DEF Emission
      <4>4. emission'[e] = y
        BY <2>4, <4>1 DEF Unsubscribe
      <4>5. Good(e, y, ToSet(listeners) \ {l}, token)
        BY <4>2, <4>3 DEF Good
      <4> QED
        BY <3>2, <3>3, <4>3, <4>4, <4>5
    <3>6. emission' = [e \in Emitters |-> emission'[e]]
      BY <2>4 DEF Unsubscribe
    <3>7. emission' \in [Emitters -> Emission]
      BY <3>5, <3>6
    <3> QED
      BY <3>4, <3>5, <3>7 DEF EventsInv
  <2>5. CASE Acquire \/ Release
    <3>1. /\ UNCHANGED <<listeners, came, emission>> /\ token' \in Nat /\ started' \in Nat
          /\ token = 0 \/ Resting("loop")
      BY <2>1, <2>5 DEF Acquire, Release, ListInv
    <3>2. ASSUME NEW e \in Emitters
          PROVE  Good(e, emission[e], ToSet(listeners), token')
      <4>1. e = "loop" => emission[e].at \notin {"applied", "copied", "telling", "awaiting"}
        BY <2>1, <3>1 DEF Good, Resting
      <4> QED
        BY <2>1, <4>1 DEF Good
    <3> QED
      BY <2>1, <3>1, <3>2 DEF EventsInv, ListInv
  <2>6. ASSUME NEW e \in Emitters, Emit(e) PROVE EventsInv'
    <3>1. PICK x, n : x = emission[e] /\ n = x.count + 1
      OBVIOUS
    <3>2. n \in Nat /\ token \in Nat /\ token # 0 /\ ToSet(listeners) \in SUBSET Nat
      <4>1. ToSet(listeners) \subseteq Nat
        BY <2>1, LenProperties, ElementOfSeq DEF ListInv, ToSet
      <4>2. x.count \in Nat
        BY <2>1, <3>1 DEF Emission
      <4> QED
        BY <2>1, <2>6, <3>1, <4>1, <4>2 DEF ListInv, Emit
    <3>3. PICK y : y = [NoEmission EXCEPT !.at = "applied", !.count = n, !.run = token,
                           !.within = ToSet(listeners), !.through = ToSet(listeners)]
      OBVIOUS
    <3>4. /\ y \in Emission /\ y.at = "applied" /\ y.run = token /\ y.told = <<>> /\ y.todo = <<>>
          /\ y.within = ToSet(listeners) /\ y.through = ToSet(listeners)
      <4>1. PICK z : z = NoEmission
        OBVIOUS
      <4>2. z \in Emission /\ z.told = <<>> /\ z.todo = <<>>
        BY <4>1 DEF NoEmission, Emission, Stages
      <4>3. y = [z EXCEPT !.at = "applied", !.count = n, !.run = token,
                          !.within = ToSet(listeners), !.through = ToSet(listeners)]
        BY <3>3, <4>1
      <4>4. PICK k, R : k = token /\ R = ToSet(listeners)
        OBVIOUS
      <4>5. /\ [z EXCEPT !.at = "applied", !.count = n, !.run = k, !.within = R,
                         !.through = R] \in Emission
        BY <3>2, <4>2, <4>4 DEF Emission, Stages
      <4> QED
        BY <4>2, <4>3, <4>4, <4>5 DEF Emission
    <3>5. Good(e, y, ToSet(listeners), token)
      BY <3>2, <3>4, Nothing DEF Good
    <3>6. emission' = [emission EXCEPT ![e] = y] /\ UNCHANGED <<listeners, came, started, token>>
      BY <2>6, <3>1, <3>3 DEF Emit
    <3> QED
      BY <3>4, <3>5, <3>6, OneEmission
  <2>7. ASSUME NEW e \in Emitters, CopyListeners(e) PROVE EventsInv'
    <3>1. PICK x, y : x = emission[e] /\ y = [x EXCEPT !.at = "copied", !.todo = listeners]
      OBVIOUS
    <3>2. x \in Emission /\ Good(e, x, ToSet(listeners), token) /\ x.at = "applied"
      BY <2>1, <2>7, <3>1 DEF CopyListeners
    <3>3. /\ y \in Emission /\ y.at = "copied" /\ y.todo = listeners
          /\ y.told = x.told /\ y.through = x.through /\ y.within = x.within
          /\ y.run = x.run /\ y.given = x.given
      BY <2>1, <3>1, <3>2 DEF Emission, Stages, ListInv
    <3>4. Good(e, y, ToSet(listeners), token)
      BY <2>1, <3>2, <3>3, Nothing DEF Good, ListInv
    <3>5. emission' = [emission EXCEPT ![e] = y] /\ UNCHANGED <<listeners, came, started, token>>
      BY <2>1, <2>7, <3>1 DEF CopyListeners
    <3> QED
      BY <3>3, <3>4, <3>5, OneEmission
  <2>8. ASSUME NEW e \in Emitters, ReadToken(e) PROVE EventsInv'
    <3>1. PICK l, x, y : /\ l = IF token = 0 THEN "failed" ELSE "telling"
                         /\ x = emission[e] /\ y = [x EXCEPT !.at = l, !.given = token]
      OBVIOUS
    <3>2. x \in Emission /\ Good(e, x, ToSet(listeners), token) /\ x.at = "copied"
      BY <2>1, <2>8, <3>1 DEF ReadToken
    <3>3. /\ y \in Emission /\ y.at = l /\ y.given = token
          /\ y.told = x.told /\ y.todo = x.todo /\ y.through = x.through /\ y.within = x.within
          /\ y.run = x.run
      BY <2>1, <3>1, <3>2 DEF Emission, Stages, ListInv
    <3>4. Good(e, y, ToSet(listeners), token)
      BY <3>1, <3>2, <3>3 DEF Good
    <3>5. emission' = [emission EXCEPT ![e] = y] /\ UNCHANGED <<listeners, came, started, token>>
      BY <2>1, <2>8, <3>1 DEF ReadToken
    <3> QED
      BY <3>3, <3>4, <3>5, OneEmission
  <2>9. ASSUME NEW e \in Emitters, Tell(e) PROVE EventsInv'
    <3>1. PICK x : x = emission[e]
      OBVIOUS
    <3>2. x \in Emission /\ Good(e, x, ToSet(listeners), token) /\ x.at = "telling"
      BY <2>1, <2>9, <3>1 DEF Tell
    <3>3. CASE x.todo = <<>>
      <4>1. PICK y : y = [x EXCEPT !.at = "done"]
        OBVIOUS
      <4>2. /\ y \in Emission /\ y.at = "done"
            /\ y.told = x.told /\ y.todo = x.todo /\ y.through = x.through
            /\ y.within = x.within /\ y.run = x.run /\ y.given = x.given
        BY <3>2, <4>1 DEF Emission, Stages
      <4>3. Good(e, y, ToSet(listeners), token)
        BY <3>2, <3>3, <4>2 DEF Good
      <4>4. /\ emission' = [emission EXCEPT ![e] = y]
            /\ UNCHANGED <<listeners, came, started, token>>
        BY <2>9, <3>1, <3>3, <4>1 DEF Tell, Left
      <4> QED
        BY <4>2, <4>3, <4>4, OneEmission
    <3>4. CASE x.todo # <<>>
      <4>1. PICK a, d, r : a = Head(x.todo) /\ d = Tail(x.todo) /\ r = Append(x.told, a)
        OBVIOUS
      <4>2. /\ x.todo \in Seq(Nat) /\ x.told \in Seq(Nat)
            /\ Increasing(x.todo) /\ Increasing(x.told)
        BY <3>2 DEF Emission, Good
      <4>3. /\ a \in Nat /\ d \in Seq(Nat) /\ ToSet(x.todo) = {a} \cup ToSet(d)
            /\ Increasing(d) /\ \A b \in ToSet(d) : a < b
        BY <3>4, <4>1, <4>2, Taken
      <4>4. \A b \in ToSet(x.told) : b < a
        BY <3>2, <4>3 DEF Good
      <4>5. /\ r \in Seq(Nat) /\ r # <<>> /\ ToSet(r) = ToSet(x.told) \cup {a} /\ Increasing(r)
        BY <4>1, <4>2, <4>3, <4>4, Appended
      <4>6. PICK y : y = [x EXCEPT !.at = "awaiting", !.told = r, !.todo = d]
        OBVIOUS
      <4>7. /\ y \in Emission /\ y.at = "awaiting" /\ y.told = r /\ y.todo = d
            /\ y.through = x.through /\ y.within = x.within /\ y.run = x.run
            /\ y.given = x.given
        BY <3>2, <4>3, <4>5, <4>6 DEF Emission, Stages
      <4>8. \A b \in ToSet(r), f \in ToSet(d) : b < f
        <5>1. \A b \in ToSet(x.told), f \in ToSet(d) : b < f
          BY <3>2, <4>3 DEF Good
        <5> QED
          BY <4>3, <4>5, <5>1
      <4>9. Good(e, y, ToSet(listeners), token)
        BY <3>2, <4>3, <4>5, <4>7, <4>8 DEF Good
      <4>10. /\ emission' = [emission EXCEPT ![e] = y]
             /\ UNCHANGED <<listeners, came, started, token>>
        BY <2>9, <3>1, <3>2, <3>4, <4>1, <4>6 DEF Tell, Left, Emission
      <4> QED
        BY <4>7, <4>9, <4>10, OneEmission
    <3> QED
      BY <3>3, <3>4
  <2>10. ASSUME NEW e \in Emitters, Return(e) PROVE EventsInv'
    <3>1. PICK l \in {"telling", "failed"} : emission' = [emission EXCEPT ![e].at = l]
      BY <2>10 DEF Return
    <3>2. PICK x, y : x = emission[e] /\ y = [x EXCEPT !.at = l]
      OBVIOUS
    <3>3. x \in Emission /\ Good(e, x, ToSet(listeners), token) /\ x.at = "awaiting"
      BY <2>1, <2>10, <3>2 DEF Return
    <3>4. /\ y \in Emission /\ y.at = l
          /\ y.told = x.told /\ y.todo = x.todo /\ y.through = x.through /\ y.within = x.within
          /\ y.run = x.run /\ y.given = x.given
      BY <3>1, <3>2, <3>3 DEF Emission, Stages
    <3>5. Good(e, y, ToSet(listeners), token)
      BY <3>1, <3>3, <3>4 DEF Good
    <3>6. emission' = [emission EXCEPT ![e] = y] /\ UNCHANGED <<listeners, came, started, token>>
      BY <2>1, <2>10, <3>1, <3>2 DEF Return
    <3> QED
      BY <3>4, <3>5, <3>6, OneEmission
  <2> QED
    BY <2>2, <2>3, <2>4, <2>5, <2>6, <2>7, <2>8, <2>9, <2>10 DEF Next
<1>3. EventsInv => ListenersHearEvents
  <2> SUFFICES ASSUME EventsInv, NEW e \in Emitters, NEW x, x = emission[e]
               PROVE  /\ ToSet(x.told) \subseteq x.within
                      /\ x.at = "done" => x.through \subseteq ToSet(x.told)
                      /\ \A i, j \in DOMAIN x.told : i < j => x.told[i] < x.told[j]
                      /\ \A i \in DOMAIN x.told, l \in x.through :
                           l < x.told[i] => \E j \in 1 .. i - 1 : x.told[j] = l
                      /\ e = "loop" /\ x.at \in {"telling", "awaiting", "done"} => x.given = x.run
                      /\ e = "loop" /\ x.at = "failed" => x.told # <<>>
    BY DEF ListenersHearEvents
  <2>1. x \in Emission /\ Good(e, x, ToSet(listeners), token)
    BY DEF EventsInv
  <2>2. ASSUME NEW i \in DOMAIN x.told, NEW l \in x.through, l < x.told[i]
        PROVE  \E j \in 1 .. i - 1 : x.told[j] = l
    <3>1. x.told \in Seq(Nat) /\ x.through \subseteq Nat /\ Increasing(x.told)
      BY <2>1 DEF Emission, Good
    <3>2. DOMAIN x.told = 1 .. Len(x.told) /\ Len(x.told) \in Nat /\ x.told[i] \in Nat
      BY <3>1, LenProperties, ElementOfSeq
    <3>3. x.told # <<>>
      OBVIOUS
    <3>4. l \in ToSet(x.told) \cup ToSet(x.todo)
      BY <2>1, <3>3 DEF Good
    <3>5. l \notin ToSet(x.todo)
      <4>1. x.told[i] \in ToSet(x.told)
        BY DEF ToSet
      <4>2. l \in ToSet(x.todo) => x.told[i] < l
        BY <2>1, <4>1 DEF Good
      <4> QED
        BY <2>2, <3>1, <3>2, <4>2
    <3>6. PICK j \in DOMAIN x.told : x.told[j] = l
      BY <3>4, <3>5 DEF ToSet
    <3>7. ~(i < j) /\ i # j
      <4>1. i < j => x.told[i] < x.told[j]
        BY <3>1 DEF Increasing
      <4> QED
        BY <2>2, <3>1, <3>2, <3>6, <4>1
    <3> QED
      BY <3>2, <3>6, <3>7
  <2>3. ToSet(<<>>) = {}
    BY Nothing
  <2> QED
    BY <2>1, <2>2, <2>3 DEF Good, Increasing
<1> QED
  BY <1>1, <1>2, <1>3, PTL DEF Spec

=============================================================================
