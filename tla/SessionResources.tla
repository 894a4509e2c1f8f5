-------------------------- MODULE SessionResources --------------------------
(***************************************************************************)
(* session_resources.rs: a registry of callbacks that release what a       *)
(* session holds.  Any thread may register, unregister and clean up; a     *)
(* callback is foreign code and may itself take callbacks out or put them  *)
(* in.  A cleanup copies the callbacks under the read lock and runs the    *)
(* copies without it.                                                      *)
(***************************************************************************)
EXTENDS Naturals, SequencesExt, SequenceTheorems, TLAPS

CONSTANTS
  Threads,     \* that clean up
  Callbacks,   \* registrations there may be
  Leaving      \* callbacks that unregister themselves when they run

VARIABLES
  registry,    \* registrations, in order
  past,        \* registrations that were made at some time
  readers,     \* threads that hold the read lock
  at,          \* where a thread is
  todo,        \* callbacks its cleanup has not run yet
  ran,         \* callbacks it has run
  errors,      \* those that failed
  throughout   \* history: registered since its cleanup began

vars == <<registry, past, readers, at, todo, ran, errors, throughout>>

Init ==
  /\ registry = <<>> /\ past = {} /\ readers = {}
  /\ at = [t \in Threads |-> "idle"]
  /\ todo = [t \in Threads |-> <<>>]
  /\ ran = [t \in Threads |-> <<>>]
  /\ errors = [t \in Threads |-> <<>>]
  /\ throughout = [t \in Threads |-> {}]

\* register_session_resource_cleanup: an id is used once.
Register(c) ==
  /\ readers = {} /\ c \notin past
  /\ registry' = Append(registry, c)
  /\ past' = past \cup {c}
  /\ UNCHANGED <<readers, at, todo, ran, errors, throughout>>

\* unregister_session_resource_cleanup: an id is in the registry once or, when
\* it was taken out before, not at all.
Leave(c) ==
  /\ readers = {}
  /\ \/ \E i \in DOMAIN registry : registry[i] = c /\ registry' = RemoveAt(registry, i)
     \/ c \notin ToSet(registry) /\ UNCHANGED registry
  /\ throughout' = [t \in Threads |-> throughout[t] \ {c}]
Unregister(c) ==
  /\ c \in ToSet(registry)
  /\ Leave(c)
  /\ UNCHANGED <<past, readers, at, todo, ran, errors>>

\* cleanup_session_resources: the read lock ends with the copy.  The mutant
\* keeps it while the callbacks run.
CopyLocked(t) ==
  /\ at[t] = "idle"
  /\ at' = [at EXCEPT ![t] = "running"]
  /\ todo' = [todo EXCEPT ![t] = registry]
  /\ throughout' = [throughout EXCEPT ![t] = ToSet(registry)]
  /\ readers' = readers \cup {t}
  /\ UNCHANGED <<registry, past, ran, errors>>
Copy(t) ==
  /\ at[t] = "idle"
  /\ at' = [at EXCEPT ![t] = "running"]
  /\ todo' = [todo EXCEPT ![t] = registry]
  /\ throughout' = [throughout EXCEPT ![t] = ToSet(registry)]
  /\ UNCHANGED <<registry, past, readers, ran, errors>>

\* What a callback does to the registry.
Callback(c) ==
  IF c \in Leaving THEN Leave(c) ELSE UNCHANGED <<registry, throughout>>

\* One callback runs and may fail; the others run all the same.  The mutant
\* stops at an error.
RunStrict(t) ==
  /\ at[t] = "running" /\ todo[t] # <<>>
  /\ Callback(Head(todo[t]))
  /\ ran' = [ran EXCEPT ![t] = Append(@, Head(todo[t]))]
  /\ \E failed \in BOOLEAN :
       /\ todo' = [todo EXCEPT ![t] = IF failed THEN <<>> ELSE Tail(@)]
       /\ errors' = IF failed THEN [errors EXCEPT ![t] = Append(@, Head(todo[t]))] ELSE errors
  /\ UNCHANGED <<past, readers, at>>
Run(t) ==
  /\ at[t] = "running" /\ todo[t] # <<>>
  /\ Callback(Head(todo[t]))
  /\ ran' = [ran EXCEPT ![t] = Append(@, Head(todo[t]))]
  /\ todo' = [todo EXCEPT ![t] = Tail(@)]
  /\ \E failed \in BOOLEAN :
       errors' = IF failed THEN [errors EXCEPT ![t] = Append(@, Head(todo[t]))] ELSE errors
  /\ UNCHANGED <<past, readers, at>>

Finish(t) ==
  /\ at[t] = "running" /\ todo[t] = <<>>
  /\ at' = [at EXCEPT ![t] = IF errors[t] = <<>> THEN "ok" ELSE "error"]
  /\ readers' = readers \ {t}
  /\ UNCHANGED <<registry, past, todo, ran, errors, throughout>>

Cleanup(t) == Copy(t) \/ Run(t) \/ Finish(t)

Next ==
  \/ \E c \in Callbacks : Register(c) \/ Unregister(c)
  \/ \E t \in Threads : Cleanup(t)

\* A thread that cleans up goes on, callbacks return.
Fairness == \A t \in Threads : WF_vars(Run(t) \/ Finish(t))

Spec == Init /\ [][Next]_vars /\ Fairness

-----------------------------------------------------------------------------
(* Properties.                                                             *)

Over(t) == at[t] \in {"ok", "error"}

\* A cleanup that is over has run every callback that was registered from its
\* beginning to its end, each once, although others failed or
\* the registry changed meanwhile; and it says if one failed.
CleanupReachesAll ==
  \A t \in Threads : Over(t) =>
    /\ throughout[t] \subseteq ToSet(ran[t])
    /\ IsInjective(ran[t])
    /\ errors[t] # <<>> => at[t] = "error"

\* A cleanup ends, although callbacks unregister themselves while it runs
\* them and other threads change the registry or clean up too.
CleanupEnds == \A t \in Threads : at[t] = "running" ~> Over(t)

-----------------------------------------------------------------------------
(***************************************************************************)
(* CleanupReachesAll, for all sets of threads and callbacks.  It holds at  *)
(* the end because at every moment what was there throughout has run or is *)
(* still to run, and nothing is in both places.                            *)
(***************************************************************************)
Ran(t) ==
  /\ at[t] \in {"idle", "running", "ok", "error"}
  /\ ran[t] \in Seq(Callbacks) /\ todo[t] \in Seq(Callbacks)
  /\ IsInjective(ran[t]) /\ IsInjective(todo[t])
  /\ ToSet(ran[t]) \cap ToSet(todo[t]) = {}
  /\ throughout[t] \subseteq ToSet(ran[t]) \cup ToSet(todo[t])
  /\ at[t] = "idle" => ran[t] = <<>>
  /\ Over(t) => todo[t] = <<>> /\ (errors[t] # <<>> => at[t] = "error")

RegistryInv ==
  /\ registry \in Seq(Callbacks) /\ IsInjective(registry)
  /\ ToSet(registry) \subseteq past

ResourceInv ==
  /\ at = [t \in Threads |-> at[t]] /\ todo = [t \in Threads |-> todo[t]]
  /\ ran = [t \in Threads |-> ran[t]] /\ errors = [t \in Threads |-> errors[t]]
  /\ throughout = [t \in Threads |-> throughout[t]]
  /\ RegistryInv
  /\ \A t \in Threads : Ran(t)

\* What an empty sequence holds.
LEMMA Nothing == ToSet(<<>>) = {} /\ IsInjective(<<>>)
BY DEF ToSet, IsInjective

\* A callback that is not there yet is appended.
LEMMA Appended ==
  ASSUME NEW s \in Seq(Callbacks), NEW c \in Callbacks
  PROVE  /\ Append(s, c) \in Seq(Callbacks)
         /\ ToSet(Append(s, c)) = ToSet(s) \cup {c}
         /\ IsInjective(s) /\ c \notin ToSet(s) => IsInjective(Append(s, c))
<1> DEFINE r == Append(s, c)
<1>1. /\ r \in Seq(Callbacks) /\ Len(s) \in Nat /\ DOMAIN s = 1..Len(s)
      /\ DOMAIN r = 1..(Len(s) + 1) /\ r[Len(s) + 1] = c
      /\ \A n \in 1..Len(s) : r[n] = s[n]
  BY LenProperties, AppendProperties
<1> HIDE DEF r
<1>2. PICK k : k \in DOMAIN r /\ r[k] = c /\ k \notin DOMAIN s
               /\ \A n \in DOMAIN r : n = k \/ n \in DOMAIN s
  BY <1>1
<1>3. \A n \in DOMAIN s : n \in DOMAIN r /\ r[n] = s[n]
  BY <1>1
<1>4. ToSet(r) = ToSet(s) \cup {c}
  BY <1>2, <1>3 DEF ToSet
<1>5. IsInjective(s) /\ c \notin ToSet(s) => IsInjective(r)
  BY <1>2, <1>3 DEF ToSet, IsInjective
<1> QED
  BY <1>1, <1>4, <1>5 DEF r

\* The head of the callbacks still to run is taken.
LEMMA Taken ==
  ASSUME NEW s \in Seq(Callbacks), s # <<>>, IsInjective(s)
  PROVE  /\ Head(s) \in Callbacks /\ Tail(s) \in Seq(Callbacks)
         /\ ToSet(s) = {Head(s)} \cup ToSet(Tail(s))
         /\ Head(s) \notin ToSet(Tail(s)) /\ IsInjective(Tail(s))
<1> DEFINE r == Tail(s)
<1>1. /\ r \in Seq(Callbacks) /\ Len(s) \in Nat /\ Len(s) >= 1 /\ DOMAIN s = 1..Len(s)
      /\ DOMAIN r = 1..(Len(s) - 1) /\ Head(s) = s[1] /\ Head(s) \in Callbacks
      /\ \A n \in 1..(Len(s) - 1) : r[n] = s[n + 1]
  BY LenProperties, HeadTailProperties, EmptySeq
<1> HIDE DEF r
<1>2. PICK x : x = Head(s) /\ x = s[1] /\ 1 \in DOMAIN s
  BY <1>1
<1>3. \A n \in DOMAIN r : n + 1 \in DOMAIN s /\ n + 1 # 1 /\ r[n] = s[n + 1]
  BY <1>1
<1>4. \A n \in DOMAIN s : n # 1 => n - 1 \in DOMAIN r /\ r[n - 1] = s[n]
  BY <1>1
<1>5. ToSet(s) = {x} \cup ToSet(r)
  <2>1. \A n \in DOMAIN s : s[n] = x \/ \E k \in DOMAIN r : r[k] = s[n]
    BY <1>2, <1>4
  <2>2. \A n \in DOMAIN r : \E k \in DOMAIN s : s[k] = r[n]
    BY <1>3
  <2> QED
    BY <1>2, <2>1, <2>2 DEF ToSet
<1>6. x \notin ToSet(r)
  BY <1>2, <1>3 DEF ToSet, IsInjective
<1>7. \A m, n \in DOMAIN r : m + 1 = n + 1 => m = n
  BY <1>1
<1>8. IsInjective(r)
  BY <1>3, <1>7 DEF IsInjective
<1> QED
  BY <1>1, <1>2, <1>5, <1>6, <1>8 DEF r

\* A callback is taken out of the registry.
LEMMA TakenOut ==
  ASSUME NEW s \in Seq(Callbacks), NEW i \in DOMAIN s
  PROVE  /\ RemoveAt(s, i) \in Seq(Callbacks)
         /\ ToSet(RemoveAt(s, i)) \subseteq ToSet(s)
         /\ IsInjective(s) => IsInjective(RemoveAt(s, i))
<1> DEFINE a == SubSeq(s, 1, i - 1)
           b == SubSeq(s, i + 1, Len(s))
           r == a \o b
<1>1. Len(s) \in Nat /\ DOMAIN s = 1..Len(s) /\ i \in 1..Len(s) /\ i \in Nat
  BY LenProperties
<1>2. /\ a \in Seq(Callbacks) /\ Len(a) = i - 1 /\ \A n \in 1..(i - 1) : a[n] = s[n]
  BY <1>1, SubSeqProperties
<1>3. /\ b \in Seq(Callbacks) /\ Len(b) = Len(s) - i /\ \A n \in 1..(Len(s) - i) : b[n] = s[n + i]
  BY <1>1, SubSeqProperties
<1> HIDE DEF a, b
<1>4. /\ r \in Seq(Callbacks) /\ Len(r) = Len(a) + Len(b) /\ DOMAIN r = 1..Len(r)
      /\ \A n \in 1..Len(r) : r[n] = IF n <= Len(a) THEN a[n] ELSE b[n - Len(a)]
  <2>1. r \in Seq(Callbacks)
    BY <1>2, <1>3, ConcatProperties
  <2>2. Len(r) = Len(a) + Len(b)
    BY <1>2, <1>3, ConcatProperties
  <2>3. \A n \in 1..(Len(a) + Len(b)) : r[n] = IF n <= Len(a) THEN a[n] ELSE b[n - Len(a)]
    BY <1>2, <1>3, ConcatProperties
  <2>4. DOMAIN r = 1..Len(r)
    BY <2>1, LenProperties
  <2> QED
    BY <2>1, <2>2, <2>3, <2>4
<1> HIDE DEF r
<1>5. ASSUME NEW n \in DOMAIN r
      PROVE  /\ n \in Nat /\ r[n] = IF n < i THEN s[n] ELSE s[n + 1]
             /\ n \in DOMAIN s /\ n + 1 \in DOMAIN s
  <2>1. n \in Nat /\ n >= 1 /\ n <= Len(s) - 1
    BY <1>1, <1>2, <1>3, <1>4
  <2>2. CASE n < i
    BY <1>1, <1>2, <1>4, <2>1, <2>2
  <2>3. CASE ~(n < i)
    <3>1. r[n] = b[n - (i - 1)] /\ n - (i - 1) \in 1..(Len(s) - i)
      BY <1>1, <1>2, <1>4, <2>1, <2>3
    <3>2. b[n - (i - 1)] = s[n - (i - 1) + i] /\ n - (i - 1) + i = n + 1
      BY <1>1, <1>3, <2>1, <3>1
    <3> QED
      BY <1>1, <2>1, <2>3, <3>1, <3>2
  <2> QED
    BY <2>2, <2>3
<1>6. ToSet(r) \subseteq ToSet(s)
  BY <1>5 DEF ToSet
<1>7. IsInjective(s) => IsInjective(r)
  BY <1>1, <1>5 DEF IsInjective
<1> QED
  BY <1>4, <1>6, <1>7 DEF a, b, r, RemoveAt

\* Leaving keeps the registry in order, and only makes throughout smaller.
LEMMA Left ==
  ASSUME RegistryInv, NEW c, Leave(c), past' = past
  PROVE  /\ RegistryInv'
         /\ throughout' = [t \in Threads |-> throughout'[t]]
         /\ \A t \in Threads : throughout'[t] \subseteq throughout[t]
<1>1. CASE c \notin ToSet(registry) /\ UNCHANGED registry
  BY <1>1 DEF Leave, RegistryInv
<1>2. ASSUME NEW i \in DOMAIN registry, registry' = RemoveAt(registry, i)
      PROVE  RegistryInv'
  BY <1>2, TakenOut DEF RegistryInv
<1> QED
  BY <1>1, <1>2 DEF Leave

\* A cleanup that is over has run every callback that was registered from its
\* beginning to its end, each once.
THEOREM ReachesAll == Spec => []CleanupReachesAll
<1>1. Init => ResourceInv
  <2> SUFFICES ASSUME Init PROVE ResourceInv
    OBVIOUS
  <2>1. RegistryInv
    BY Nothing DEF Init, RegistryInv
  <2>2. ASSUME NEW t \in Threads PROVE Ran(t)
    <3>1. at[t] = "idle" /\ ran[t] = <<>> /\ todo[t] = <<>> /\ throughout[t] = {}
      BY DEF Init
    <3> QED
      BY <3>1, Nothing DEF Ran, Over
  <2> QED
    BY <2>1, <2>2 DEF Init, ResourceInv
<1>2. ResourceInv /\ [Next]_vars => ResourceInv'
  <2> SUFFICES ASSUME ResourceInv, [Next]_vars PROVE ResourceInv'
    OBVIOUS
  <2>1. RegistryInv /\ \A t \in Threads : Ran(t)
    BY DEF ResourceInv
  <2>2. ASSUME RegistryInv', UNCHANGED <<at, todo, ran, errors>>,
               throughout' = [t \in Threads |-> throughout'[t]],
               \A t \in Threads : throughout'[t] \subseteq throughout[t]
        PROVE  ResourceInv'
    <3>1. ASSUME NEW t \in Threads PROVE Ran(t)'
      BY <2>1, <2>2 DEF Ran, Over
    <3> QED
      BY <2>2, <3>1 DEF ResourceInv
  <2>3. CASE UNCHANGED vars
    BY <2>1, <2>2, <2>3 DEF vars, RegistryInv, ResourceInv
  <2>4. ASSUME NEW c \in Callbacks, Register(c) PROVE ResourceInv'
    <3>1. RegistryInv'
      BY <2>1, <2>4, Appended DEF Register, RegistryInv
    <3> QED
      BY <2>2, <2>4, <3>1 DEF Register, ResourceInv
  <2>5. ASSUME NEW c \in Callbacks, Unregister(c) PROVE ResourceInv'
    BY <2>1, <2>2, <2>5, Left DEF Unregister
  <2>6. ASSUME NEW t \in Threads, Copy(t) PROVE ResourceInv'
    <3>1. Ran(t)'
      <4>1. /\ at'[t] = "running" /\ todo'[t] = registry /\ ran'[t] = <<>>
            /\ throughout'[t] = ToSet(registry)
        BY <2>1, <2>6 DEF Copy, ResourceInv, Ran
      <4> QED
        BY <2>1, <2>6, <4>1, Nothing DEF Copy, Ran, Over, RegistryInv
    <3> QED
      BY <2>1, <2>6, <3>1 DEF Copy, ResourceInv, Ran, Over, RegistryInv
  <2>7. ASSUME NEW t \in Threads, Run(t) PROVE ResourceInv'
    <3>1. PICK c, d : c = Head(todo[t]) /\ d = Tail(todo[t])
      OBVIOUS
    <3>2. /\ c \in Callbacks /\ d \in Seq(Callbacks) /\ ToSet(todo[t]) = {c} \cup ToSet(d)
          /\ c \notin ToSet(d) /\ IsInjective(d)
      BY <2>1, <2>7, <3>1, Taken DEF Run, Ran
    <3>3. PICK r : r = Append(ran[t], c)
      OBVIOUS
    <3>4. r \in Seq(Callbacks) /\ ToSet(r) = ToSet(ran[t]) \cup {c} /\ IsInjective(r)
      BY <2>1, <3>2, <3>3, Appended DEF Ran
    <3>5. /\ RegistryInv'
          /\ throughout' = [u \in Threads |-> throughout'[u]]
          /\ \A u \in Threads : throughout'[u] \subseteq throughout[u]
      <4>1. CASE Leave(c) /\ past' = past
        BY <2>1, <4>1, Left
      <4>2. CASE UNCHANGED <<registry, past, throughout>>
        BY <2>1, <4>2 DEF RegistryInv, ResourceInv
      <4> QED
        BY <2>7, <3>1, <4>1, <4>2 DEF Run, Callback
    <3>6. /\ at' = at /\ at[t] = "running"
          /\ ran' = [ran EXCEPT ![t] = r] /\ todo' = [todo EXCEPT ![t] = d]
          /\ errors' = [u \in Threads |-> errors'[u]]
          /\ \A u \in Threads : u # t => errors'[u] = errors[u]
      BY <2>7, <3>1, <3>3 DEF Run, ResourceInv
    <3>7. /\ ran'[t] = r /\ todo'[t] = d
          /\ \A u \in Threads : u # t => ran'[u] = ran[u] /\ todo'[u] = todo[u]
          /\ ran' = [u \in Threads |-> ran'[u]] /\ todo' = [u \in Threads |-> todo'[u]]
      BY <3>6 DEF ResourceInv
    <3>8. Ran(t)'
      <4>1. throughout'[t] \subseteq ToSet(r) \cup ToSet(d)
        BY <2>1, <3>2, <3>4, <3>5 DEF Ran
      <4>2. ToSet(r) \cap ToSet(d) = {}
        BY <2>1, <3>2, <3>4 DEF Ran
      <4> QED
        BY <3>2, <3>4, <3>6, <3>7, <4>1, <4>2 DEF Ran, Over
    <3>9. ASSUME NEW u \in Threads, u # t PROVE Ran(u)'
      BY <2>1, <3>5, <3>6, <3>7, <3>9 DEF Ran, Over
    <3> QED
      BY <3>5, <3>6, <3>7, <3>8, <3>9 DEF ResourceInv
  <2>8. ASSUME NEW t \in Threads, Finish(t) PROVE ResourceInv'
    <3>1. /\ at'[t] = IF errors[t] = <<>> THEN "ok" ELSE "error"
          /\ \A u \in Threads : u # t => at'[u] = at[u]
          /\ at' = [u \in Threads |-> at'[u]]
          /\ todo[t] = <<>> /\ UNCHANGED <<registry, past, todo, ran, errors, throughout>>
      BY <2>8 DEF Finish, ResourceInv
    <3>2. ASSUME NEW u \in Threads PROVE Ran(u)'
      BY <2>1, <3>1 DEF Ran, Over
    <3> QED
      BY <2>1, <3>1, <3>2 DEF ResourceInv, RegistryInv
  <2> QED
    BY <2>3, <2>4, <2>5, <2>6, <2>7, <2>8 DEF Next, Cleanup
<1>3. ResourceInv => CleanupReachesAll
  BY Nothing DEF ResourceInv, Ran, CleanupReachesAll
<1> QED
  BY <1>1, <1>2, <1>3, PTL DEF Spec

=============================================================================
