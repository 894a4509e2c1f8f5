----------------------------- MODULE FauxStream -----------------------------
(***************************************************************************)
(* providers/faux.rs: a scripted message streamed by a task of its own,    *)
(* which pushes whether or not the consumer polls.  The task awaits before *)
(* every chunk and looks at the token after each await and before each     *)
(* block; everything between two awaits is one step.  The arguments of a   *)
(* tool call enter the partial message only when the call ends.            *)
(***************************************************************************)
EXTENDS StreamAssembly

VARIABLE script   \* the scripted message, and how much of its open block is said

ScriptedBlocks == [kind : Kinds \ {"custom"}, chunks : 1..MaxFragments]

Scripts ==
  [content : UNION {[1..n -> ScriptedBlocks] : n \in 0..N}, stop : {"stop", "error"}, said : {0}]

NoScript == [content |-> <<>>, stop |-> "stop", said |-> 0]

FauxRunning(at) == pc = at /\ outcome = "running"

FauxUnchanged == UNCHANGED <<attempt, cancelled, outcome, polled, view, stop, slot, byId, saw, serverVars>>

\* A terminal event is pushed and the task ends.
FauxEnd(events, type, content) ==
  /\ Push(Append(events, Terminal(type, content)))
  /\ pc' = "returned"

\* Up to the next await: the next block is opened, or the message ends.
FauxOn(done, events, content) ==
  IF done < Len(script.content)
  THEN LET k == script.content[done + 1].kind
       IN /\ blocks' = Append(content, NewBlock(k, done + 1))
          /\ Push(Append(events, BlockStart(done + 1, k)))
          /\ pc' = "chunk"
  ELSE /\ blocks' = content
       /\ FauxEnd(events, IF script.stop = "error" THEN "error" ELSE "done",
                  [b \in DOMAIN script.content |->
                     [kind |-> script.content[b].kind, item |-> b, len |-> script.content[b].chunks]])

\* The task starts; a hook or a factory may fail, or nothing is scripted.
FauxStart ==
  /\ FauxRunning("entry")
  /\ \/ FauxEnd(<<>>, "error", <<>>) /\ UNCHANGED blocks
     \/ ~cancelled /\ FauxOn(0, <<Start>>, <<>>)
  /\ FauxUnchanged /\ UNCHANGED script

Chunks(b) == script.content[b].chunks

\* One chunk after its await.
FauxChunk ==
  LET b == Len(blocks)
      k == blocks[b].kind
      grown == IF k = "tool" THEN blocks ELSE Grown(b, 1)
      last == script.said + 1 = Chunks(b)
      ended == [blocks EXCEPT ![b].len = Chunks(b)]
      events == <<Delta(b, k, 1)>> \o IF last THEN <<BlockEnd(b, k, Chunks(b))>> ELSE <<>>
  IN /\ FauxRunning("chunk")
     /\ IF cancelled
        THEN FauxEnd(<<>>, "error", blocks) /\ UNCHANGED <<blocks, script>>
        ELSE IF last
        THEN FauxOn(b, events, ended) /\ script' = [script EXCEPT !.said = 0]
        ELSE /\ Push(events) /\ blocks' = grown
             /\ script' = [script EXCEPT !.said = @ + 1]
             /\ UNCHANGED pc
     /\ FauxUnchanged

FauxStep == FauxStart \/ FauxChunk

=============================================================================
