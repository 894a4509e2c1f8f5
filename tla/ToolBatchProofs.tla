-------------------------- MODULE ToolBatchProofs ---------------------------
(***************************************************************************)
(* Proofs about ToolBatch, for any number of calls: a batch that returns   *)
(* has answered every call it announced, in source order; no tool runs     *)
(* while another call is in preflight; and updates of tools that keep the  *)
(* callback to themselves do not follow the end of their call.             *)
(***************************************************************************)
EXTENDS MCToolBatch, WellFoundedInduction, TLAPS

Failing   == phase \in {"failed", "cleared"}
Preflight == phase \in {"start", "prepare", "endImmediate", "check"}
Executing == {"executing", "settled", "drained", "hooked"}
Over      == {"finished", "refused"}

TypeOK ==
  /\ mode \in {"parallel", "sequential", "truncated"}
  /\ cancelled \in BOOLEAN
  /\ phase \in {"start", "prepare", "endImmediate", "check", "execute", "message",
                "publish", "done", "failed", "cleared"}
  /\ cur \in Calls
  /\ call \in [Calls -> Stages]
  /\ terminating \subseteq Calls
  /\ pending \subseteq Calls
  /\ results \in Seq(Calls)
  /\ updater \in [Calls -> {"idle", "accepted", "spawned", "pushed"}]
  /\ task \in [Calls -> {"none", "running", "emitted"}]
  /\ handles \subseteq Calls
  /\ awaited \subseteq Calls
  /\ faults \in Nat

(* Which phases a batch of each mode has.                                  *)
PhaseInv ==
  /\ phase = "publish" => mode = "parallel"
  /\ phase = "message" => mode # "parallel"
  /\ phase \in {"prepare", "execute"} => mode # "truncated"
  /\ mode = "parallel" /\ phase \in {"execute", "publish", "done"} => cur = N \/ cancelled
  /\ mode # "parallel" /\ phase = "done" => cur = N \/ (cancelled /\ mode # "truncated")

(* The stages of the calls before the one the batch is at, and of that one. *)
PassedStages ==
  IF mode # "parallel" THEN Over
  ELSE IF Preflight THEN {"prepared", "refused"}
  ELSE IF phase = "execute" THEN Executing \cup Over
  ELSE Over

CurrentStages ==
  CASE phase = "start" -> {"waiting"}
    [] phase = "prepare" -> {"started"}
    [] phase = "endImmediate" -> {"immediate"}
    [] phase = "check" -> PassedStages
    [] phase = "execute" /\ mode = "parallel" -> Executing \cup Over
    [] phase = "execute" /\ mode # "parallel" -> Executing
    [] OTHER -> Over

StageInv ==
  IF Failing
  THEN \A i \in Calls : call[i] \in {"waiting", "orphaned", "dropped"} \cup Over
  ELSE /\ \A i \in Calls : i > cur => call[i] = "waiting"
       /\ \A i \in Calls : i < cur => call[i] \in PassedStages
       /\ call[cur] \in CurrentStages

PendingInv ==
  phase # "cleared" => \A i \in Calls : i \in pending <=> call[i] \notin {"waiting"} \cup Over

(* The calls whose results have been emitted.                              *)
Emitted(i) == \E n \in DOMAIN results : results[n] = i

ResultsInv ==
  /\ \A m, n \in DOMAIN results : m < n => results[m] < results[n]
  /\ mode = "parallel" /\ (Preflight \/ phase = "execute") => results = <<>>
  /\ mode = "parallel" /\ phase = "publish" =>
       /\ \A i \in Calls : Emitted(i) => call[i] \in Over
       /\ \A i, j \in Calls : Emitted(i) /\ call[j] \in Over /\ ~Emitted(j) => i < j
  /\ mode = "parallel" /\ phase = "done" => \A i \in Calls : Emitted(i) <=> call[i] \in Over
  /\ mode # "parallel" /\ ~Failing =>
       \A i \in Calls :
         Emitted(i) <=> IF phase \in {"check", "done"} THEN i <= cur ELSE i < cur

BatchInv == TypeOK /\ PhaseInv /\ StageInv /\ PendingInv /\ ResultsInv

-----------------------------------------------------------------------------
(***************************************************************************)
(* Lemmas.                                                                 *)
(***************************************************************************)

(* A set of numbers that is not empty has a least one: NextToPublish is    *)
(* well defined.                                                           *)
LEMMA Least ==
  ASSUME NEW S \in SUBSET Nat, S # {}
  PROVE  \E i \in S : \A j \in S : i <= j
<1> DEFINE R == {p \in Nat \X Nat : p[1] < p[2]}
<1>1. IsWellFoundedOn(R, Nat)
  BY NatLessThanWellFounded DEF OpToRel
<1>2. \A y, x \in Nat : <<y, x>> \notin R => x <= y
  OBVIOUS
<1> HIDE DEF R
<1>3. \E x \in S : \A y \in S : ~(<<y, x>> \in R)
  BY <1>1, WFMin
<1> QED BY <1>2, <1>3

(* Appending to the results emits one more call, and keeps them in order   *)
(* if it comes after all that were emitted.                                *)
LEMMA OneMoreResult ==
  ASSUME results \in Seq(Calls), NEW i \in Calls, results' = Append(results, i)
  PROVE  /\ results' \in Seq(Calls)
         /\ \A j \in Calls : Emitted(j)' <=> Emitted(j) \/ j = i
         /\ (\A j \in Calls : Emitted(j) => j < i)
            /\ (\A m, n \in DOMAIN results : m < n => results[m] < results[n])
            => \A m, n \in DOMAIN results' : m < n => results'[m] < results'[n]
<1>1. /\ results' \in Seq(Calls)
      /\ DOMAIN results = 1 .. Len(results) /\ Len(results) \in Nat
      /\ DOMAIN results' = 1 .. Len(results) + 1
      /\ \A n \in 1 .. Len(results) : results'[n] = results[n] /\ results[n] \in Calls
      /\ results'[Len(results) + 1] = i
  OBVIOUS
<1>2. \A j \in Calls : Emitted(j)' <=> Emitted(j) \/ j = i
  BY DEF Emitted
<1>3. ASSUME \A j \in Calls : Emitted(j) => j < i,
             \A m, n \in DOMAIN results : m < n => results[m] < results[n]
      PROVE  \A m, n \in DOMAIN results' : m < n => results'[m] < results'[n]
  <2>1. \A m \in 1 .. Len(results) : results[m] < i
    BY <1>3 DEF Emitted
  <2> QED BY <1>3, <2>1
<1> QED BY <1>2, <1>3

\* When nothing is left to publish, every finished call has been published.
LEMMA FinishedPublished ==
  ASSUME TypeOK
  PROVE  /\ \A i \in Calls : i \in Finished <=> call[i] \in Over
         /\ \A i \in Calls : i \in Published <=> Emitted(i)
         /\ Published \subseteq Calls
         /\ \A i \in Calls : Emitted(i) => \E n \in 1 .. Len(results) : results[n] = i
BY DEF TypeOK, Finished, Published, Emitted, Over

\* The invariant holds at first,
THEOREM BatchInvInit == Init => BatchInv
<1> SUFFICES ASSUME Init PROVE BatchInv
  OBVIOUS
<1> USE ToolBatchAssumption DEF Init, Calls
<1>1. TypeOK
  <2>1. 1 \in 1 .. N /\ results = <<>> /\ <<>> \in Seq(1 .. N) /\ 0 \in Nat
    OBVIOUS
  <2>2. /\ call \in [Calls -> Stages]
        /\ updater \in [Calls -> {"idle", "accepted", "spawned", "pushed"}]
        /\ task \in [Calls -> {"none", "running", "emitted"}]
    BY DEF Stages
  <2> QED BY <2>1, <2>2 DEF TypeOK
<1>2. PhaseInv /\ PendingInv
  BY DEF PhaseInv, PendingInv
<1>3. StageInv
  BY DEF StageInv, CurrentStages
<1>4. ResultsInv
  BY DEF ResultsInv, Emitted
<1> QED BY <1>1, <1>2, <1>3, <1>4 DEF BatchInv

(* The steps of the callback and of the token do not touch the calls.      *)
LEMMA Untouched ==
  ASSUME BatchInv, TypeOK', cancelled => cancelled',
         UNCHANGED <<mode, phase, cur, call, pending, results>>
  PROVE  BatchInv'
BY DEF BatchInv, PhaseInv, StageInv, PassedStages, CurrentStages, PendingInv, ResultsInv,
       Emitted, Failing, Preflight

\* and every step keeps it.
LEMMA BatchInvNext == BatchInv /\ [Next]_vars => BatchInv'
<1> SUFFICES ASSUME BatchInv, [Next]_vars PROVE BatchInv'
  OBVIOUS
<1> USE ToolBatchAssumption DEF BatchInv, Calls, Failing, Preflight, Executing, Over
<1>1. CASE Start
  <2>1. TypeOK'
    BY <1>1 DEF Start, Stage, TypeOK, Stages, updates
  <2>2. PhaseInv'
    BY <1>1 DEF Start, PhaseInv
  <2>3. StageInv'
    BY <1>1 DEF Start, Stage, TypeOK, StageInv, PassedStages, CurrentStages
  <2>4. PendingInv'
    BY <1>1 DEF Start, Stage, TypeOK, PendingInv
  <2>5. ResultsInv'
    BY <1>1 DEF Start, ResultsInv, Emitted
  <2> QED BY <2>1, <2>2, <2>3, <2>4, <2>5
<1>2. CASE Prepare
  <2>1. TypeOK'
    BY <1>2 DEF Prepare, PreparedStage, Stage, TypeOK, Stages, updates
  <2>2. PhaseInv'
    BY <1>2 DEF Prepare, PhaseInv
  <2>3. StageInv'
    BY <1>2 DEF Prepare, PreparedStage, Stage, TypeOK, StageInv, PassedStages, CurrentStages
  <2>4. PendingInv'
    BY <1>2 DEF Prepare, PreparedStage, Stage, TypeOK, StageInv, CurrentStages, PendingInv
  <2>5. ResultsInv'
    BY <1>2 DEF Prepare, ResultsInv, Emitted
  <2> QED BY <2>1, <2>2, <2>3, <2>4, <2>5
<1>3. CASE EndImmediate
  <2>1. TypeOK'
    BY <1>3 DEF EndImmediate, StillPending, Stage, TypeOK, Stages, updates
  <2>2. PhaseInv'
    BY <1>3 DEF EndImmediate, PhaseInv
  <2>3. StageInv'
    BY <1>3 DEF EndImmediate, Stage, TypeOK, StageInv, PassedStages, CurrentStages
  <2>4. PendingInv'
    BY <1>3 DEF EndImmediate, StillPending, Stage, TypeOK, PendingInv
  <2>5. ResultsInv'
    BY <1>3 DEF EndImmediate, ResultsInv, Emitted
  <2> QED BY <2>1, <2>2, <2>3, <2>4, <2>5
<1>4. CASE AfterCall
  <2>1. TypeOK'
    BY <1>4 DEF AfterCall, StopsAfterCall, NextCall, TypeOK, Stages, updates
  <2>2. PhaseInv'
    BY <1>4 DEF AfterCall, StopsAfterCall, PhaseInv
  <2>3. StageInv'
    <3>1. CASE ~StopsAfterCall
      BY <1>4, <3>1
         DEF AfterCall, StopsAfterCall, NextCall, TypeOK, StageInv, PassedStages,
             CurrentStages
    <3>2. CASE StopsAfterCall /\ mode = "parallel"
      <4>1. \A i \in Calls : call'[i] = IF call[i] = "prepared" THEN "executing" ELSE call[i]
        BY <1>4, <3>2 DEF AfterCall
      <4> QED BY <1>4, <3>2 DEF AfterCall, TypeOK, StageInv, PassedStages, CurrentStages
    <3>3. CASE StopsAfterCall /\ mode # "parallel"
      <4>1. \A i \in Calls : call[i] # "prepared"
        BY <1>4, <3>3 DEF AfterCall, TypeOK, StageInv, PassedStages, CurrentStages
      <4>2. \A i \in Calls : call'[i] = call[i]
        BY <1>4, <4>1 DEF AfterCall
      <4> QED BY <1>4, <3>3, <4>2 DEF AfterCall, TypeOK, StageInv, PassedStages, CurrentStages
    <3> QED BY <3>1, <3>2, <3>3
  <2>4. PendingInv'
    BY <1>4 DEF AfterCall, PendingInv
  <2>5. ResultsInv'
    BY <1>4 DEF AfterCall, NextCall, TypeOK, CurrentStages, ResultsInv, Emitted
  <2> QED BY <2>1, <2>2, <2>3, <2>4, <2>5
<1>5. CASE AllExecuted
  <2>1. TypeOK'
    BY <1>5 DEF AllExecuted, TypeOK, updates
  <2>2. PhaseInv'
    BY <1>5 DEF AllExecuted, PhaseInv
  <2>3. StageInv'
    <3>1. \A i \in Calls : call[i] \in {"waiting"} \cup Over
      BY <1>5 DEF AllExecuted, Finished
    <3> QED BY <1>5, <3>1 DEF AllExecuted, TypeOK, StageInv, PassedStages, CurrentStages
  <2>4. PendingInv'
    BY <1>5 DEF AllExecuted, PendingInv
  <2>5. ResultsInv'
    BY <1>5 DEF AllExecuted, ResultsInv, Emitted
  <2> QED BY <2>1, <2>2, <2>3, <2>4, <2>5
<1>6. CASE EmitResult
  <2>1. TypeOK'
    BY <1>6 DEF EmitResult, TypeOK, updates
  <2>2. PhaseInv'
    BY <1>6 DEF EmitResult, PhaseInv
  <2>3. StageInv'
    BY <1>6 DEF EmitResult, StageInv, PhaseInv, PassedStages, CurrentStages
  <2>4. PendingInv'
    BY <1>6 DEF EmitResult, PendingInv
  <2>5. ResultsInv'
    <3>1. mode # "parallel" /\ mode' = mode /\ call' = call /\ cur' = cur /\ phase' = "check"
          /\ phase = "message" /\ cur \in 1 .. N
      BY <1>6 DEF EmitResult, PhaseInv, TypeOK
    <3>2. \A j \in Calls : Emitted(j) <=> j < cur
      BY <3>1 DEF ResultsInv
    <3>3. \A m, n \in DOMAIN results' : m < n => results'[m] < results'[n]
      BY <1>6, <3>2, OneMoreResult DEF EmitResult, TypeOK, ResultsInv
    <3>4. \A j \in Calls : Emitted(j)' <=> j <= cur
      BY <1>6, <3>2, OneMoreResult DEF EmitResult, TypeOK
    <3> QED BY <3>1, <3>3, <3>4 DEF ResultsInv
  <2> QED BY <2>1, <2>2, <2>3, <2>4, <2>5
<1>7. CASE Publish
  <2> DEFINE left == Finished \ Published
  <2>0. /\ mode = "parallel" /\ mode' = mode /\ call' = call /\ cur' = cur /\ phase = "publish"
        /\ \A j \in Calls : j \in left <=> call[j] \in Over /\ ~Emitted(j)
        /\ left \in SUBSET Nat /\ left \subseteq Calls
    BY <1>7, FinishedPublished DEF Publish, PhaseInv, Finished
  <2>a. CASE Finished \subseteq Published
    <3>1. \A j \in Calls : call[j] \in Over => Emitted(j)
      BY <2>0, <2>a
    <3>2. phase' = "done" /\ results' = results
      BY <1>7, <2>a DEF Publish
    <3>3. TypeOK' /\ PhaseInv' /\ StageInv' /\ PendingInv'
      BY <1>7, <3>2
         DEF Publish, TypeOK, updates, PhaseInv, StageInv, PassedStages, CurrentStages,
             PendingInv
    <3>4. ResultsInv'
      BY <2>0, <3>1, <3>2 DEF ResultsInv, Emitted
    <3> QED BY <3>3, <3>4
  <2>b. CASE ~(Finished \subseteq Published)
    <3>1. PICK i \in left : \A j \in left : i <= j
      BY <2>0, <2>b, Least
    <3>2. NextToPublish \in left /\ \A j \in left : NextToPublish <= j
      BY <3>1 DEF NextToPublish
    <3>3. phase' = "publish" /\ results' = Append(results, NextToPublish)
      BY <1>7 DEF Publish
    <3>4. /\ results' \in Seq(Calls)
          /\ \A j \in Calls : Emitted(j)' <=> Emitted(j) \/ j = NextToPublish
      BY <2>0, <3>2, <3>3, OneMoreResult DEF TypeOK
    <3>5. \A j \in Calls : Emitted(j) => j < NextToPublish
      BY <2>0, <3>2 DEF ResultsInv
    <3>6. \A m, n \in DOMAIN results' : m < n => results'[m] < results'[n]
      BY <2>0, <3>2, <3>3, OneMoreResult DEF TypeOK, ResultsInv
    <3>7. TypeOK' /\ PhaseInv' /\ StageInv' /\ PendingInv'
      BY <1>7, <3>4
         DEF Publish, TypeOK, updates, PhaseInv, StageInv, PassedStages, CurrentStages,
             PendingInv
    <3>8. \A j \in Calls : Emitted(j)' => call[j] \in Over
      BY <2>0, <3>2, <3>4 DEF ResultsInv
    <3>9. ASSUME NEW j \in Calls, NEW k \in Calls, Emitted(j)', call[k] \in Over, ~Emitted(k)'
          PROVE  j < k
      <4>1. k \in left /\ k # NextToPublish
        BY <2>0, <3>4, <3>9
      <4>2. NextToPublish < k
        BY <3>2, <4>1
      <4> QED BY <2>0, <3>2, <3>4, <3>5, <3>9
    <3> QED BY <2>0, <3>3, <3>6, <3>7, <3>8, <3>9 DEF ResultsInv
  <2> QED BY <2>a, <2>b
<1>8. CASE ClearPending
  <2>1. TypeOK'
    BY <1>8 DEF ClearPending, TypeOK, updates
  <2>2. PhaseInv'
    BY <1>8 DEF ClearPending, PhaseInv
  <2>3. StageInv'
    BY <1>8 DEF ClearPending, StageInv
  <2>4. PendingInv'
    BY <1>8 DEF ClearPending, PendingInv
  <2>5. ResultsInv'
    BY <1>8 DEF ClearPending, ResultsInv
  <2> QED BY <2>1, <2>2, <2>3, <2>4, <2>5
<1>9. CASE Fault
  <2>1. TypeOK'
    BY <1>9 DEF Fault, TypeOK, Stages, updates
  <2>2. PhaseInv'
    BY <1>9 DEF Fault, PhaseInv
  <2>3. StageInv'
    <3>1. \A i \in Calls : call'[i] = IF call[i] = "executing" THEN "orphaned"
                                      ELSE IF call[i] = "waiting" \/ i \in Finished THEN call[i]
                                      ELSE "dropped"
      BY <1>9 DEF Fault
    <3>2. phase' = "failed" /\ \A i \in Finished : call[i] \in Over
      BY <1>9 DEF Fault, Finished
    <3> QED BY <3>1, <3>2 DEF StageInv
  <2>4. PendingInv'
    <3>1. phase \notin {"failed", "cleared"} /\ pending' = pending
      BY <1>9 DEF Fault, JustEmitted
    <3>2. \A i \in Calls : call'[i] \in {"waiting"} \cup Over <=> call[i] \in {"waiting"} \cup Over
      BY <1>9 DEF Fault, Finished
    <3> QED BY <3>1, <3>2 DEF PendingInv
  <2>5. ResultsInv'
    BY <1>9 DEF Fault, ResultsInv
  <2> QED BY <2>1, <2>2, <2>3, <2>4, <2>5
<1>10. ASSUME NEW i \in Calls, Settle(i) PROVE BatchInv'
  <2>1. TypeOK'
    BY <1>10 DEF Settle, Stage, TypeOK, Stages, updates
  <2>2. PhaseInv'
    BY <1>10 DEF Settle, PhaseInv
  <2>3. StageInv'
    BY <1>10 DEF Settle, Stage, StageInv, PassedStages, CurrentStages
  <2>4. PendingInv'
    BY <1>10 DEF Settle, Stage, PendingInv
  <2>5. ResultsInv'
    BY <1>10 DEF Settle, ResultsInv, Emitted
  <2> QED BY <2>1, <2>2, <2>3, <2>4, <2>5
<1>11. ASSUME NEW i \in Calls, TakeHandles(i) PROVE BatchInv'
  <2>1. TypeOK'
    BY <1>11 DEF TakeHandles, Stage, TypeOK, Stages
  <2>2. PhaseInv'
    BY <1>11 DEF TakeHandles, PhaseInv
  <2>3. StageInv'
    BY <1>11 DEF TakeHandles, Stage, StageInv, PassedStages, CurrentStages
  <2>4. PendingInv'
    BY <1>11 DEF TakeHandles, Stage, PendingInv
  <2>5. ResultsInv'
    BY <1>11 DEF TakeHandles, ResultsInv, Emitted
  <2> QED BY <2>1, <2>2, <2>3, <2>4, <2>5
<1>12. ASSUME NEW i \in Calls, AfterHook(i) PROVE BatchInv'
  <2>1. TypeOK'
    BY <1>12 DEF AfterHook, Stage, TypeOK, Stages, updates
  <2>2. PhaseInv'
    BY <1>12 DEF AfterHook, PhaseInv
  <2>3. StageInv'
    BY <1>12 DEF AfterHook, Stage, StageInv, PassedStages, CurrentStages
  <2>4. PendingInv'
    BY <1>12 DEF AfterHook, Stage, PendingInv
  <2>5. ResultsInv'
    BY <1>12 DEF AfterHook, ResultsInv, Emitted
  <2> QED BY <2>1, <2>2, <2>3, <2>4, <2>5
<1>13. ASSUME NEW i \in Calls, End(i) PROVE BatchInv'
  <2>1. TypeOK'
    BY <1>13 DEF End, StillPending, Stage, TypeOK, Stages, updates
  <2>2. PhaseInv'
    BY <1>13 DEF End, PhaseInv
  <2>3. StageInv'
    <3>1. phase = "execute" /\ mode' = mode /\ cur' = cur /\ mode # "truncated"
          /\ phase' = (IF mode = "sequential" THEN "message" ELSE phase)
          /\ call[i] = "hooked" /\ call' = [call EXCEPT ![i] = "finished"]
      BY <1>13 DEF End, Stage, PhaseInv
    <3>2. CASE mode = "parallel"
      BY <3>1, <3>2 DEF StageInv, PassedStages, CurrentStages
    <3>3. CASE mode = "sequential"
      <4>1. ~(i < cur)
        BY <3>1, <3>3 DEF StageInv, PassedStages
      <4>2. ~(i > cur)
        BY <3>1 DEF StageInv
      <4>3. i = cur
        BY <4>1, <4>2 DEF TypeOK
      <4> QED BY <3>1, <4>3 DEF TypeOK, StageInv, PassedStages, CurrentStages
    <3> QED BY <3>1, <3>2, <3>3 DEF TypeOK
  <2>4. PendingInv'
    BY <1>13 DEF End, StillPending, Stage, TypeOK, PendingInv
  <2>5. ResultsInv'
    BY <1>13 DEF End, ResultsInv, Emitted
  <2> QED BY <2>1, <2>2, <2>3, <2>4, <2>5
<1>14. ASSUME NEW i \in Calls, UpdateCheck(i) PROVE BatchInv'
  BY <1>14, Untouched DEF UpdateCheck, TypeOK
<1>15. ASSUME NEW i \in Calls, UpdateSpawn(i) PROVE BatchInv'
  BY <1>15, Untouched DEF UpdateSpawn, TypeOK
<1>16. ASSUME NEW i \in Calls, UpdatePush(i) PROVE BatchInv'
  BY <1>16, Untouched DEF UpdatePush, TypeOK
<1>17. ASSUME NEW i \in Calls, UpdateEmit(i) PROVE BatchInv'
  BY <1>17, Untouched DEF UpdateEmit, TypeOK
<1>18. CASE Cancel
  BY <1>18, Untouched DEF Cancel, TypeOK, updates
<1>19. CASE UNCHANGED vars
  BY <1>19, Untouched DEF vars, updates, TypeOK
<1> QED BY <1>1, <1>2, <1>3, <1>4, <1>5, <1>6, <1>7, <1>8, <1>9, <1>10, <1>11, <1>12, <1>13,
           <1>14, <1>15, <1>16, <1>17, <1>18, <1>19
           DEF Next, BatchStep, CallStep, CallbackStep, Stopped

\* A batch keeps its books: which call is in preflight, which tasks run, which
\* calls are pending and in what order their results were emitted.
THEOREM BatchInvariant == Spec => []BatchInv
<1>1. Init => BatchInv
  BY BatchInvInit
<1>2. BatchInv /\ [Next]_vars => BatchInv'
  BY BatchInvNext
<1> QED BY <1>1, <1>2, PTL DEF Spec

-----------------------------------------------------------------------------
(***************************************************************************)
(* The properties.                                                         *)
(***************************************************************************)

(* When execute_tool_calls returns, every announced call has its end and   *)
(* its result, in source order; a call without a result means the run was  *)
(* cancelled; the batch ends the run only when every answered call wants   *)
(* it; and state.pending_tool_calls is the calls between start and end.    *)
THEOREM AnswersEveryCall == Spec => []EveryCallAnswered
<1>1. ASSUME BatchInv PROVE EveryCallAnswered
  <2> USE <1>1 DEF BatchInv
  <2>1. phase # "cleared" => pending = {i \in Calls : call[i] # "waiting" /\ i \notin Finished}
    <3>1. \A i \in Calls : i \in Finished <=> call[i] \in Over
      BY FinishedPublished
    <3> QED BY <3>1 DEF PendingInv, TypeOK
  <2>2. \A m, n \in DOMAIN results : m < n => results[m] < results[n]
    BY DEF ResultsInv
  <2>3. ASSUME phase = "done"
        PROVE  /\ Published = {i \in Calls : call[i] # "waiting"}
               /\ Published \subseteq Finished
               /\ ~cancelled => Published = Calls
    <3>1. \A i \in Calls : IF i > cur THEN call[i] = "waiting" ELSE call[i] \in Over
      <4>1. ~Failing /\ PassedStages = Over /\ CurrentStages = Over
        BY <2>3 DEF Failing, Preflight, PassedStages, CurrentStages
      <4> QED BY <4>1 DEF StageInv, TypeOK
    <3>2. \A i \in Calls : i \in Published <=> call[i] \in Over
      <4>1. \A i \in Calls : Emitted(i) <=> call[i] \in Over
        <5>1. CASE mode = "parallel"
          BY <2>3, <5>1 DEF ResultsInv
        <5>2. CASE mode # "parallel"
          <6>1. \A i \in Calls : Emitted(i) <=> i <= cur
            BY <2>3, <5>2 DEF ResultsInv, Failing
          <6> QED BY <3>1, <6>1 DEF TypeOK, Over
        <5> QED BY <5>1, <5>2
      <4> QED BY FinishedPublished
    <3>3. ~cancelled => cur = N
      BY <2>3 DEF PhaseInv
    <3>4. ~cancelled => \A i \in Calls : call[i] \in Over
      BY <3>1, <3>3, ToolBatchAssumption DEF Calls
    <3>5. Published \subseteq Calls /\ \A i \in Calls : i \in Finished <=> call[i] \in Over
      BY FinishedPublished
    <3>6. \A i \in Calls : call[i] \in Over <=> call[i] # "waiting"
      BY <3>1 DEF Over
    <3> QED BY <3>2, <3>4, <3>5, <3>6
  <2> QED BY <2>1, <2>2, <2>3 DEF EveryCallAnswered, BatchTerminate
<1> QED BY <1>1, BatchInvariant, PTL

(* No tool runs while another call is in preflight, and a cancelled run    *)
(* lets no further call through preflight.                                 *)
THEOREM PreflightRunsAlone == Spec => PreflightAlone
<1> DEFINE Apart == \A i, j \in Calls : ~(call[i] = "started" /\ call[j] \in {"executing", "settled"})
           NoneNew == cancelled => \A i \in Calls : call[i] \in {"waiting", "started"} =>
                                     call'[i] \notin {"prepared", "executing"}
           Alone == /\ \A i, j \in Calls :
                         ~(call'[i] = "started" /\ call'[j] \in {"executing", "settled"})
                    /\ NoneNew
<1>1. BatchInv => Apart
  <2> SUFFICES ASSUME BatchInv, NEW i \in Calls, NEW j \in Calls, call[i] = "started"
               PROVE  call[j] \notin {"executing", "settled"}
    OBVIOUS
  <2> USE ToolBatchAssumption DEF BatchInv, TypeOK, Calls, Over, Executing
  <2>1. ~Failing
    BY DEF StageInv
  <2>2. ~(i < cur) /\ ~(i > cur)
    BY DEF StageInv, PassedStages
  <2>3. i = cur
    BY <2>2
  <2>4. phase = "prepare"
    BY <2>3 DEF StageInv, CurrentStages, PassedStages
  <2>5. PassedStages \subseteq {"prepared", "refused", "finished"} /\ CurrentStages = {"started"}
    BY <2>4 DEF PassedStages, CurrentStages
  <2>6. CASE j < cur
    BY <2>1, <2>5 DEF StageInv
  <2>7. CASE j = cur
    BY <2>3, <2>7
  <2>8. CASE j > cur
    BY <2>8 DEF StageInv
  <2> QED BY <2>6, <2>7, <2>8
<1>2. ASSUME BatchInv, [Next]_vars, cancelled, NEW i \in Calls, call[i] \in {"waiting", "started"}
      PROVE  call'[i] \notin {"prepared", "executing"}
  <2> USE <1>2 DEF BatchInv, TypeOK, Calls
  <2>1. CASE Start
    BY <2>1 DEF Start, Stage
  <2>2. CASE Prepare
    BY <2>2 DEF Prepare, MayPrepare, Stage
  <2>3. CASE EndImmediate
    BY <2>3 DEF EndImmediate, Stage
  <2>4. CASE AfterCall
    BY <2>4 DEF AfterCall
  <2>5. CASE AllExecuted \/ EmitResult \/ Publish \/ ClearPending
    BY <2>5 DEF AllExecuted, EmitResult, Publish, ClearPending
  <2>6. CASE Fault
    <3>1. call'[i] = IF call[i] = "executing" THEN "orphaned"
                     ELSE IF call[i] = "waiting" \/ i \in Finished THEN call[i]
                     ELSE "dropped"
      BY <2>6 DEF Fault
    <3> QED BY <3>1
  <2>7. ASSUME NEW j \in Calls, CallStep(j) PROVE call'[i] \notin {"prepared", "executing"}
    BY <2>7 DEF CallStep, Settle, TakeHandles, AfterHook, End, Stage
  <2>8. ASSUME NEW j \in Calls, UpdateCheck(j) \/ CallbackStep(j) \/ UpdateEmit(j)
        PROVE  call'[i] \notin {"prepared", "executing"}
    BY <2>8 DEF UpdateCheck, CallbackStep, UpdateSpawn, UpdatePush, UpdateEmit
  <2>9. CASE Cancel \/ UNCHANGED vars
    BY <2>9 DEF Cancel, vars
  <2> QED BY <2>1, <2>2, <2>3, <2>4, <2>5, <2>6, <2>7, <2>8, <2>9 DEF Next, BatchStep, Stopped
<1>3. BatchInv /\ [Next]_vars => [NoneNew]_vars
  BY <1>2
<1>4. Spec => [][Apart' /\ NoneNew]_vars
  <2> HIDE DEF Apart, NoneNew
  <2> QED BY <1>1, <1>3, BatchInvariant, PTL DEF Spec
<1>5. [Apart' /\ NoneNew]_vars => [Alone]_vars
  OBVIOUS
<1>6. Spec => [][Alone]_vars
  BY <1>4, <1>5, PTL
<1> QED BY <1>6 DEF PreflightAlone

(* What the callback of a call has done, when tools keep it to themselves: *)
(* the handle of a spawned task is pushed before the tool returns, so that *)
(* no call is past its hook with a task still running.                     *)
UpdateInv ==
  \A i \in Calls :
    /\ updater[i] = "idle" => task[i] = "none" /\ i \notin handles \cup awaited
    /\ updater[i] = "accepted" => task[i] = "none"
    /\ updater[i] = "pushed" => i \in handles \cup awaited
    /\ updater[i] \in {"accepted", "spawned"} => call[i] = "executing"
    /\ call[i] \in {"drained", "hooked", "finished"} => i \notin handles
    /\ call[i] \in {"hooked", "finished"} => task[i] # "running"

\* No step brings an update on its way for a call that has ended.
LEMMA UpdateInvNext ==
  ASSUME DetachedUpdaters = FALSE, TypeOK, UpdateInv, [Next]_vars
  PROVE  UpdateInv'
<1> USE DEF TypeOK, Calls
<1>1. ASSUME BatchMayRun, BatchStep \/ Fault PROVE UpdateInv'
  <2>1. UNCHANGED updates
    BY <1>1
       DEF BatchStep, Start, Prepare, EndImmediate, AfterCall, AllExecuted, EmitResult,
           Publish, ClearPending, Fault
  <2>2. \A i \in Calls : call'[i] \in {"drained", "hooked", "finished"} => call'[i] = call[i]
    BY <1>1
       DEF BatchStep, Start, Prepare, EndImmediate, AfterCall, AllExecuted, EmitResult,
           Publish, ClearPending, Fault, Stage, PreparedStage
  <2>3. \A i \in Calls : updater[i] \in {"idle", "pushed"}
    BY <1>1 DEF BatchMayRun
  <2> QED BY <2>1, <2>2, <2>3 DEF UpdateInv, updates
<1>2. ASSUME NEW j \in Calls, BatchMayRun, CallStep(j) PROVE UpdateInv'
  <2>1. \A i \in Calls : updater[i] \in {"idle", "pushed"} /\ updater'[i] = updater[i] /\ task'[i] = task[i]
    BY <1>2 DEF BatchMayRun, CallStep, Settle, TakeHandles, AfterHook, End, updates
  <2>2. CASE Settle(j)
    BY <2>1, <2>2 DEF Settle, Stage, UpdateInv, updates
  <2>3. CASE TakeHandles(j)
    BY <2>3 DEF TakeHandles, Stage, UpdateInv
  <2>4. CASE AfterHook(j)
    BY <2>4 DEF AfterHook, UpdatesDone, Stage, UpdateInv, updates
  <2>5. CASE End(j)
    BY <2>5 DEF End, Stage, UpdateInv, updates
  <2> QED BY <1>2, <2>2, <2>3, <2>4, <2>5 DEF CallStep
<1>3. ASSUME NEW j \in Calls, UpdateCheck(j) PROVE UpdateInv'
  BY <1>3 DEF UpdateCheck, Accepting, UpdateInv
<1>4. ASSUME NEW j \in Calls, UpdateSpawn(j) PROVE UpdateInv'
  BY <1>4 DEF UpdateSpawn, UpdateInv
<1>5. ASSUME NEW j \in Calls, UpdatePush(j) PROVE UpdateInv'
  BY <1>5 DEF UpdatePush, UpdateInv
<1>6. ASSUME NEW j \in Calls, UpdateEmit(j) PROVE UpdateInv'
  BY <1>6 DEF UpdateEmit, UpdateInv
<1>7. CASE Cancel \/ UNCHANGED vars
  BY <1>7 DEF Cancel, vars, updates, UpdateInv
<1> QED BY <1>1, <1>2, <1>3, <1>4, <1>5, <1>6, <1>7 DEF Next, CallbackStep, Stopped

(* A tool that keeps on_update to itself has no update go out after the    *)
(* end of its call, however long the task that emits it waits.             *)
THEOREM NoLateUpdate ==
  ASSUME DetachedUpdaters = FALSE
  PROVE  Spec => NoUpdateAfterEnd
<1> DEFINE Late == \A i \in Calls : call[i] = "finished" =>
                     ~(task[i] = "running" /\ task'[i] = "emitted")
<1>1. Init => UpdateInv
  BY DEF Init, UpdateInv
<1>2. TypeOK /\ UpdateInv /\ [Next]_vars => UpdateInv'
  BY UpdateInvNext
<1>3. BatchInv => TypeOK
  BY DEF BatchInv
<1>4. UpdateInv => [Late]_vars
  BY DEF UpdateInv
<1> QED BY <1>1, <1>2, <1>3, <1>4, BatchInvariant, PTL DEF Spec, NoUpdateAfterEnd


\* The listeners that are run beside the batches hear every event, once and in
\* their order, as AgentEvents promises whatever goes on around it.
THEOREM ListenersHear == MCSpec => []ListenersHearEvents
<1>1. MCInit => Events!Init
  BY DEF MCInit
<1>2. [MCNext]_<<vars, eventVars>> => [Events!Next]_Events!vars
  BY DEF MCNext, eventVars, Events!vars
<1>3. Events!Spec => []Events!ListenersHearEvents
  BY Events!EventsHeard
<1>4. Events!ListenersHearEvents => ListenersHearEvents
  BY DEF ListenersHearEvents
<1> QED
  BY <1>1, <1>2, <1>3, <1>4, PTL DEF MCSpec, Events!Spec

=============================================================================
