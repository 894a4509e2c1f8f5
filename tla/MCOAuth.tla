------------------------------ MODULE MCOAuth ------------------------------
(***************************************************************************)
(* Instances of OAuth and SessionResources for TLC.  OAuth: the pauses of  *)
(* the code, answers that take up to a second, three polls, codes that     *)
(* expire before, at and after the second poll, two tasks and three pairs  *)
(* of tokens.  SessionResources shares nothing with it; its threads come   *)
(* in when nothing of a login is left to run.                              *)
(***************************************************************************)
EXTENDS OAuth

CONSTANTS Threads, Callbacks, Leaving

VARIABLES registry, past, readers, at, todo, ran, errors, throughout

resourceVars == <<registry, past, readers, at, todo, ran, errors, throughout>>

Resources == INSTANCE SessionResources

LoginIsOver ==
  job = "anthropic" /\ phase = "done" /\ result = "cancelled" /\ policy.rotates

MCInit == Init /\ Resources!Init

MCNext ==
  \/ Next /\ UNCHANGED resourceVars
  \/ LoginIsOver /\ Resources!Next /\ UNCHANGED vars

MCSpec ==
  /\ MCInit /\ [][MCNext]_<<vars, resourceVars>>
  /\ Fairness /\ Resources!Fairness

\* A cleanup that is over has run every callback that stayed registered
\* (SessionResources).
CleanupReachesAll == Resources!CleanupReachesAll

\* A cleanup ends (SessionResources).
CleanupEnds == Resources!CleanupEnds

=============================================================================
