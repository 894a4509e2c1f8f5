----------------------------- MODULE OAuthKeys -----------------------------
(***************************************************************************)
(* get_oauth_api_key (oauth/mod.rs) for the two providers: stored          *)
(* credentials are turned into an API key and renewed when they have       *)
(* expired.  Several tasks of the application may do so at a time; each    *)
(* stores the credentials it gets back, as README.md tells it to.          *)
(*                                                                         *)
(* The n-th pair of tokens an authorization server issues is n.  A server  *)
(* that rotates accepts each refresh token once.                           *)
(***************************************************************************)
EXTENDS Integers

CONSTANTS
  Tasks,      \* tasks that need a key
  MaxIssued   \* bound: pairs of tokens the server issues

ASSUME KeysAssumption == MaxIssued \in Nat \ {0}

VARIABLES
  policy,   \* what the server does with user tokens
  issued,   \* pairs of tokens issued
  spent,    \* refresh tokens that the server accepts no more
  due,      \* user tokens whose recorded expiry has come
  lapsed,   \* user tokens that the server accepts no more
  store,    \* the stored credentials: {} or one
  stale,    \* the stored key has expired
  call,     \* each task's get_oauth_api_key
  excused   \* a renewed token was lost for a reason outside of the library

serverKeys == <<policy, issued, spent, due, lapsed>>
keyVars == <<serverKeys, store, stale, call, excused>>

Policies == [rotates : BOOLEAN, refreshes : BOOLEAN, expires : BOOLEAN]

NoTokens == [token |-> 0, refresh |-> {}, expires |-> FALSE]
Idle == [at |-> "idle", from |-> NoTokens, tokens |-> NoTokens]

KeysInit ==
  /\ issued = 0 /\ spent = {} /\ due = {} /\ lapsed = {}
  /\ store = {} /\ stale = FALSE
  /\ call = [t \in Tasks |-> Idle]
  /\ excused = FALSE

\* The application stores what the login returned.
StoreLogin ==
  /\ issued' = 1
  /\ store' = {[token |-> 1, refresh |-> IF policy.refreshes THEN {1} ELSE {},
                expires |-> policy.expires]}
  /\ UNCHANGED <<policy, spent, due, lapsed, stale, call, excused>>

\* Time passes: a token that records its expiry is due before it lapses.
KeyExpires ==
  /\ store # {} /\ ~stale
  /\ stale' = TRUE
  /\ UNCHANGED <<serverKeys, store, call, excused>>

TokenAges ==
  /\ \E n \in 1..issued :
       \/ n \notin due /\ due' = due \cup {n} /\ UNCHANGED lapsed
       \/ n \in due \ lapsed /\ lapsed' = lapsed \cup {n} /\ UNCHANGED due
  /\ UNCHANGED <<policy, issued, spent, store, stale, call, excused>>

-----------------------------------------------------------------------------
At(t, point) == call[t].at = point

Move(t, point) == call' = [call EXCEPT ![t].at = point]

HasRenewed(t) == call[t].tokens # call[t].from

\* The call returns an error, and with it goes what it holds.
Give(t, why) ==
  /\ call' = [call EXCEPT ![t] = Idle]
  /\ excused' = (excused \/ why)

KnownDue(c) == c.refresh # {} /\ c.expires /\ c.token \in due

\* A call finds an expired key, and for Copilot perhaps a user token that is
\* due; a key that is good is returned at once.
AskKey(t, copilot) ==
  /\ At(t, "idle") /\ stale
  /\ \E c \in store :
       call' = [call EXCEPT ![t] =
         [at |-> IF ~copilot \/ KnownDue(c) THEN "renewing" ELSE "minting",
          from |-> c, tokens |-> c]]
  /\ UNCHANGED <<serverKeys, store, stale, excused>>

\* The mutant keeps the refresh token it has just spent.
RenewedTokensOld(old, n) == [token |-> n, refresh |-> old.refresh, expires |-> policy.expires]

\* The tokens of a call after a renewal, which keeps the refresh token unless
\* the answer brings another one.
RenewedTokens(old, n) ==
  [token |-> n, refresh |-> IF policy.rotates THEN {n} ELSE old.refresh,
   expires |-> policy.expires]

\* The server issues a new pair for the refresh token of the call.
Issue(t) ==
  /\ issued < MaxIssued /\ call[t].tokens.refresh \cap spent = {}
  /\ issued' = issued + 1
  /\ spent' = IF policy.rotates THEN spent \cup call[t].tokens.refresh ELSE spent

\* A renewal by the refresh token: proactive, or after a refused mint.
Renew(t, copilot) ==
  /\ At(t, "renewing") \/ At(t, "renewing again")
  /\ \/ /\ Issue(t)
        /\ \/ /\ call' = [call EXCEPT ![t] =
                   [at |-> IF ~copilot THEN "renewed"
                           ELSE IF @.at = "renewing" THEN "minting" ELSE "minting again",
                    from |-> @.from, tokens |-> RenewedTokens(@.tokens, issued + 1)]]
              /\ UNCHANGED excused
           \/ Give(t, TRUE)  \* the answer is lost
     \/ /\ Give(t, HasRenewed(t) /\ call[t].tokens.refresh \cap spent = {})
        /\ UNCHANGED <<issued, spent>>
  /\ UNCHANGED <<policy, due, lapsed, store, stale>>

\* The Copilot key is minted from the user token.  One that is rejected, which
\* may happen to a good one too, is renewed once.
Mint(t) ==
  /\ At(t, "minting") \/ At(t, "minting again")
  /\ \/ call[t].tokens.token \notin lapsed /\ Move(t, "listing") /\ UNCHANGED excused
     \/ /\ At(t, "minting") /\ call[t].tokens.refresh # {}
        /\ Move(t, "renewing again") /\ UNCHANGED excused
     \/ Give(t, HasRenewed(t))
  /\ UNCHANGED <<serverKeys, store, stale>>

\* The models are listed, with one retry of a listing that is asked to wait.
ListModels(t) ==
  /\ At(t, "listing") \/ At(t, "listing again")
  /\ \/ Move(t, "renewed") /\ UNCHANGED excused
     \/ At(t, "listing") /\ Move(t, "listing again") /\ UNCHANGED excused
     \/ Give(t, HasRenewed(t))
  /\ UNCHANGED <<serverKeys, store, stale>>

\* The call returns a key, and its task stores the credentials, over whatever
\* another task has stored meanwhile.
StoreRenewed(t) ==
  /\ At(t, "renewed")
  /\ store' = {call[t].tokens} /\ stale' = FALSE
  /\ Give(t, store # {call[t].from})
  /\ UNCHANGED serverKeys

=============================================================================
